--------------------------- MODULE OnDemandProofs ---------------------------
(***************************************************************************)
(* Proofs about OnDemand: type correctness, whom the app is asked for      *)
(* (CreatesOffered), the accounting of leases (LeaseAccounted), and that   *)
(* no trigger is lost (TriggerKept).                                       *)
(***************************************************************************)
EXTENDS OnDemand, SequenceTheorems, FiniteSetTheorems, WellFoundedInduction, TLAPS

(***************************************************************************)
(* The inductive invariant.  A lease passes from the batch to its pod and  *)
(* from the pod to the watch.  At the first handover the batch asks only   *)
(* whether the pod is still recorded, so the record must say that the pod  *)
(* has not gone, or that the watch will yet hear of it (OccupiedInv); and  *)
(* a pod that has a lease must not be tried again (RefInv).  At the second *)
(* the watch cancels only what is listed (ListedInv).                      *)
(***************************************************************************)

\* The batch has a lease for the candidate it is at.
Holding == {"lock", "admit", "patch", "applied", "revoke", "revoke_retry"}

Granted == {batch.granted[i] : i \in 1..Len(batch.granted)}

Going(e) == e.type = "DELETED" \/ e.phase = "done"

\* A pod the watch has yet to hear of.
New(p) ==
    \/ phase[p] = "absent"
    \/ \E i \in 1..Len(events) : events[i].pod = p /\ events[i].type = "ADDED"

\* The watch has one pod at a time in hand, the batch one candidate.
AtHand ==
    /\ IF watch.pc = "idle" THEN watch.pod = None ELSE watch.pod \in Pods
    /\ IF batch.pc \in {"idle", "next", "grant"} THEN batch.cur = None ELSE batch.cur \in Pods
    /\ watch.pc = "locking" => watch.pod \in booked

\* What is granted was offered, and each candidate once.
GrantInv ==
    /\ batch.pc \in {"idle", "next", "read"} => batch.granted = <<>>
    /\ Granted \subseteq batch.ready /\ (batch.answered \/ Granted \subseteq batch.due)
    /\ \A i, j \in 1..Len(batch.granted) : i # j => batch.granted[i] # batch.granted[j]
    /\ batch.pc \in {"create"} \cup Holding =>
          /\ batch.cur \in batch.ready \ Granted
          /\ batch.answered \/ batch.cur \in batch.due

\* Bookings draw only on pods they can take.
BookedInv ==
    /\ queued \subseteq booked
    /\ \A p \in Pods : ref[p] = "booking" => p \in booked

\* A pod is added once; what an event says of a lease is still so.
EventsInv ==
    /\ \A i \in 1..Len(events) :
          /\ phase[events[i].pod] # "absent"
          /\ events[i].ref = "lease" => ref[events[i].pod] = "lease"
          /\ events[i].ref = "booking" => events[i].pod \in booked
    /\ \A i, j \in 1..Len(events) :
          events[i].type = "ADDED" /\ events[j].type = "ADDED"
             /\ events[i].pod = events[j].pod => i = j

\* The watch hears last of a pod that went that it has gone.
GoneInv ==
    \A i \in 1..Len(events) :
        LET p == events[i].pod IN
        ref[p] = "lease" /\ phase[p] \in {"done", "gone"} /\ ~ Going(events[i]) =>
            \E j \in 1..Len(events) : j > i /\ PodGoing(events[j], p)

\* The batch knows nothing of a pod the watch has yet to hear of.
NewInv ==
    \A p \in Pods : New(p) =>
        /\ ref[p] # "lease" /\ p # batch.cur
        /\ p \notin candidates \cup batch.todo \cup batch.ready

\* A pod admitted under a lease is not tried again.
RefInv ==
    /\ batch.pc = "applied" => ref[batch.cur] = "lease"
    /\ faults = 0 => \A p \in Pods : ref[p] = "lease" =>
          /\ p \in candidates => batch.cur = p /\ batch.pc \in {"applied", "revoke"}
          /\ batch.pc \in {"next", "read"} => p \notin batch.todo \cup batch.ready /\ p # batch.cur
          /\ p \notin Granted
          /\ batch.cur = p => batch.pc \notin {"create", "lock", "admit", "patch"}

\* A pod recorded under its lease is there, or the watch will hear that it went.
OccupiedInv ==
    faults = 0 => \A p \in occupied :
        ref[p] = "lease" /\ phase[p] \in {"done", "gone"} =>
            \E i \in 1..Len(events) : PodGoing(events[i], p)

\* An active lease is listed, but for one just created.
ListedInv ==
    faults = 0 => \A p \in Pods \ BestEffort :
        lease[p] = "active" => p \in listed \/ (batch.cur = p /\ batch.pc = "lock")

LeaseInv ==
    \A p \in Pods \ BestEffort : lease[p] = "active" /\ faults = 0 /\ p \notin booked =>
        \/ ref[p] = "lease" /\ phase[p] \in {"pending", "bound"}
        \/ batch.cur = p /\ batch.pc \in Holding
        \/ watch.pod = p
        \/ \E i \in 1..Len(events) : PodGoing(events[i], p)

BatchStates ==
    [pc : {"idle", "next", "read", "grant", "create"} \cup Holding,
     by : {"none", "watch", "tick"}, todo : SUBSET Pods, due : SUBSET Pods,
     ready : SUBSET Pods, cur : Pods \cup {None}, granted : Seq(Pods), answered : BOOLEAN]

WatchStates ==
    [pc : {"idle", "teardown", "locking", "cancel"}, pod : Pods \cup {None}, freed : BOOLEAN]

\* TypeOK without the history, in three parts.
ClusterShape ==
    /\ phase \in [Pods -> Phases] /\ ref \in [Pods -> Refs]
    /\ node \in [Pods -> Nodes \cup {None}]
    /\ ruled \subseteq Pods /\ events \in Seq(Event)
    /\ lease \in [Pods -> {"none", "active", "over"}]
    /\ booked \subseteq Booked /\ delegate \in BOOLEAN

FlagShape ==
    /\ candidates \subseteq Pods
    /\ cooling \subseteq candidates /\ awaiting_capacity \subseteq candidates
    /\ held_by_node_fit \subseteq candidates /\ awaiting_schedule_signal \subseteq candidates

LoopShape ==
    /\ listed \subseteq Pods /\ queued \subseteq Pods /\ occupied \subseteq Pods
    /\ gpu_pods \in [Pods -> {"none", "claim"} \cup Nodes]
    /\ lock \in {"free", "batch", "watch"} /\ watch \in WatchStates
    /\ batch \in BatchStates /\ rerun \in BOOLEAN /\ faults \in 0..MaxFaults

Core ==
    /\ ClusterShape /\ FlagShape /\ LoopShape
    /\ AtHand /\ GrantInv /\ BookedInv /\ EventsInv /\ GoneInv /\ NewInv
    /\ RefInv /\ OccupiedInv /\ ListedInv /\ LeaseInv

IInv == Core /\ urgent \subseteq candidates

-----------------------------------------------------------------------------
(* Facts about the parts *)

LEMMA ConstantFacts ==
    /\ Pods \subseteq Nat /\ IsFiniteSet(Pods) /\ None \notin Pods /\ None \notin Nodes
    /\ "claim" \notin Nodes /\ "none" \notin Nodes
    /\ MaxFaults \in Nat /\ Booked \subseteq Pods
BY ConstantsAssumption

LEMMA Appended ==
    ASSUME NEW S, NEW s \in Seq(S), NEW e \in S
    PROVE  /\ Append(s, e) \in Seq(S) /\ Len(Append(s, e)) = Len(s) + 1 /\ Len(s) \in Nat
           /\ \A i \in 1..Len(s) : Append(s, e)[i] = s[i]
           /\ Append(s, e)[Len(s) + 1] = e
BY AppendProperties, LenProperties

LEMMA Tailed ==
    ASSUME NEW S, NEW s \in Seq(S), s # <<>>
    PROVE  /\ Head(s) \in S /\ Head(s) = s[1] /\ Tail(s) \in Seq(S)
           /\ Len(s) \in Nat \ {0} /\ Len(Tail(s)) = Len(s) - 1
           /\ \A i \in 1..Len(s) - 1 : Tail(s)[i] = s[i + 1]
<1>1. Len(s) \in Nat /\ Len(s) # 0
    BY LenProperties, EmptySeq
<1>2. /\ Head(s) \in S /\ Tail(s) \in Seq(S) /\ Len(Tail(s)) = Len(s) - 1
      /\ \A i \in 1..Len(Tail(s)) : Tail(s)[i] = s[i + 1]
    BY HeadTailProperties
<1> QED BY <1>1, <1>2

\* The oldest of some pods is one of them.
LEMMA OldestFacts == ASSUME NEW T \in SUBSET Pods, T # {} PROVE Oldest(T) \in T
<1> DEFINE R == {ss \in Nat \X Nat : ss[1] < ss[2]}
<1>1. IsWellFoundedOn(R, Nat)
    BY NatLessThanWellFounded, Zenon DEF OpToRel
<1>2. \A x, y \in Nat : y < x => <<y, x>> \in R
    OBVIOUS
<1> HIDE DEF R
<1>3. T \subseteq Nat /\ T # {}
    BY ConstantFacts
<1>4. \E x \in T : \A y \in T : ~ (<<y, x>> \in R)
    BY <1>1, <1>3, WFMin, Zenon
<1>5. \E x \in T : \A y \in T : ~ (y < x)
    BY <1>2, <1>3, <1>4, Zenon
<1>6. \E x \in T : \A y \in T : x <= y
    BY <1>3, <1>5
<1> QED BY <1>6 DEF Oldest

LEMMA TypeFacts == ASSUME IInv PROVE TypeOK
BY DEF IInv, Core, ClusterShape, FlagShape, LoopShape, TypeOK, WatchStates, BatchStates, Holding

LEMMA InitInv == Init => IInv
<1> SUFFICES ASSUME Init PROVE IInv
    OBVIOUS
<1>1. /\ NoBatch \in BatchStates /\ NoBatch.pc = "idle" /\ NoBatch.cur = None
      /\ NoBatch.granted = <<>> /\ NoBatch.todo = {} /\ NoBatch.ready = {}
    BY EmptySeq DEF NoBatch, BatchStates, Holding
<1>2. WatchAtRest \in WatchStates /\ WatchAtRest.pc = "idle" /\ WatchAtRest.pod = None
    BY DEF WatchAtRest, WatchStates
<1>3. events \in Seq(Event) /\ Len(events) = 0
    BY EmptySeq DEF Init
<1>4. ClusterShape /\ FlagShape
    BY <1>3, ConstantFacts DEF Init, ClusterShape, FlagShape, Phases, Refs
<1>5. LoopShape
    <2>1. /\ listed \subseteq Pods /\ queued \subseteq Pods /\ occupied \subseteq Pods
          /\ gpu_pods \in [Pods -> {"none", "claim"} \cup Nodes]
        BY DEF Init
    <2>2. lock = "free" /\ watch \in WatchStates /\ batch \in BatchStates
        BY <1>1, <1>2 DEF Init
    <2>3. rerun \in BOOLEAN /\ faults = 0
        BY Zenon DEF Init
    <2>4. faults \in 0..MaxFaults
        BY <2>3, ConstantFacts
    <2> QED BY <2>1, <2>2, <2>3, <2>4 DEF LoopShape
<1>6. Len(batch.granted) = 0 /\ Granted = {}
    BY <1>1, EmptySeq DEF Init, Granted
<1>7. AtHand /\ GrantInv /\ BookedInv
    BY <1>1, <1>2, <1>6 DEF Init, AtHand, GrantInv, BookedInv, Holding
<1>8. EventsInv /\ GoneInv /\ NewInv /\ RefInv
    BY <1>1, <1>3, ConstantFacts DEF Init, EventsInv, GoneInv, NewInv, RefInv
<1>9. OccupiedInv /\ ListedInv /\ LeaseInv
    BY DEF Init, OccupiedInv, ListedInv, LeaseInv
<1> QED BY <1>4, <1>5, <1>7, <1>8, <1>9 DEF Init, IInv, Core

-----------------------------------------------------------------------------
(* What a step does to the flags, the history and the batch *)

LEMMA UrgencyFacts == ASSUME Urgency PROVE urgent' \subseteq candidates'
BY Zenon DEF Urgency

LEMMA FlagsSet ==
    ASSUME NEW cool, NEW await, NEW fit, NEW signal,
           SetFlags(cool, await, fit, signal), candidates' \subseteq Pods
    PROVE  FlagShape'
BY DEF SetFlags, FlagShape

LEMMA FlagsKept == ASSUME FlagShape, UNCHANGED <<candidates, flags>> PROVE FlagShape'
BY DEF FlagShape, flags

\* The batch at rest, or at the start of a pass.
Rested ==
    /\ batch'.pc \in {"idle", "next"} /\ batch'.cur = None /\ batch'.granted = <<>>
    /\ batch'.ready = {} /\ batch'.todo \subseteq candidates'

Between == batch.pc \in {"idle", "next", "grant"}

LEMMA PassStarts ==
    ASSUME FlagShape', NEW by \in {"none", "watch", "tick"}, StartPass(by)
    PROVE  batch' \in BatchStates /\ rerun' \in BOOLEAN /\ Rested
<1> DEFINE due == candidates' \ cooling'
           todo == due \cup (IF delegate THEN awaiting_capacity' ELSE {})
<1>1. /\ batch' = [NoBatch EXCEPT !.pc = "next", !.by = by, !.due = due, !.todo = todo]
      /\ rerun' = FALSE
    BY Zenon DEF StartPass
<1>2. due \subseteq Pods /\ todo \subseteq Pods /\ todo \subseteq candidates'
    BY DEF FlagShape
<1> HIDE DEF due, todo
<1>3. batch' = [pc |-> "next", by |-> by, todo |-> todo, due |-> due, ready |-> {},
                cur |-> None, granted |-> <<>>, answered |-> FALSE]
    BY <1>1 DEF NoBatch
<1>4. batch' \in BatchStates
    BY <1>2, <1>3, EmptySeq DEF BatchStates
<1>5. Rested
    BY <1>2, <1>3 DEF Rested
<1> QED BY <1>1, <1>4, <1>5

LEMMA TriggerFacts ==
    ASSUME FlagShape', batch \in BatchStates, rerun \in BOOLEAN,
           NEW by \in {"none", "watch", "tick"}, Trigger(by) \/ NoTrigger
    PROVE  /\ batch' \in BatchStates /\ rerun' \in BOOLEAN
           /\ batch' = batch \/ (Rested /\ Between)
<1>1. CASE NoTrigger
    BY <1>1, Zenon DEF NoTrigger
<1>2. CASE Trigger(by) /\ batch.pc # "idle"
    <2>1. rerun' = TRUE /\ batch' = batch
        BY <1>2, Zenon DEF Trigger
    <2> QED BY <2>1
<1>3. CASE Trigger(by) /\ batch.pc = "idle"
    <2>1. StartPass(by)
        BY <1>3, Zenon DEF Trigger
    <2> QED BY <1>3, <2>1, PassStarts DEF Between
<1> QED BY <1>1, <1>2, <1>3

LEMMA EndPassFacts ==
    ASSUME FlagShape', batch \in BatchStates, rerun \in BOOLEAN, EndPass
    PROVE  batch' \in BatchStates /\ rerun' \in BOOLEAN /\ Rested
<1>1. CASE rerun
    <2>1. StartPass(batch.by)
        BY <1>1, Zenon DEF EndPass
    <2>2. batch.by \in {"none", "watch", "tick"}
        BY DEF BatchStates
    <2> QED BY <2>1, <2>2, PassStarts
<1>2. CASE ~ rerun
    <2>1. batch' = NoBatch /\ rerun' = rerun
        BY <1>2, Zenon DEF EndPass
    <2>2. NoBatch \in BatchStates
        BY EmptySeq DEF NoBatch, BatchStates
    <2>3. Rested
        BY <2>1 DEF Rested, NoBatch
    <2> QED BY <2>1, <2>2, <2>3
<1> QED BY <1>1, <1>2

\* The conjuncts about the batch survive a step that leaves it alone or finds it
\* between two candidates and starts a pass.
LEMMA BatchKept ==
    ASSUME Core, batch' = batch \/ (Rested /\ Between), ref' = ref,
           faults' = 0 => faults = 0,
           \A q \in candidates' \ candidates : ref[q] # "lease"
    PROVE  /\ IF batch'.pc \in {"idle", "next", "grant"} THEN batch'.cur = None
              ELSE batch'.cur \in Pods
           /\ GrantInv' /\ RefInv'
<1>1. CASE batch' = batch
    <2>1. Granted' = Granted
        BY <1>1 DEF Granted
    <2> QED BY <1>1, <2>1 DEF Core, AtHand, GrantInv, RefInv
<1>2. CASE Rested /\ Between
    <2>1. Len(batch'.granted) = 0 /\ Granted' = {}
        BY <1>2, EmptySeq DEF Rested, Granted
    <2>2. GrantInv'
        BY <1>2, <2>1 DEF Rested, GrantInv, Holding
    <2>3. batch.cur = None
        BY <1>2 DEF Core, AtHand, Between
    <2>4. faults' = 0 => \A p \in Pods : ref[p] = "lease" => p \notin candidates'
        BY <2>3, ConstantFacts DEF Core, RefInv
    <2>5. RefInv'
        BY <1>2, <2>1, <2>4, ConstantFacts DEF RefInv, Rested
    <2> QED BY <1>2, <2>2, <2>5 DEF Rested
<1> QED BY <1>1, <1>2

-----------------------------------------------------------------------------
(* The cluster *)

\* A step that changes pod p and tells the watch: what the event may say.
Tells(p, e) ==
    /\ p \in Pods /\ e \in Event /\ events' = Append(events, e)
    /\ e.pod = p /\ e.phase = phase'[p] /\ e.ref = ref'[p]
    /\ phase' \in [Pods -> Phases] /\ ref' \in [Pods -> Refs]
    /\ \A q \in Pods \ {p} : phase'[q] = phase[q] /\ ref'[q] = ref[q]
    /\ IF phase[p] = "absent" THEN phase'[p] = "pending" /\ e.type = "ADDED" /\ ref'[p] = ref[p]
       ELSE phase'[p] # "absent" /\ e.type # "ADDED"
    /\ phase[p] \in {"done", "gone"} => phase'[p] \in {"done", "gone"}
    /\ phase'[p] \in {"done", "gone"} => Going(e)

Alone == UNCHANGED <<lease, booked, listed, candidates, occupied, watch, batch, faults>>

\* It is a pod's own business, or a booking takes the pod.
LEMMA PodChanges ==
    ASSUME Core, NEW p \in Pods, NEW e \in Event, Tells(p, e), Alone,
           ref'[p] = ref[p] \/ (ref'[p] = "booking" /\ ref[p] = "none" /\ p \in booked)
    PROVE  EventsInv' /\ GoneInv' /\ NewInv' /\ RefInv' /\ OccupiedInv' /\ LeaseInv'
<1>1. events \in Seq(Event)
    BY DEF Core, ClusterShape
<1> DEFINE n == Len(events)
<1>2. /\ n \in Nat /\ Len(events') = n + 1 /\ events'[n + 1] = e
      /\ \A i \in 1..n : events'[i] = events[i] /\ events[i] \in Event
    BY <1>1, Appended, ElementOfSeq DEF Tells
<1> HIDE DEF n
<1>3. \A i \in 1..n : events[i].pod \in Pods
    BY <1>2 DEF Event
<1>4. \A q \in Pods : ref'[q] = "lease" <=> ref[q] = "lease"
    BY DEF Tells
<1>5. e.ref = "booking" => p \in booked
    BY DEF Tells, Core, BookedInv
<1>6. EventsInv'
    <2>1. \A i \in 1..n + 1 : /\ phase'[events'[i].pod] # "absent"
                              /\ events'[i].ref = "lease" => ref'[events'[i].pod] = "lease"
                              /\ events'[i].ref = "booking" => events'[i].pod \in booked
        <3>1. ASSUME NEW i \in 1..n
              PROVE  /\ phase'[events[i].pod] # "absent"
                     /\ events[i].ref = "lease" => ref'[events[i].pod] = "lease"
                     /\ events[i].ref = "booking" => events[i].pod \in booked
            BY <1>3, <1>4 DEF n, Core, EventsInv, Tells
        <3>2. phase'[p] # "absent"
            BY DEF Tells
        <3> QED BY <1>2, <1>5, <3>1, <3>2 DEF Tells
    <2>2. e.type = "ADDED" => \A i \in 1..n : events[i].pod # p
        BY <1>3 DEF n, Core, EventsInv, Tells
    <2>3. \A i, j \in 1..n + 1 : events'[i].type = "ADDED" /\ events'[j].type = "ADDED"
                                    /\ events'[i].pod = events'[j].pod => i = j
        <3> SUFFICES ASSUME NEW i \in 1..n + 1, NEW j \in 1..n + 1, events'[i].type = "ADDED",
                            events'[j].type = "ADDED", events'[i].pod = events'[j].pod
                     PROVE  i = j
            OBVIOUS
        <3>1. CASE i \in 1..n /\ j \in 1..n
            BY <1>2, <3>1 DEF n, Core, EventsInv
        <3>2. CASE i = n + 1 \/ j = n + 1
            BY <1>2, <2>2, <3>2 DEF Tells
        <3> QED BY <1>2, <3>1, <3>2
    <2> QED BY <1>2, <2>1, <2>3 DEF EventsInv, Alone
<1>7. ASSUME NEW i \in 1..n, NEW q \in Pods, PodGoing(events[i], q)
      PROVE  PodGoing(events'[i], q) /\ i \in 1..n + 1
    BY <1>2, <1>7 DEF PodGoing
<1>8. ref'[p] = "lease" /\ phase'[p] \in {"done", "gone"} => PodGoing(events'[n + 1], p)
    BY <1>2 DEF PodGoing, Tells, Going
<1>9. GoneInv'
    <2> SUFFICES ASSUME NEW i \in 1..n + 1, ref'[events'[i].pod] = "lease",
                        phase'[events'[i].pod] \in {"done", "gone"}, ~ Going(events'[i])
                 PROVE  \E j \in 1..n + 1 : j > i /\ PodGoing(events'[j], events'[i].pod)
        BY <1>2, Zenon DEF GoneInv, Going
    <2>1. i # n + 1
        BY <1>2 DEF Tells
    <2>2. i \in 1..n /\ events'[i] = events[i] /\ events[i].pod \in Pods
        BY <1>2, <1>3, <2>1
    <2>3. CASE events[i].pod = p
        BY <1>2, <1>8, <2>2, <2>3
    <2>4. CASE events[i].pod # p
        <3>1. ref[events[i].pod] = "lease" /\ phase[events[i].pod] \in {"done", "gone"}
              /\ ~ Going(events[i])
            BY <2>2, <2>4 DEF Tells, Going
        <3>2. PICK j \in 1..n : j > i /\ PodGoing(events[j], events[i].pod)
            BY <2>2, <3>1, Zenon DEF Core, GoneInv, n, Going
        <3> QED BY <1>7, <2>2, <3>2
    <2> QED BY <2>3, <2>4
<1>10. NewInv'
    <2>1. ASSUME NEW q \in Pods, New(q)' PROVE New(q)
        BY <1>2, <2>1 DEF New, n, Tells
    <2> QED BY <1>4, <2>1 DEF Core, NewInv, Alone
<1>11. RefInv'
    <2>1. Granted' = Granted
        BY DEF Granted, Alone
    <2>2. batch'.pc = "applied" => batch.cur \in Pods
        BY DEF Alone, Core, AtHand
    <2> QED BY <1>4, <2>1, <2>2 DEF Core, RefInv, Alone
<1>12. ASSUME NEW q \in Pods, ref'[q] = "lease", phase'[q] \in {"done", "gone"},
              phase[q] \in {"done", "gone"} => \E i \in 1..n : PodGoing(events[i], q)
       PROVE  \E i \in 1..n + 1 : PodGoing(events'[i], q)
    <2>1. CASE q = p
        BY <1>2, <1>8, <1>12, <2>1
    <2>2. CASE q # p
        BY <1>7, <1>12, <2>2 DEF Tells
    <2> QED BY <2>1, <2>2
<1>13. OccupiedInv'
    <2> SUFFICES ASSUME faults = 0, NEW q \in occupied, ref'[q] = "lease",
                        phase'[q] \in {"done", "gone"}
                 PROVE  \E i \in 1..n + 1 : PodGoing(events'[i], q)
        BY <1>2 DEF OccupiedInv, Alone
    <2>1. q \in Pods /\ ref[q] = "lease"
        BY <1>4 DEF Core, LoopShape
    <2>2. phase[q] \in {"done", "gone"} => \E i \in 1..n : PodGoing(events[i], q)
        BY <2>1 DEF Core, OccupiedInv, n
    <2> QED BY <1>12, <2>1, <2>2
<1>14. LeaseInv'
    <2> SUFFICES ASSUME NEW q \in Pods \ BestEffort, lease[q] = "active", faults = 0, q \notin booked
                 PROVE  \/ ref'[q] = "lease" /\ phase'[q] \in {"pending", "bound"}
                        \/ batch.cur = q /\ batch.pc \in Holding
                        \/ watch.pod = q
                        \/ \E i \in 1..n + 1 : PodGoing(events'[i], q)
        BY <1>2 DEF LeaseInv, Alone
    <2>1. CASE ref[q] = "lease" /\ phase[q] \in {"pending", "bound"}
        <3>1. ref'[q] = "lease" /\ phase'[q] \in {"pending", "bound", "done", "gone"}
            BY <1>4, <2>1 DEF Tells, Phases
        <3> QED BY <1>12, <2>1, <3>1
    <2>2. CASE \E i \in 1..n : PodGoing(events[i], q)
        BY <1>7, <2>2
    <2> QED BY <2>1, <2>2 DEF Core, LeaseInv, n
<1> QED BY <1>6, <1>9, <1>10, <1>11, <1>13, <1>14

LEMMA Untouched ==
    ASSUME Core, Alone, UNCHANGED <<flags, lock, rerun>>, queued' \subseteq queued,
           gpu_pods' \in [Pods -> {"none", "claim"} \cup Nodes],
           \A q \in Pods : ref'[q] = "booking" => q \in booked
    PROVE  FlagShape' /\ LoopShape' /\ AtHand' /\ GrantInv' /\ BookedInv' /\ ListedInv'
<1>1. FlagShape'
    BY FlagsKept DEF Core, Alone
<1>2. LoopShape'
    <2>1. /\ listed' \subseteq Pods /\ queued' \subseteq Pods /\ occupied' \subseteq Pods
          /\ faults' \in 0..MaxFaults /\ lock' \in {"free", "batch", "watch"}
        BY DEF Core, LoopShape, Alone
    <2>2. watch' \in WatchStates /\ batch' \in BatchStates
        BY DEF Core, LoopShape, Alone
    <2>3. rerun' \in BOOLEAN
        BY Zenon DEF Core, LoopShape
    <2> QED BY <2>1, <2>2, <2>3, Zenon DEF LoopShape
<1>3. AtHand'
    BY DEF Core, AtHand, Alone
<1>4. Granted' = Granted
    BY DEF Granted, Alone
<1>5. GrantInv'
    BY <1>4 DEF Core, GrantInv, Alone
<1>6. BookedInv' /\ ListedInv'
    BY DEF Core, BookedInv, ListedInv, Alone
<1> QED BY <1>1, <1>2, <1>3, <1>5, <1>6

\* The event a pod's own change makes.
LEMMA NotifyFacts ==
    ASSUME NEW type \in {"ADDED", "MODIFIED", "DELETED"}, NEW p \in Pods, Notify(type, p),
           events \in Seq(Event), phase' \in [Pods -> Phases], ref' \in [Pods -> Refs],
           node' \in [Pods -> Nodes \cup {None}]
    PROVE  \E e \in Event : /\ events' = Append(events, e) /\ events' \in Seq(Event)
                            /\ e.type = type /\ e.pod = p /\ e.phase = phase'[p] /\ e.ref = ref'[p]
<1> DEFINE e == [type |-> type, pod |-> p, phase |-> phase'[p], ref |-> ref'[p],
                 node |-> node'[p], ruled |-> p \in ruled']
<1>1. events' = Append(events, e)
    BY Zenon DEF Notify
<1>2. /\ e.type = type /\ e.pod = p /\ e.phase = phase'[p] /\ e.ref = ref'[p]
    OBVIOUS
<1>3. (p \in ruled') \in BOOLEAN
    OBVIOUS
<1>4. phase'[p] \in Phases /\ ref'[p] \in Refs /\ node'[p] \in Nodes \cup {None}
    OBVIOUS
<1>5. e \in Event
    BY <1>3, <1>4, Zenon DEF Event
<1>6. Append(events, e) \in Seq(Event)
    BY <1>5, Appended
<1> QED BY <1>1, <1>2, <1>5, <1>6

LEMMA PodStepInv ==
    ASSUME Core, NEW p \in Pods, PodStep(p)
    PROVE  Core'
<1>1. UNCHANGED <<app, Controller>>
    BY Zenon DEF PodStep, CreatePod, Rule, Finish, Delete, Bind
<1>2. Alone /\ UNCHANGED <<flags, lock, rerun, queued, gpu_pods, delegate>>
    BY <1>1 DEF Alone, app, Controller, flags
<1>3. ref' = ref /\ (ruled' = ruled \/ ruled' = ruled \cup {p})
    BY Zenon DEF PodStep, CreatePod, Rule, Finish, Delete, Bind
<1>4. \E ph \in Phases : phase' = [phase EXCEPT ![p] = ph]
    <2>1. CASE Rule(p)
        BY <2>1 DEF Rule, Phases, Core, ClusterShape
    <2> QED BY <2>1, Zenon DEF PodStep, CreatePod, Finish, Delete, Bind, Phases
<1>5. node' \in [Pods -> Nodes \cup {None}]
    <2>1. node' = node \/ \E n \in Nodes : node' = [node EXCEPT ![p] = n]
        BY Zenon DEF PodStep, CreatePod, Rule, Finish, Delete, Bind
    <2> QED BY <2>1 DEF Core, ClusterShape
<1>6. /\ phase' \in [Pods -> Phases] /\ \A q \in Pods \ {p} : phase'[q] = phase[q]
      /\ ruled' \subseteq Pods
    BY <1>3, <1>4 DEF Core, ClusterShape
<1>7. PICK type \in {"ADDED", "MODIFIED", "DELETED"} :
          /\ Notify(type, p)
          /\ IF phase[p] = "absent" THEN phase'[p] = "pending" /\ type = "ADDED"
             ELSE phase'[p] # "absent" /\ type # "ADDED"
          /\ phase[p] \in {"done", "gone"} => phase'[p] \in {"done", "gone"}
          /\ phase'[p] \in {"done", "gone"} => type = "DELETED" \/ phase'[p] = "done"
    <2>1. CASE CreatePod(p)
        <3>1. Notify("ADDED", p) /\ phase[p] = "absent" /\ phase'[p] = "pending"
            BY <2>1 DEF CreatePod, Core, ClusterShape
        <3> QED BY <3>1
    <2>2. CASE Rule(p)
        <3>1. Notify("MODIFIED", p) /\ phase[p] = "pending" /\ phase'[p] = "pending"
            BY <2>2 DEF Rule
        <3> QED BY <3>1
    <2>3. CASE Finish(p)
        <3>1. Notify("MODIFIED", p) /\ phase[p] = "bound" /\ phase'[p] = "done"
            BY <2>3 DEF Finish, Core, ClusterShape
        <3> QED BY <3>1
    <2>4. CASE Delete(p)
        <3>1. Notify("DELETED", p) /\ phase[p] \in {"pending", "bound", "done"} /\ phase'[p] = "gone"
            BY <2>4 DEF Delete, Alive, Core, ClusterShape
        <3> QED BY <3>1
    <2>5. CASE \E n \in Nodes : Bind(p, n)
        <3>1. Notify("MODIFIED", p) /\ phase[p] = "pending" /\ phase'[p] = "bound"
            BY <2>5 DEF Bind, Core, ClusterShape
        <3> QED BY <3>1
    <2> QED BY <2>1, <2>2, <2>3, <2>4, <2>5 DEF PodStep
<1>8. events \in Seq(Event) /\ ref' \in [Pods -> Refs]
    BY <1>3 DEF Core, ClusterShape
<1>9. PICK e \in Event : /\ events' = Append(events, e) /\ events' \in Seq(Event)
                         /\ e.type = type /\ e.pod = p /\ e.phase = phase'[p] /\ e.ref = ref'[p]
    BY <1>5, <1>6, <1>7, <1>8, NotifyFacts
<1>10. Tells(p, e)
    BY <1>3, <1>6, <1>7, <1>8, <1>9 DEF Tells, Going
<1>11. EventsInv' /\ GoneInv' /\ NewInv' /\ RefInv' /\ OccupiedInv' /\ LeaseInv'
    BY <1>2, <1>3, <1>10, PodChanges
<1>12. /\ gpu_pods' \in [Pods -> {"none", "claim"} \cup Nodes]
       /\ \A q \in Pods : ref'[q] = "booking" => q \in booked
    BY <1>2, <1>3 DEF Core, LoopShape, BookedInv
<1>13. FlagShape' /\ LoopShape' /\ AtHand' /\ GrantInv' /\ BookedInv' /\ ListedInv'
    BY <1>2, <1>12, Untouched
<1>14. ClusterShape'
    BY <1>2, <1>5, <1>6, <1>8, <1>9 DEF Core, ClusterShape, Alone
<1> QED BY <1>11, <1>13, <1>14 DEF Core

LEMMA AdmitBookedInv ==
    ASSUME Core, NEW p \in Pods, AdmitBooked(p)
    PROVE  Core'
<1>1. /\ p \in queued /\ phase[p] = "pending" /\ ref[p] = "none"
      /\ ref' = [ref EXCEPT ![p] = "booking"] /\ queued' = queued \ {p}
      /\ UNCHANGED <<phase, node, ruled, app, delegate, listed, candidates, flags,
                     occupied, lock, watch, batch, rerun, faults>>
    BY DEF AdmitBooked
<1>2. Notify("MODIFIED", p)
    BY Zenon DEF AdmitBooked
<1>3. gpu_pods' \in [Pods -> {"none", "claim"} \cup Nodes]
    BY DEF AdmitBooked, Core, LoopShape
<1>4. Alone /\ p \in booked
    BY <1>1 DEF Alone, app, Core, BookedInv
<1>5. /\ ref' \in [Pods -> Refs] /\ ref'[p] = "booking"
      /\ \A q \in Pods \ {p} : ref'[q] = ref[q]
      /\ phase' \in [Pods -> Phases] /\ node' \in [Pods -> Nodes \cup {None}]
      /\ events \in Seq(Event)
    BY <1>1 DEF Core, ClusterShape, Refs
<1>6. PICK e \in Event : /\ events' = Append(events, e) /\ events' \in Seq(Event)
                         /\ e.type = "MODIFIED" /\ e.pod = p /\ e.phase = phase'[p]
                         /\ e.ref = ref'[p]
    BY <1>2, <1>5, NotifyFacts
<1>7. Tells(p, e)
    BY <1>1, <1>5, <1>6 DEF Tells
<1>8. EventsInv' /\ GoneInv' /\ NewInv' /\ RefInv' /\ OccupiedInv' /\ LeaseInv'
    BY <1>1, <1>4, <1>5, <1>7, PodChanges
<1>9. \A q \in Pods : ref'[q] = "booking" => q \in booked
    BY <1>4, <1>5 DEF Core, BookedInv
<1>10. FlagShape' /\ LoopShape' /\ AtHand' /\ GrantInv' /\ BookedInv' /\ ListedInv'
    BY <1>1, <1>3, <1>4, <1>9, Untouched
<1>11. ClusterShape'
    BY <1>1, <1>5, <1>6 DEF Core, ClusterShape, app
<1> QED BY <1>8, <1>10, <1>11 DEF Core

-----------------------------------------------------------------------------
(* Steps that leave the pods and the events alone *)

Quiet == /\ UNCHANGED <<phase, ref, events>> /\ booked \subseteq booked'
         /\ faults' = 0 => faults = 0

LEMMA QuietFacts ==
    ASSUME Core, Quiet, occupied' \subseteq occupied
    PROVE  EventsInv' /\ GoneInv' /\ OccupiedInv'
BY DEF Core, Quiet, EventsInv, GoneInv, OccupiedInv, Going, PodGoing

LEMMA NewKept ==
    ASSUME Core, Quiet, candidates' \subseteq candidates,
           batch'.cur \in {None, batch.cur} \cup candidates \cup batch.todo \cup batch.ready,
           batch'.todo \cup batch'.ready
              \subseteq {batch.cur} \cup candidates \cup batch.todo \cup batch.ready
    PROVE  NewInv'
<1> SUFFICES ASSUME NEW p \in Pods, New(p)'
             PROVE  /\ ref'[p] # "lease" /\ p # batch'.cur
                    /\ p \notin candidates' \cup batch'.todo \cup batch'.ready
    BY DEF NewInv
<1>1. New(p)
    BY DEF New, Quiet
<1>2. /\ ref[p] # "lease" /\ p # batch.cur /\ p # None
      /\ p \notin candidates \cup batch.todo \cup batch.ready
    BY <1>1, ConstantFacts DEF Core, NewInv
<1> QED BY <1>2 DEF Quiet

LEMMA ListedKept ==
    ASSUME Core, faults' = 0 => faults = 0,
           batch.pc = "lock" => batch'.cur = batch.cur /\ batch'.pc = "lock",
           \A q \in Pods \ BestEffort : lease'[q] = "active" =>
               lease[q] = "active" /\ (q \in listed => q \in listed')
    PROVE  ListedInv'
BY DEF Core, ListedInv

LEMMA LeaseKept ==
    ASSUME Core, Quiet, watch'.pod = watch.pod,
           batch.pc \in Holding => batch'.cur = batch.cur /\ batch'.pc \in Holding,
           \A q \in Pods \ BestEffort : lease'[q] = "active" => lease[q] = "active"
    PROVE  LeaseInv'
<1> SUFFICES ASSUME NEW q \in Pods \ BestEffort, lease'[q] = "active", faults' = 0, q \notin booked'
             PROVE  \/ ref'[q] = "lease" /\ phase'[q] \in {"pending", "bound"}
                    \/ batch'.cur = q /\ batch'.pc \in Holding
                    \/ watch'.pod = q
                    \/ \E i \in 1..Len(events') : PodGoing(events'[i], q)
    BY DEF LeaseInv
<1>1. lease[q] = "active" /\ faults = 0 /\ q \notin booked
    BY DEF Quiet
<1> QED BY <1>1 DEF Core, LeaseInv, Quiet

LEMMA ClusterKept == ASSUME ClusterShape, UNCHANGED <<cluster, events, app, delegate>>
                     PROVE ClusterShape'
BY DEF ClusterShape, cluster, app

LEMMA LoopShaped ==
    ASSUME listed' \subseteq Pods /\ queued' \subseteq Pods /\ occupied' \subseteq Pods,
           gpu_pods' \in [Pods -> {"none", "claim"} \cup Nodes],
           lock' \in {"free", "batch", "watch"}, watch' \in WatchStates,
           batch' \in BatchStates, rerun' \in BOOLEAN, faults' \in 0..MaxFaults
    PROVE  LoopShape'
BY Zenon DEF LoopShape

LEMMA BookingOpensInv == ASSUME Core, NEW p \in Pods, BookingOpens(p) PROVE Core'
<1>1. /\ p \in Booked /\ booked' = booked \cup {p}
      /\ UNCHANGED <<cluster, events, lease, Controller>>
    BY DEF BookingOpens
<1>2. /\ Quiet /\ UNCHANGED <<lease, candidates, flags, occupied, gpu_pods, listed, queued,
                              lock, watch, batch, rerun, faults, delegate, phase, ref, node,
                              ruled, events>>
    BY <1>1 DEF Quiet, cluster, Controller
<1>3. ClusterShape' /\ FlagShape'
    BY <1>1, <1>2, FlagsKept DEF Core, ClusterShape
<1>4. LoopShape'
    BY <1>2, LoopShaped DEF Core, LoopShape
<1>5. Granted' = Granted
    BY <1>2 DEF Granted
<1>6. AtHand' /\ GrantInv' /\ BookedInv' /\ RefInv'
    BY <1>1, <1>2, <1>5 DEF Core, AtHand, GrantInv, BookedInv, RefInv
<1>7. EventsInv' /\ GoneInv' /\ OccupiedInv' /\ NewInv'
    BY <1>2, QuietFacts, NewKept
<1>8. ListedInv' /\ LeaseInv'
    BY <1>2, ListedKept, LeaseKept
<1> QED BY <1>3, <1>4, <1>6, <1>7, <1>8 DEF Core

\* The retry times, the leases in the reservation list.
LEMMA ListInv ==
    ASSUME Core,
           Fetch \/ \E p \in Pods : RetryTimeComes(p) \/ LeaseExpires(p)
    PROVE  Core'
<1>1. UNCHANGED <<cluster, events, booked, delegate, candidates, awaiting_capacity,
                  held_by_node_fit, awaiting_schedule_signal, queued, occupied, gpu_pods,
                  lock, watch, batch, rerun, faults>>
    BY Zenon DEF Fetch, RetryTimeComes, LeaseExpires, app, flags
<1>2. Quiet /\ UNCHANGED <<phase, ref, node, ruled>>
    BY <1>1 DEF Quiet, cluster
<1>3. /\ lease' \in [Pods -> {"none", "active", "over"}] /\ listed' \subseteq Pods
      /\ cooling' \subseteq cooling
      /\ \A q \in Pods \ BestEffort : lease'[q] = "active" =>
             lease[q] = "active" /\ (q \in listed => q \in listed')
    BY DEF Fetch, RetryTimeComes, LeaseExpires, Core, ClusterShape, LoopShape, app, flags
<1>4. ClusterShape' /\ FlagShape'
    BY <1>1, <1>2, <1>3 DEF Core, ClusterShape, FlagShape
<1>5. LoopShape'
    BY <1>1, <1>3, LoopShaped DEF Core, LoopShape
<1>6. Granted' = Granted
    BY <1>1 DEF Granted
<1>7. AtHand' /\ GrantInv' /\ BookedInv' /\ RefInv'
    BY <1>1, <1>2, <1>6 DEF Core, AtHand, GrantInv, BookedInv, RefInv
<1>8. EventsInv' /\ GoneInv' /\ OccupiedInv' /\ NewInv'
    BY <1>1, <1>2, QuietFacts, NewKept
<1>9. ListedInv' /\ LeaseInv'
    BY <1>1, <1>2, <1>3, ListedKept, LeaseKept
<1> QED BY <1>4, <1>5, <1>7, <1>8, <1>9 DEF Core

\* The tick's batch.
LEMMA TickBatchInv == ASSUME Core, TickBatch PROVE Core'
<1>1. UNCHANGED <<cluster, events, app, delegate, listed, candidates, flags, queued,
                  occupied, gpu_pods, lock, watch, faults>>
    BY Zenon DEF TickBatch
<1>2. /\ Quiet /\ UNCHANGED <<phase, ref, lease, booked>>
    BY <1>1 DEF Quiet, cluster, app
<1>3. ClusterShape' /\ FlagShape'
    BY <1>1, ClusterKept, FlagsKept DEF Core
<1>4. Trigger("tick") /\ batch \in BatchStates /\ rerun \in BOOLEAN
    BY Zenon DEF TickBatch, Core, LoopShape
<1>5. /\ batch' \in BatchStates /\ rerun' \in BOOLEAN
      /\ batch' = batch \/ (Rested /\ Between)
    BY <1>3, <1>4, TriggerFacts
<1>6. LoopShape'
    BY <1>1, <1>5, LoopShaped DEF Core, LoopShape
<1>7. GrantInv' /\ RefInv' /\ AtHand'
    BY <1>1, <1>2, <1>5, BatchKept DEF Core, AtHand, Quiet
<1>8. BookedInv'
    BY <1>1, <1>2 DEF Core, BookedInv
<1>9. /\ batch'.cur \in {None, batch.cur} /\ batch'.todo \cup batch'.ready
            \subseteq candidates \cup batch.todo \cup batch.ready
      /\ batch.pc \in Holding => batch'.cur = batch.cur /\ batch'.pc = batch.pc
    BY <1>1, <1>5 DEF Rested, Between, Holding
<1>10. EventsInv' /\ GoneInv' /\ OccupiedInv' /\ NewInv'
    BY <1>1, <1>2, <1>9, QuietFacts, NewKept
<1>11. ListedInv' /\ LeaseInv'
    BY <1>1, <1>2, <1>9, ListedKept, LeaseKept DEF Holding
<1> QED BY <1>3, <1>6, <1>7, <1>8, <1>10, <1>11 DEF Core

-----------------------------------------------------------------------------
(* The watch *)

\* The head of the events is handled.
Hears(p) ==
    /\ events # <<>> /\ events' = Tail(events) /\ p = Head(events).pod
    /\ UNCHANGED <<phase, ref, lease, listed, booked, faults>>
    /\ watch.pc = "idle"
    /\ batch' = batch \/ (Rested /\ Between)
    /\ candidates' \subseteq candidates \cup {p}
    /\ p \in candidates' => p \in candidates \/ Head(events).type = "ADDED"
    /\ occupied' \subseteq occupied \cup {p}
    /\ p \in occupied' => p \in occupied \/ (Head(events).ref = "lease" /\ ~ Going(Head(events)))
    /\ PodGoing(Head(events), p) => p \notin occupied' /\ watch'.pod = p

LEMMA HearsFacts ==
    ASSUME Core, NEW p, Hears(p)
    PROVE  /\ p \in Pods /\ GrantInv' /\ EventsInv' /\ GoneInv' /\ NewInv' /\ RefInv'
           /\ OccupiedInv' /\ ListedInv' /\ LeaseInv'
           /\ IF batch'.pc \in {"idle", "next", "grant"} THEN batch'.cur = None
              ELSE batch'.cur \in Pods
<1> DEFINE n == Len(events)
<1>1. events \in Seq(Event) /\ events # <<>>
    BY DEF Core, ClusterShape, Hears
<1>2. /\ n \in Nat \ {0} /\ Len(events') = n - 1 /\ Head(events) = events[1]
      /\ \A i \in 1..n - 1 : events'[i] = events[i + 1]
      /\ events[1] \in Event
    BY <1>1, Tailed DEF Hears
<1>3. \A i \in 1..n : events[i].pod \in Pods
    <2>1. \A i \in 1..n : events[i] \in Event
        BY <1>1, ElementOfSeq
    <2> QED BY <2>1 DEF Event
<1> HIDE DEF n
<1>4. p = events[1].pod /\ p \in Pods
    BY <1>2, <1>3 DEF Hears
<1>5. \A i \in 1..n - 1 : i + 1 \in 1..n
    BY <1>2
<1>6. ASSUME NEW i \in 1..n, i # 1, NEW q, PodGoing(events[i], q)
      PROVE  \E j \in 1..n - 1 : j + 1 = i /\ PodGoing(events'[j], q)
    <2>1. i - 1 \in 1..n - 1 /\ (i - 1) + 1 = i
        BY <1>2, <1>6
    <2>2. events'[i - 1] = events[i]
        BY <1>2, <2>1
    <2> QED BY <1>6, <2>1, <2>2
<1>7. EventsInv'
    <2>1. ASSUME NEW i \in 1..n - 1
          PROVE  /\ phase'[events'[i].pod] # "absent"
                 /\ events'[i].ref = "lease" => ref'[events'[i].pod] = "lease"
                 /\ events'[i].ref = "booking" => events'[i].pod \in booked'
        <3>1. events'[i] = events[i + 1] /\ i + 1 \in 1..n
            BY <1>2, <1>5
        <3> QED BY <3>1 DEF n, Core, EventsInv, Hears
    <2>2. ASSUME NEW i \in 1..n - 1, NEW j \in 1..n - 1, events'[i].type = "ADDED",
                 events'[j].type = "ADDED", events'[i].pod = events'[j].pod
          PROVE  i = j
        <3>1. /\ events'[i] = events[i + 1] /\ i + 1 \in 1..n
              /\ events'[j] = events[j + 1] /\ j + 1 \in 1..n
            BY <1>2, <1>5
        <3>2. i + 1 = j + 1
            BY <2>2, <3>1 DEF n, Core, EventsInv
        <3> QED BY <1>2, <3>2
    <2> QED BY <1>2, <2>1, <2>2 DEF EventsInv
<1>8. GoneInv'
    <2> SUFFICES ASSUME NEW i \in 1..n - 1, ref'[events'[i].pod] = "lease",
                        phase'[events'[i].pod] \in {"done", "gone"}, ~ Going(events'[i])
                 PROVE  \E j \in 1..n - 1 : j > i /\ PodGoing(events'[j], events'[i].pod)
        BY <1>2, Zenon DEF GoneInv, Going
    <2>1. /\ events'[i] = events[i + 1] /\ i + 1 \in 1..n
          /\ ref[events[i + 1].pod] = "lease" /\ phase[events[i + 1].pod] \in {"done", "gone"}
        BY <1>2, <1>5 DEF Hears
    <2>2. PICK k \in 1..n : k > i + 1 /\ PodGoing(events[k], events[i + 1].pod)
        BY <2>1, Zenon DEF n, Core, GoneInv, Going
    <2>3. k # 1
        BY <2>2
    <2>4. PICK j \in 1..n - 1 : j + 1 = k /\ PodGoing(events'[j], events[i + 1].pod)
        BY <1>6, <2>2, <2>3
    <2> QED BY <2>1, <2>2, <2>4
<1>9. ASSUME NEW q \in Pods, New(q)' PROVE New(q)
    BY <1>2, <1>5, <1>9 DEF New, n, Hears
<1>10. New(p)' => events[1].type # "ADDED"
    <2> SUFFICES ASSUME New(p)', events[1].type = "ADDED" PROVE FALSE
        OBVIOUS
    <2>1. phase[p] # "absent"
        BY <1>2, <1>4 DEF n, Core, EventsInv
    <2>2. PICK i \in 1..n - 1 : events[i + 1].pod = p /\ events[i + 1].type = "ADDED"
        BY <1>2, <2>1 DEF New, Hears
    <2>3. i + 1 \in 1..n /\ 1 \in 1..n /\ i + 1 # 1
        BY <1>2
    <2> QED BY <1>4, <2>2, <2>3 DEF n, Core, EventsInv
<1>11. NewInv'
    <2> SUFFICES ASSUME NEW q \in Pods, New(q)'
                 PROVE  /\ ref[q] # "lease" /\ q # batch'.cur
                        /\ q \notin candidates' \cup batch'.todo \cup batch'.ready
        BY DEF NewInv, Hears
    <2>1. /\ ref[q] # "lease" /\ q # batch.cur /\ q # None
          /\ q \notin candidates \cup batch.todo \cup batch.ready
        BY <1>9, ConstantFacts DEF Core, NewInv
    <2>2. q \notin candidates'
        BY <1>2, <1>10, <2>1 DEF Hears
    <2> QED BY <2>1, <2>2 DEF Hears, Rested
<1>12. \A q \in candidates' \ candidates : ref[q] # "lease"
    <2>1. ASSUME NEW q \in candidates' \ candidates PROVE ref[q] # "lease"
        <3>1. q = p /\ events[1].type = "ADDED"
            BY <1>2 DEF Hears
        <3>2. New(q)
            BY <1>2, <1>4, <3>1 DEF New, n
        <3> QED BY <1>4, <3>1, <3>2 DEF Core, NewInv
    <2> QED BY <2>1
<1>13. /\ GrantInv' /\ RefInv'
       /\ IF batch'.pc \in {"idle", "next", "grant"} THEN batch'.cur = None
          ELSE batch'.cur \in Pods
    BY <1>12, BatchKept DEF Hears
<1>14. OccupiedInv'
    <2> SUFFICES ASSUME faults = 0, NEW q \in occupied', ref[q] = "lease",
                        phase[q] \in {"done", "gone"}
                 PROVE  \E i \in 1..n - 1 : PodGoing(events'[i], q)
        BY <1>2 DEF OccupiedInv, Hears
    <2>1. CASE q \in occupied
        <3>1. PICK i \in 1..n : PodGoing(events[i], q)
            BY <2>1 DEF n, Core, OccupiedInv
        <3>2. i # 1
            BY <1>2, <3>1 DEF Hears, PodGoing
        <3> QED BY <1>6, <3>1, <3>2
    <2>2. CASE q \notin occupied
        <3>1. q = events[1].pod /\ ~ Going(events[1])
            BY <1>2, <2>2 DEF Hears
        <3>2. 1 \in 1..n
            BY <1>2
        <3>3. PICK i \in 1..n : i > 1 /\ PodGoing(events[i], q)
            BY <3>1, <3>2, Zenon DEF n, Core, GoneInv, Going
        <3>4. i # 1
            BY <3>3
        <3> QED BY <1>6, <3>3, <3>4
    <2> QED BY <2>1, <2>2
<1>15. batch.pc \in Holding => batch' = batch
    BY DEF Hears, Between, Holding
<1>16. ListedInv'
    BY <1>15, ListedKept DEF Hears, Holding
<1>17. LeaseInv'
    <2> SUFFICES ASSUME NEW q \in Pods \ BestEffort, lease[q] = "active", faults = 0, q \notin booked
                 PROVE  \/ ref[q] = "lease" /\ phase[q] \in {"pending", "bound"}
                        \/ batch'.cur = q /\ batch'.pc \in Holding
                        \/ watch'.pod = q
                        \/ \E i \in 1..n - 1 : PodGoing(events'[i], q)
        BY <1>2 DEF LeaseInv, Hears
    <2>1. watch.pod # q
        <3>1. watch.pod = None
            BY DEF Hears, Core, AtHand
        <3> QED BY <3>1, ConstantFacts
    <2>2. CASE \E i \in 1..n : PodGoing(events[i], q)
        <3>1. PICK i \in 1..n : PodGoing(events[i], q)
            BY <2>2
        <3>2. CASE i = 1
            BY <1>2, <3>1, <3>2 DEF Hears, PodGoing
        <3>3. CASE i # 1
            BY <1>6, <3>1, <3>3
        <3> QED BY <3>2, <3>3
    <2> QED BY <1>15, <2>1, <2>2 DEF Core, LeaseInv, n
<1> QED BY <1>4, <1>7, <1>8, <1>11, <1>13, <1>14, <1>16, <1>17

LEMMA HearsInv ==
    ASSUME Core, NEW p, Hears(p), UNCHANGED <<cluster, app, delegate, faults, listed, lock>>,
           FlagShape', gpu_pods' \in [Pods -> {"none", "claim"} \cup Nodes],
           queued' \subseteq queued \cup {p}, p \in queued' => p \in queued \/ p \in booked,
           batch' \in BatchStates, rerun' \in BOOLEAN, watch' \in WatchStates,
           IF watch'.pc = "idle" THEN watch'.pod = None ELSE watch'.pod = p,
           watch'.pc = "locking" => p \in booked
    PROVE  Core'
<1>1. /\ p \in Pods /\ GrantInv' /\ EventsInv' /\ GoneInv' /\ NewInv' /\ RefInv'
      /\ OccupiedInv' /\ ListedInv' /\ LeaseInv'
      /\ IF batch'.pc \in {"idle", "next", "grant"} THEN batch'.cur = None
         ELSE batch'.cur \in Pods
    BY HearsFacts
<1>2. UNCHANGED <<phase, ref, node, ruled, lease, booked>>
    BY DEF cluster, app
<1>3. AtHand'
    BY <1>1, <1>2 DEF AtHand
<1>4. BookedInv'
    BY <1>2 DEF Core, BookedInv
<1>5. events \in Seq(Event) /\ events' = Tail(events) /\ events # <<>>
    BY DEF Core, ClusterShape, Hears
<1>6. events' \in Seq(Event)
    BY <1>5, Tailed
<1>7. ClusterShape'
    BY <1>2, <1>6 DEF Core, ClusterShape
<1>8. /\ listed' \subseteq Pods /\ queued' \subseteq Pods /\ lock' \in {"free", "batch", "watch"}
      /\ faults' \in 0..MaxFaults
    BY <1>1 DEF Core, LoopShape
<1>9. occupied' \subseteq Pods
    BY <1>1 DEF Core, LoopShape, Hears
<1>10. LoopShape'
    BY <1>8, <1>9, LoopShaped
<1> QED BY <1>1, <1>3, <1>4, <1>7, <1>10 DEF Core

LEMMA NoteFacts ==
    ASSUME Core, NEW p \in Pods, NEW rec \in {"none", "claim"} \cup Nodes, NoteGpuPod(p, rec),
           candidates' \subseteq Pods
    PROVE  FlagShape' /\ gpu_pods' \in [Pods -> {"none", "claim"} \cup Nodes]
<1>1. gpu_pods' = [gpu_pods EXCEPT ![p] = rec]
    BY Zenon DEF NoteGpuPod
<1>2. \E fit \in SUBSET Pods, cool \in SUBSET Pods :
          SetFlags(cool, awaiting_capacity, fit, awaiting_schedule_signal)
    <2>1. held_by_node_fit \ Woken(p, rec) \in SUBSET Pods /\ cooling \ Woken(p, rec) \in SUBSET Pods
        BY DEF Core, FlagShape
    <2> QED BY <2>1, Zenon DEF NoteGpuPod
<1>3. FlagShape'
    BY <1>2, FlagsSet
<1> QED BY <1>1, <1>3 DEF Core, LoopShape

LEMMA HeadFacts ==
    ASSUME Core, WatchReady
    PROVE  /\ events # <<>> /\ watch.pc = "idle" /\ watch.pod = None /\ watch \in WatchStates
           /\ Head(events).pod \in Pods /\ Head(events).node \in Nodes \cup {None}
           /\ Head(events).ref = "booking" => Head(events).pod \in booked
           /\ batch \in BatchStates /\ rerun \in BOOLEAN
<1>1. events # <<>> /\ watch.pc = "idle"
    BY DEF WatchReady
<1>2. events \in Seq(Event)
    BY DEF Core, ClusterShape
<1>3. Head(events) \in Event /\ Head(events) = events[1] /\ 1 \in 1..Len(events)
    BY <1>1, <1>2, Tailed
<1>4. watch.pod = None
    BY <1>1 DEF Core, AtHand
<1>5. Head(events).pod \in Pods /\ Head(events).node \in Nodes \cup {None}
    BY <1>3 DEF Event
<1>6. Head(events).ref = "booking" => Head(events).pod \in booked
    BY <1>3 DEF Core, EventsInv
<1>7. batch \in BatchStates /\ rerun \in BOOLEAN /\ watch \in WatchStates
    BY Zenon DEF Core, LoopShape
<1> QED BY <1>1, <1>4, <1>5, <1>6, <1>7

LEMMA WatchGoneInv == ASSUME Core, WatchGone PROVE Core'
<1> DEFINE e == Head(events)
           p == e.pod
           woken == Woken(p, "none") # {}
<1>1. /\ WatchReady /\ Going(e) /\ events' = Tail(events) /\ candidates' = candidates \ {p}
      /\ queued' = queued \ {p} /\ occupied' = occupied \ {p} /\ NoteGpuPod(p, "none")
      /\ UNCHANGED <<listed, lock>> /\ WatchFrame
    BY Zenon DEF WatchGone, Going, Unregister
<1>2. /\ events # <<>> /\ watch.pc = "idle" /\ watch.pod = None /\ watch \in WatchStates
      /\ p \in Pods /\ (e.ref = "booking" => p \in booked)
      /\ batch \in BatchStates /\ rerun \in BOOLEAN
    BY <1>1, HeadFacts
<1>3. FlagShape' /\ gpu_pods' \in [Pods -> {"none", "claim"} \cup Nodes]
    <2>1. candidates' \subseteq Pods
        BY <1>1 DEF Core, FlagShape
    <2>2. "none" \in {"none", "claim"} \cup Nodes
        OBVIOUS
    <2> QED BY <1>1, <1>2, <2>1, <2>2, NoteFacts
<1>4. Trigger("watch") \/ NoTrigger
    BY Zenon DEF WatchGone
<1>5. /\ batch' \in BatchStates /\ rerun' \in BOOLEAN
      /\ batch' = batch \/ (Rested /\ Between)
    BY <1>2, <1>3, <1>4, TriggerFacts
<1>6. /\ watch' \in WatchStates /\ IF watch'.pc = "idle" THEN watch'.pod = None ELSE watch'.pod = p
      /\ watch'.pc = "locking" => p \in booked
      /\ e.ref = "lease" => watch'.pod = p
    <2>1. CASE e.ref = "none"
        <3>1. watch' = watch
            BY <2>1, Zenon DEF WatchGone
        <3> QED BY <1>2, <2>1, <3>1
    <2>2. CASE e.ref # "none"
        <3>1. watch' = [pc |-> IF e.ref = "lease" THEN "teardown" ELSE "locking",
                        pod |-> p, freed |-> woken]
            BY <2>2, Zenon DEF WatchGone
        <3>2. woken \in BOOLEAN
            OBVIOUS
        <3>3. e.ref \in Refs
            <4>1. events \in Seq(Event)
                BY DEF Core, ClusterShape
            <4>2. e \in Event
                BY <1>2, <4>1, Tailed
            <4> QED BY <4>2 DEF Event
        <3> DEFINE pc == IF e.ref = "lease" THEN "teardown" ELSE "locking"
        <3>4. pc \in {"idle", "teardown", "locking", "cancel"} /\ p \in Pods \cup {None}
            BY <1>2
        <3> HIDE DEF woken
        <3>5. watch'.pc = pc /\ watch'.pod = p
            BY <3>1
        <3> HIDE DEF p, pc
        <3>6. watch' \in WatchStates
            BY <3>1, <3>2, <3>4, Zenon DEF WatchStates, pc
        <3> USE DEF p, pc
        <3> QED BY <1>2, <2>2, <3>3, <3>5, <3>6 DEF Refs
    <2> QED BY <2>1, <2>2
<1>7. UNCHANGED <<cluster, app, delegate, faults>>
    BY <1>1 DEF WatchFrame
<1> HIDE DEF woken
<1>8. Hears(p)
    BY <1>1, <1>2, <1>5, <1>6, <1>7 DEF Hears, cluster, app, PodGoing
<1> QED BY <1>1, <1>2, <1>3, <1>5, <1>6, <1>7, <1>8, HearsInv

LEMMA WatchToleratedInv == ASSUME Core, WatchTolerated PROVE Core'
<1> DEFINE e == Head(events)
           p == e.pod
           rec == IF e.node = None THEN "claim" ELSE e.node
<1>1. /\ WatchReady /\ ~ Going(e) /\ events' = Tail(events) /\ candidates' = candidates \ {p}
      /\ queued' = queued \ {p} /\ NoteGpuPod(p, rec)
      /\ UNCHANGED <<listed, lock, watch>> /\ WatchFrame
    BY Zenon DEF WatchTolerated, Going, Unregister
<1>2. occupied' = IF e.ref = "lease" THEN occupied \cup {p} ELSE occupied
    BY Zenon DEF WatchTolerated
<1>3. /\ events # <<>> /\ watch.pc = "idle" /\ watch.pod = None /\ watch \in WatchStates
      /\ p \in Pods /\ e.node \in Nodes \cup {None}
      /\ batch \in BatchStates /\ rerun \in BOOLEAN
    BY <1>1, HeadFacts
<1>4. FlagShape' /\ gpu_pods' \in [Pods -> {"none", "claim"} \cup Nodes]
    <2>1. candidates' \subseteq Pods
        BY <1>1 DEF Core, FlagShape
    <2>2. rec \in {"none", "claim"} \cup Nodes
        BY <1>3
    <2> QED BY <1>1, <1>3, <2>1, <2>2, NoteFacts
<1>5. Trigger("watch") \/ NoTrigger
    BY Zenon DEF WatchTolerated
<1>6. /\ batch' \in BatchStates /\ rerun' \in BOOLEAN
      /\ batch' = batch \/ (Rested /\ Between)
    BY <1>3, <1>4, <1>5, TriggerFacts
<1>7. UNCHANGED <<cluster, app, delegate, faults>>
    BY <1>1 DEF WatchFrame
<1> HIDE DEF rec
<1>8. Hears(p)
    BY <1>1, <1>2, <1>3, <1>6, <1>7 DEF Hears, cluster, app, PodGoing, Going
<1> QED BY <1>1, <1>3, <1>4, <1>6, <1>7, <1>8, HearsInv

LEMMA WatchRouteInv == ASSUME Core, WatchRoute PROVE Core'
<1> DEFINE e == Head(events)
           p == e.pod
<1>1. /\ WatchReady /\ e.ref = "none" /\ p \in booked /\ events' = Tail(events)
      /\ candidates' = candidates \ {p} /\ queued' = queued \cup {p}
      /\ KeepFlags /\ NoTrigger
      /\ UNCHANGED <<listed, occupied, gpu_pods, lock, watch>> /\ WatchFrame
    BY Zenon DEF WatchRoute, Unregister
<1>2. /\ events # <<>> /\ watch.pc = "idle" /\ watch.pod = None /\ watch \in WatchStates
      /\ p \in Pods /\ batch \in BatchStates /\ rerun \in BOOLEAN
    BY <1>1, HeadFacts
<1>3. FlagShape'
    <2>1. candidates' \subseteq Pods
        BY <1>1 DEF Core, FlagShape
    <2> QED BY <1>1, <2>1, FlagsSet DEF KeepFlags
<1>4. batch' = batch /\ rerun' = rerun
    BY <1>1 DEF NoTrigger
<1>5. UNCHANGED <<cluster, app, delegate, faults>>
    BY <1>1 DEF WatchFrame
<1>6. gpu_pods' \in [Pods -> {"none", "claim"} \cup Nodes]
    BY <1>1 DEF Core, LoopShape
<1>7. Hears(p)
    BY <1>1, <1>2, <1>4, <1>5 DEF Hears, cluster, app, PodGoing
<1> QED BY <1>1, <1>2, <1>3, <1>4, <1>5, <1>6, <1>7, HearsInv

LEMMA WatchCandidateInv == ASSUME Core, WatchCandidate PROVE Core'
<1> DEFINE e == Head(events)
           p == e.pod
<1>1. /\ WatchReady /\ e.ref = "none" /\ events' = Tail(events)
      /\ UNCHANGED <<listed, occupied, gpu_pods, lock, watch>> /\ WatchFrame
      /\ queued' \subseteq queued
      /\ Trigger("watch") \/ NoTrigger
    BY Zenon DEF WatchCandidate
<1>2. /\ events # <<>> /\ watch.pc = "idle" /\ watch.pod = None /\ watch \in WatchStates
      /\ p \in Pods /\ batch \in BatchStates /\ rerun \in BOOLEAN
    BY <1>1, HeadFacts
<1>3. candidates' = candidates \/ (e.type = "ADDED" /\ candidates' = candidates \cup {p})
    BY Zenon DEF WatchCandidate
<1>4. FlagShape'
    <2>1. candidates' \subseteq Pods
        BY <1>2, <1>3 DEF Core, FlagShape
    <2>2. CASE UNCHANGED <<candidates, flags>>
        BY <2>2, FlagsKept DEF Core
    <2>3. CASE KeepFlags
        BY <2>1, <2>3, FlagsSet DEF KeepFlags
    <2>4. CASE SetFlags(cooling \ {p}, awaiting_capacity, held_by_node_fit,
                        awaiting_schedule_signal \ {p})
        BY <2>1, <2>4, FlagsSet
    <2> QED BY <2>2, <2>3, <2>4, Zenon DEF WatchCandidate
<1>5. /\ batch' \in BatchStates /\ rerun' \in BOOLEAN
      /\ batch' = batch \/ (Rested /\ Between)
    BY <1>1, <1>2, <1>4, TriggerFacts
<1>6. UNCHANGED <<cluster, app, delegate, faults>>
    BY <1>1 DEF WatchFrame
<1>7. gpu_pods' \in [Pods -> {"none", "claim"} \cup Nodes]
    BY <1>1 DEF Core, LoopShape
<1>8. Hears(p)
    BY <1>1, <1>2, <1>3, <1>5, <1>6 DEF Hears, cluster, app, PodGoing
<1> QED BY <1>1, <1>2, <1>4, <1>5, <1>6, <1>7, <1>8, HearsInv

\* The teardown, once the pod it is for has no active lease left to give back or
\* is still in hand.
LEMMA TeardownKept ==
    ASSUME Core, TeardownFrame, faults' = 0 => faults = 0, faults' \in 0..MaxFaults,
           listed' \subseteq listed, lock' \in {"free", "batch", "watch"},
           lease' \in [Pods -> {"none", "active", "over"}],
           \A q \in Pods \ BestEffort : lease'[q] = "active" =>
               lease[q] = "active" /\ (q \in listed => q \in listed'),
           \/ watch'.pc = "cancel" /\ watch.pc = "teardown" /\ watch' \in WatchStates
                 /\ watch'.pod = watch.pod /\ NoTrigger
           \/ \E released : WatchDone(released),
           faults' = 0 => \/ watch'.pod = watch.pod
                          \/ watch.pod \in BestEffort \cup booked
                          \/ lease'[watch.pod] # "active"
                          \/ batch.cur = watch.pod /\ batch.pc = "lock"
    PROVE  Core'
<1>1. /\ UNCHANGED <<cluster, events, booked, delegate, candidates, flags, queued, occupied,
                     gpu_pods, phase, ref, node, ruled>>
      /\ Quiet
    BY DEF TeardownFrame, cluster, Quiet
<1>2. FlagShape'
    BY <1>1, FlagsKept DEF Core
<1>3. ClusterShape'
    BY <1>1 DEF Core, ClusterShape
<1>4. /\ Trigger("watch") \/ NoTrigger
      /\ watch' = WatchAtRest
            \/ (watch'.pc = "cancel" /\ watch.pc = "teardown" /\ watch'.pod = watch.pod
                /\ watch' \in WatchStates)
    BY Zenon DEF WatchDone
<1>5. batch \in BatchStates /\ rerun \in BOOLEAN
    BY Zenon DEF Core, LoopShape
<1>6. /\ batch' \in BatchStates /\ rerun' \in BOOLEAN
      /\ batch' = batch \/ (Rested /\ Between)
    BY <1>2, <1>4, <1>5, TriggerFacts
<1>7. watch' \in WatchStates
    <2>1. WatchAtRest \in WatchStates
        BY DEF WatchAtRest, WatchStates
    <2> QED BY <1>4, <2>1
<1>8. LoopShape'
    <2>1. /\ listed' \subseteq Pods /\ queued' \subseteq Pods /\ occupied' \subseteq Pods
          /\ gpu_pods' \in [Pods -> {"none", "claim"} \cup Nodes]
        BY <1>1 DEF Core, LoopShape
    <2> QED BY <1>6, <1>7, <2>1, LoopShaped
<1>9. /\ GrantInv' /\ RefInv'
      /\ IF batch'.pc \in {"idle", "next", "grant"} THEN batch'.cur = None
         ELSE batch'.cur \in Pods
    BY <1>1, <1>6, BatchKept
<1>10. AtHand' /\ BookedInv'
    BY <1>1, <1>4, <1>9 DEF Core, AtHand, BookedInv, WatchAtRest
<1>11. /\ batch'.cur \in {None, batch.cur}
       /\ batch'.todo \cup batch'.ready \subseteq candidates \cup batch.todo \cup batch.ready
       /\ batch.pc \in Holding => batch' = batch
    BY <1>1, <1>6 DEF Rested, Between, Holding
<1>12. EventsInv' /\ GoneInv' /\ OccupiedInv' /\ NewInv'
    BY <1>1, <1>11, QuietFacts, NewKept
<1>13. ListedInv'
    BY <1>11, ListedKept DEF Holding
<1>14. LeaseInv'
    <2> SUFFICES ASSUME NEW q \in Pods \ BestEffort, lease'[q] = "active", faults' = 0, q \notin booked
                 PROVE  \/ ref[q] = "lease" /\ phase[q] \in {"pending", "bound"}
                        \/ batch'.cur = q /\ batch'.pc \in Holding
                        \/ watch'.pod = q
                        \/ \E i \in 1..Len(events) : PodGoing(events[i], q)
        BY <1>1 DEF LeaseInv
    <2>1. lease[q] = "active" /\ faults = 0
        OBVIOUS
    <2>2. watch.pod = q => watch'.pod = q \/ (batch.cur = q /\ batch.pc = "lock")
        BY <2>1
    <2> QED BY <1>11, <2>1, <2>2 DEF Core, LeaseInv, Holding
<1> QED BY <1>2, <1>3, <1>8, <1>9, <1>10, <1>12, <1>13, <1>14 DEF Core

LEMMA TeardownFindsInv == ASSUME Core, TeardownFinds PROVE Core'
<1>1. /\ watch.pc \in {"teardown", "locking"} /\ lock = "free" /\ TeardownFrame
      /\ UNCHANGED <<lease, listed, faults>>
    BY Zenon DEF TeardownFinds
<1>2. faults' \in 0..MaxFaults /\ lease' \in [Pods -> {"none", "active", "over"}]
    BY <1>1 DEF Core, ClusterShape, LoopShape
<1>3. watch.pod \in Pods /\ (watch.pc = "locking" => watch.pod \in booked)
    BY <1>1 DEF Core, AtHand
<1>4. CASE /\ watch.pc = "teardown" /\ lock' = "watch"
           /\ watch' = [watch EXCEPT !.pc = "cancel"] /\ NoTrigger
    <2>1. watch'.pc = "cancel" /\ watch'.pod = watch.pod /\ watch' \in WatchStates
        <3>1. watch \in WatchStates
            BY DEF Core, LoopShape
        <3> QED BY <1>4, <3>1 DEF WatchStates
    <2> QED BY <1>1, <1>2, <1>4, <2>1, TeardownKept
<1>5. CASE /\ watch.pc = "locking" \/ watch.pod \notin listed \ BestEffort
           /\ WatchDone(FALSE) /\ lock' = lock
    <2>1. faults' = 0 => \/ watch.pod \in BestEffort \cup booked
                         \/ lease'[watch.pod] # "active"
                         \/ batch.cur = watch.pod /\ batch.pc = "lock"
        BY <1>1, <1>3, <1>5 DEF Core, ListedInv
    <2>2. lock' \in {"free", "batch", "watch"}
        BY <1>1, <1>5
    <2> QED BY <1>1, <1>2, <1>5, <2>1, <2>2, TeardownKept
<1> QED BY <1>4, <1>5, Zenon DEF TeardownFinds

LEMMA FaultFacts == ASSUME Core, Fault \/ faults' = faults
                    PROVE  faults' \in 0..MaxFaults /\ (faults' = 0 => faults = 0)
BY ConstantFacts DEF Fault, Core, LoopShape

LEMMA FaultIsOne == ASSUME Core, Fault PROVE faults' # 0
BY ConstantFacts DEF Fault, Core, LoopShape

LEMMA TeardownCancelsInv == ASSUME Core, TeardownCancels PROVE Core'
<1> DEFINE p == watch.pod
<1>1. watch.pc = "cancel" /\ lock' = "free" /\ TeardownFrame
    BY Zenon DEF TeardownCancels
<1>2. p \in Pods
    BY <1>1 DEF Core, AtHand
<1>3. lock' \in {"free", "batch", "watch"} /\ listed' \subseteq listed
    BY <1>1 DEF TeardownCancels
<1>4. /\ lease' = lease \/ lease' = [lease EXCEPT ![p] = "over"]
      /\ \E released : WatchDone(released)
      /\ Fault \/ faults' = faults
      /\ (lease' = [lease EXCEPT ![p] = "over"] /\ listed' = listed \ {p} /\ faults' = faults)
            \/ (listed' = listed /\ Fault)
    BY Zenon DEF TeardownCancels
<1>5. faults' \in 0..MaxFaults /\ (faults' = 0 => faults = 0) /\ (Fault => faults' # 0)
    BY <1>4, FaultFacts, FaultIsOne
<1>6. lease \in [Pods -> {"none", "active", "over"}]
    BY DEF Core, ClusterShape
<1>7. /\ lease' \in [Pods -> {"none", "active", "over"}]
      /\ \A q \in Pods \ BestEffort : lease'[q] = "active" =>
             lease[q] = "active" /\ (q \in listed => q \in listed')
      /\ faults' = 0 => lease'[p] # "active"
    BY <1>2, <1>4, <1>5, <1>6
<1> QED BY <1>1, <1>3, <1>4, <1>5, <1>7, TeardownKept

-----------------------------------------------------------------------------
(* The batch, before it has a lease *)

Thinks ==
    /\ batch.pc \notin Holding
    /\ UNCHANGED <<cluster, events, app, delegate, watch, listed, occupied, gpu_pods, lock>>
    /\ Fault \/ faults' = faults
    /\ candidates' \subseteq candidates
    /\ queued' \subseteq queued \cup {batch.cur}
    /\ batch.cur \in queued' => batch.cur \in queued \cup booked

\* The pods of batch b are pods of the batch before.
Draws(b) ==
    /\ b.cur \in {None, batch.cur} \cup candidates \cup batch.todo \cup batch.ready
    /\ b.todo \cup b.ready \subseteq {batch.cur} \cup candidates \cup batch.todo \cup batch.ready
    /\ IF b.pc \in {"idle", "next", "grant"} THEN b.cur = None ELSE b.cur \in Pods

LEMMA BatchThinks ==
    ASSUME Core, Thinks, FlagShape', batch' \in BatchStates, rerun' \in BOOLEAN, Draws(batch'),
           GrantInv', RefInv'
    PROVE  Core'
<1>1. /\ UNCHANGED <<phase, ref, node, ruled, events, lease, booked, delegate, watch, listed,
                     occupied, gpu_pods, lock>>
      /\ faults' \in 0..MaxFaults /\ (faults' = 0 => faults = 0)
    BY FaultFacts DEF Thinks, cluster, app
<1>2. Quiet
    BY <1>1 DEF Quiet
<1>3. ClusterShape'
    BY <1>1 DEF Core, ClusterShape
<1>4. queued' \subseteq booked /\ queued' \subseteq Pods
    <2>1. booked \subseteq Pods
        BY ConstantFacts DEF Core, ClusterShape
    <2> QED BY <2>1 DEF Thinks, Core, BookedInv
<1>5. BookedInv'
    BY <1>1, <1>4 DEF Core, BookedInv
<1>6. LoopShape'
    <2>1. /\ listed' \subseteq Pods /\ occupied' \subseteq Pods
          /\ gpu_pods' \in [Pods -> {"none", "claim"} \cup Nodes]
          /\ lock' \in {"free", "batch", "watch"} /\ watch' \in WatchStates
        BY <1>1 DEF Core, LoopShape
    <2> QED BY <1>1, <1>4, <2>1, LoopShaped
<1>7. AtHand'
    BY <1>1 DEF Core, AtHand, Draws
<1>8. EventsInv' /\ GoneInv' /\ OccupiedInv'
    BY <1>1, <1>2, QuietFacts
<1>9. NewInv'
    BY <1>2, NewKept DEF Thinks, Draws
<1>10. ListedInv' /\ LeaseInv'
    BY <1>1, <1>2, ListedKept, LeaseKept DEF Thinks, Holding
<1> QED BY <1>3, <1>5, <1>6, <1>7, <1>8, <1>9, <1>10 DEF Core

\* Until then a pod that has a lease is not in the batch.
LEMMA RefThinks ==
    ASSUME Core, Thinks, batch'.pc # "applied",
           \A p \in Pods :
              /\ p \in Granted' => p \in batch.ready /\ (batch.pc \notin {"next", "read"} => p \in Granted)
              /\ batch'.pc \in {"next", "read"} =>
                    /\ batch.pc \in {"next", "read"}
                    /\ p \in batch'.todo \cup batch'.ready => p \in batch.todo \cup batch.ready \cup {batch.cur}
                    /\ p = batch'.cur => p \in batch.todo \cup {batch.cur}
              /\ batch'.cur = p /\ batch'.pc = "create" => p \in Granted
              /\ batch'.pc \notin Holding
    PROVE  RefInv'
<1> SUFFICES ASSUME faults' = 0, NEW p \in Pods, ref[p] = "lease"
             PROVE  /\ p \notin candidates'
                    /\ batch'.pc \in {"next", "read"} =>
                           p \notin batch'.todo \cup batch'.ready /\ p # batch'.cur
                    /\ p \notin Granted' /\ (batch'.cur = p => batch'.pc # "create")
    BY DEF RefInv, Thinks, cluster, Holding
<1>1. faults = 0
    BY FaultFacts DEF Thinks
<1>2. /\ p \notin candidates /\ p \notin Granted
      /\ batch.pc \in {"next", "read"} => p \notin batch.todo \cup batch.ready /\ p # batch.cur
    BY <1>1 DEF Core, RefInv, Thinks, Holding
<1>3. p \notin candidates'
    BY <1>2 DEF Thinks
<1> QED BY <1>2, <1>3

LEMMA SameGrants == ASSUME batch'.granted = batch.granted PROVE Granted' = Granted
BY DEF Granted

LEMMA PreflightInv ==
    ASSUME Core, PreflightFails \/ PreflightRemoves \/ PreflightHolds \/ PreflightReady
    PROVE  Core'
<1> DEFINE p == batch.cur
<1>1. /\ batch.pc = "read" /\ UNCHANGED <<listed, occupied, gpu_pods, lock, rerun>>
      /\ UNCHANGED <<delegate, watch, cluster, events, app>>
      /\ Fault \/ faults' = faults
      /\ candidates' = candidates \/ candidates' = candidates \ {p}
      /\ queued' = queued \/ (p \in booked /\ queued' = queued \cup {p})
    BY Zenon DEF PreflightFails, PreflightRemoves, PreflightHolds, PreflightReady, PreflightFrame,
                 BatchFrame, AppFrame, Judged, ReadFailure, Hold, Unregister
<1>2. /\ p \in Pods /\ batch.granted = <<>> /\ batch \in BatchStates /\ candidates \subseteq Pods
      /\ rerun \in BOOLEAN
    <2>1. rerun \in BOOLEAN
        BY Zenon DEF Core, LoopShape
    <2> QED BY <1>1, <2>1 DEF Core, AtHand, GrantInv, LoopShape, FlagShape
<1>3. \/ batch' = [batch EXCEPT !.pc = "next", !.cur = None]
      \/ batch' = [batch EXCEPT !.pc = "next", !.cur = None, !.ready = @ \cup {p}]
    BY Zenon DEF PreflightFails, PreflightRemoves, PreflightHolds, PreflightReady, PreflightFrame
<1>4. Thinks
    BY <1>1, <1>2 DEF Thinks, Holding
<1>5. FlagShape'
    <2>1. \E cool, await, fit, signal \in SUBSET Pods : SetFlags(cool, await, fit, signal)
        <3>1. /\ cooling \in SUBSET Pods /\ cooling \cup {p} \in SUBSET Pods
              /\ awaiting_capacity \in SUBSET Pods /\ awaiting_capacity \ {p} \in SUBSET Pods
              /\ held_by_node_fit \in SUBSET Pods /\ held_by_node_fit \cup {p} \in SUBSET Pods
              /\ awaiting_schedule_signal \in SUBSET Pods
              /\ awaiting_schedule_signal \cup {p} \in SUBSET Pods
              /\ awaiting_schedule_signal \ {p} \in SUBSET Pods
            BY <1>2 DEF Core, FlagShape
        <3> HIDE DEF p
        <3>2. CASE PreflightFails \/ PreflightRemoves
            BY <3>1, <3>2, Zenon DEF PreflightFails, PreflightRemoves, ReadFailure, Hold, KeepFlags, p
        <3>3. CASE PreflightHolds
            BY <3>1, <3>3, Zenon DEF PreflightHolds, Hold, p
        <3>4. CASE PreflightReady
            BY <3>1, <3>4, Zenon DEF PreflightReady, p
        <3> QED BY <3>2, <3>3, <3>4
    <2>2. candidates' \subseteq Pods
        BY <1>1, <1>2
    <2> QED BY <2>1, <2>2, FlagsSet
<1> HIDE DEF p
<1>6. /\ batch' \in BatchStates /\ batch'.granted = <<>> /\ batch'.pc = "next" /\ batch'.cur = None
      /\ batch'.todo = batch.todo /\ batch'.ready \subseteq batch.ready \cup {p}
    <2>1. CASE batch' = [batch EXCEPT !.pc = "next", !.cur = None]
        BY <1>2, <2>1 DEF BatchStates
    <2>2. CASE batch' = [batch EXCEPT !.pc = "next", !.cur = None, !.ready = @ \cup {p}]
        BY <1>2, <2>2 DEF BatchStates
    <2> QED BY <1>3, <2>1, <2>2
<1>7. Len(batch'.granted) = 0 /\ Granted' = {} /\ rerun' \in BOOLEAN
    <2>1. rerun' \in BOOLEAN
        BY <1>1, <1>2
    <2> QED BY <1>6, <2>1, EmptySeq DEF Granted
<1>8. GrantInv'
    BY <1>6, <1>7 DEF GrantInv, Holding
<1>9. Draws(batch')
    BY <1>6 DEF Draws, p
<1>10. RefInv'
    BY <1>1, <1>4, <1>6, <1>7, ConstantFacts, RefThinks DEF p, Holding
<1> QED BY <1>4, <1>5, <1>6, <1>7, <1>8, <1>9, <1>10, BatchThinks

LEMMA NextCandidateInv == ASSUME Core, NextCandidate PROVE Core'
<1> DEFINE p == Oldest(batch.todo)
<1>1. /\ batch.pc = "next" /\ batch.todo # {} /\ candidates' = candidates
      /\ batch' = [batch EXCEPT !.pc = "read", !.cur = p, !.todo = @ \ {p}]
      /\ SetFlags(cooling, awaiting_capacity, held_by_node_fit \ {p}, awaiting_schedule_signal)
      /\ UNCHANGED <<listed, queued, occupied, gpu_pods, lock, rerun, faults>>
      /\ UNCHANGED <<delegate, watch, cluster, events, app>>
    BY Zenon DEF NextCandidate, BatchFrame, AppFrame
<1>2. batch \in BatchStates /\ candidates \subseteq Pods /\ batch.granted = <<>> /\ batch.cur = None
    BY <1>1 DEF Core, AtHand, GrantInv, LoopShape, FlagShape
<1>3. p \in batch.todo /\ p \in Pods
    <2>1. batch.todo \in SUBSET Pods
        BY <1>2 DEF BatchStates
    <2> QED BY <1>1, <2>1, OldestFacts
<1>4. Thinks
    BY <1>1 DEF Thinks, Holding
<1>5. FlagShape' /\ rerun' \in BOOLEAN
    <2>1. rerun' \in BOOLEAN
        BY <1>1, Zenon DEF Core, LoopShape
    <2> QED BY <1>1, <1>2, <2>1, FlagsSet
<1> HIDE DEF p
<1>6. /\ batch' \in BatchStates /\ batch'.granted = <<>> /\ batch'.pc = "read" /\ batch'.cur = p
      /\ batch'.todo \subseteq batch.todo /\ batch'.ready = batch.ready
    BY <1>1, <1>2, <1>3 DEF BatchStates
<1>7. Len(batch'.granted) = 0 /\ Granted' = {}
    BY <1>6, EmptySeq DEF Granted
<1>8. GrantInv'
    BY <1>6, <1>7 DEF GrantInv, Holding
<1>9. Draws(batch')
    BY <1>3, <1>6 DEF Draws
<1>10. RefInv'
    BY <1>1, <1>3, <1>4, <1>6, <1>7, RefThinks DEF Holding
<1> QED BY <1>4, <1>5, <1>6, <1>8, <1>9, <1>10, BatchThinks

LEMMA WithholdInv == ASSUME Core, Withhold PROVE Core'
<1> DEFINE p == Oldest(batch.todo)
<1>1. /\ batch.pc = "grant" /\ candidates' = candidates
      /\ batch' = [batch EXCEPT !.todo = @ \ {p}]
      /\ \E await : SetFlags(cooling \cup {p}, await, held_by_node_fit, awaiting_schedule_signal)
      /\ UNCHANGED <<listed, queued, occupied, gpu_pods, lock, rerun, faults>>
      /\ UNCHANGED <<delegate, watch, cluster, events, app>>
    BY Zenon DEF Withhold, BatchFrame, AppFrame
<1>2. batch \in BatchStates /\ candidates \subseteq Pods /\ batch.cur = None
    BY <1>1 DEF Core, AtHand, LoopShape, FlagShape
<1>3. Thinks
    BY <1>1 DEF Thinks, Holding
<1>4. FlagShape' /\ rerun' \in BOOLEAN
    <2>1. rerun' \in BOOLEAN
        BY <1>1, Zenon DEF Core, LoopShape
    <2> QED BY <1>1, <1>2, <2>1, FlagsSet
<1> HIDE DEF p
<1>5. /\ batch' \in BatchStates /\ batch'.granted = batch.granted /\ batch'.pc = "grant"
      /\ batch'.cur = None /\ batch'.todo \subseteq batch.todo /\ batch'.ready = batch.ready
      /\ batch'.due = batch.due /\ batch'.answered = batch.answered
    BY <1>1, <1>2 DEF BatchStates
<1>6. Granted' = Granted
    BY <1>5, SameGrants
<1>7. GrantInv'
    BY <1>1, <1>5, <1>6 DEF Core, GrantInv, Holding
<1>8. Draws(batch')
    BY <1>5 DEF Draws
<1>9. RefInv'
    BY <1>1, <1>3, <1>5, <1>6, RefThinks DEF Holding, Core, GrantInv
<1> QED BY <1>3, <1>4, <1>5, <1>7, <1>8, <1>9, BatchThinks

LEMMA FunctionIsSeq ==
    ASSUME NEW S, NEW k \in Nat, NEW s \in [1..k -> S]
    PROVE  s \in Seq(S) /\ Len(s) = k
OBVIOUS

\* The answers of the app and the pods granted without one.
LEMMA SelectionFacts ==
    ASSUME NEW S \in SUBSET Pods, NEW s \in MapGranted(S) \cup InCreationOrder(S)
    PROVE  /\ s \in Seq(Pods) /\ \A i \in 1..Len(s) : s[i] \in S
           /\ \A i, j \in 1..Len(s) : i # j => s[i] # s[j]
<1>1. PICK k \in Nat : s \in [1..k -> S] /\ \A i, j \in 1..k : i # j => s[i] # s[j]
    <2>1. CASE s \in MapGranted(S)
        <3>1. PICK k \in 0..2 : s \in [1..k -> S]
            BY <2>1 DEF MapGranted
        <3>2. \A i, j \in 1..k : s[i] = s[j] => i = j
            BY <2>1, <3>1 DEF MapGranted, IsInjective
        <3> QED BY <3>1, <3>2
    <2>2. CASE s \in InCreationOrder(S)
        <3>1. IsFiniteSet(S)
            BY ConstantFacts, FS_Subset
        <3>2. Cardinality(S) \in Nat
            BY <3>1, FS_CardinalityType
        <3> DEFINE k == Cardinality(S)
        <3>3. s \in [1..k -> S] /\ \A i, j \in DOMAIN s : i < j => s[i] < s[j]
            BY <2>2, Zenon DEF InCreationOrder
        <3> HIDE DEF k
        <3>4. \A i \in 1..k : s[i] \in Nat
            BY <3>3, ConstantFacts
        <3>5. \A i, j \in 1..k : i # j => s[i] # s[j]
            <4> SUFFICES ASSUME NEW i \in 1..k, NEW j \in 1..k, i # j PROVE s[i] # s[j]
                OBVIOUS
            <4>1. i < j \/ j < i
                BY <3>2 DEF k
            <4>2. DOMAIN s = 1..k
                BY <3>3
            <4>3. s[i] < s[j] \/ s[j] < s[i]
                BY <3>3, <4>1, <4>2
            <4> QED BY <3>4, <4>3
        <3> QED BY <3>2, <3>3, <3>5 DEF k
    <2> QED BY <2>1, <2>2
<1>2. s \in Seq(S) /\ Len(s) = k
    BY <1>1, FunctionIsSeq
<1>3. s \in Seq(Pods)
    BY <1>1, FunctionIsSeq
<1> QED BY <1>1, <1>2, <1>3

LEMMA SelectedInv == ASSUME Core, Selected PROVE Core'
<1>1. /\ batch.pc = "next" /\ UNCHANGED <<candidates, flags>>
      /\ UNCHANGED <<listed, queued, occupied, gpu_pods, lock, rerun>>
      /\ UNCHANGED <<delegate, watch, cluster, events, app>>
      /\ Fault \/ faults' = faults
    BY Zenon DEF Selected, BatchFrame, AppFrame
<1>2. batch \in BatchStates /\ batch.cur = None
    BY <1>1 DEF Core, AtHand, LoopShape
<1>3. batch.ready \in SUBSET Pods /\ batch.ready \cap batch.due \in SUBSET Pods
    BY <1>2 DEF BatchStates
<1>4. PICK s : \/ s \in MapGranted(batch.ready)
                  /\ batch' = [batch EXCEPT !.pc = "grant", !.granted = s, !.answered = TRUE,
                                            !.todo = @ \cup (batch.ready \ ToSet(s))]
               \/ s \in InCreationOrder(batch.ready \cap batch.due)
                  /\ batch' = [batch EXCEPT !.pc = "grant", !.granted = s]
    BY Zenon DEF Selected, Fallback
<1>5. /\ s \in Seq(Pods) /\ \A i \in 1..Len(s) : s[i] \in batch.ready
      /\ \A i, j \in 1..Len(s) : i # j => s[i] # s[j]
      /\ s \in InCreationOrder(batch.ready \cap batch.due) =>
             \A i \in 1..Len(s) : s[i] \in batch.due
    <2>1. CASE s \in MapGranted(batch.ready) /\ s \notin InCreationOrder(batch.ready \cap batch.due)
        BY <1>3, <2>1, SelectionFacts
    <2>2. CASE s \in InCreationOrder(batch.ready \cap batch.due)
        <3>1. \A i \in 1..Len(s) : s[i] \in batch.ready \cap batch.due
            BY <1>3, <2>2, SelectionFacts
        <3> QED BY <1>3, <2>2, <3>1, SelectionFacts
    <2> QED BY <1>4, <2>1, <2>2
<1>6. /\ batch' \in BatchStates /\ batch'.granted = s /\ batch'.pc = "grant" /\ batch'.cur = None
      /\ batch'.ready = batch.ready /\ batch'.todo \subseteq batch.todo \cup batch.ready
      /\ batch'.due = batch.due
    <2> DEFINE left == batch.ready \ ToSet(s)
    <2>1. left \subseteq batch.ready
        OBVIOUS
    <2>2. \/ batch' = [batch EXCEPT !.pc = "grant", !.granted = s, !.answered = TRUE,
                                    !.todo = @ \cup left]
          \/ batch' = [batch EXCEPT !.pc = "grant", !.granted = s]
        BY <1>4
    <2>3. s \in Seq(Pods) /\ batch.todo \cup left \in SUBSET Pods
        BY <1>2, <1>3, <1>5, <2>1 DEF BatchStates
    <2> HIDE DEF left
    <2>4. CASE batch' = [batch EXCEPT !.pc = "grant", !.granted = s, !.answered = TRUE,
                                      !.todo = @ \cup left]
        <3>1. batch' \in BatchStates
            BY <1>2, <2>3, <2>4, Zenon DEF BatchStates
        <3>2. /\ batch'.granted = s /\ batch'.pc = "grant" /\ batch'.cur = batch.cur
              /\ batch'.ready = batch.ready /\ batch'.todo = batch.todo \cup left
              /\ batch'.due = batch.due
            BY <1>2, <2>4 DEF BatchStates
        <3> QED BY <1>2, <2>1, <3>1, <3>2
    <2>5. CASE batch' = [batch EXCEPT !.pc = "grant", !.granted = s]
        BY <1>2, <2>3, <2>5 DEF BatchStates
    <2> QED BY <2>2, <2>4, <2>5
<1>7. batch'.answered \/ \A i \in 1..Len(s) : s[i] \in batch.due
    <2>1. CASE batch' = [batch EXCEPT !.pc = "grant", !.granted = s, !.answered = TRUE,
                                      !.todo = @ \cup (batch.ready \ ToSet(s))]
        <3>1. batch'.answered = TRUE
            BY <1>2, <2>1 DEF BatchStates
        <3> QED BY <3>1
    <2> QED BY <1>4, <1>5, <2>1
<1>8. Granted' \subseteq batch.ready
    BY <1>5, <1>6 DEF Granted
<1>9. GrantInv'
    <2>1. batch'.answered \/ Granted' \subseteq batch'.due
        BY <1>6, <1>7 DEF Granted
    <2> QED BY <1>5, <1>6, <1>8, <2>1 DEF GrantInv, Holding
<1>10. Thinks
    BY <1>1 DEF Thinks, Holding
<1>11. FlagShape' /\ rerun' \in BOOLEAN
    <2>1. rerun' \in BOOLEAN
        BY <1>1, Zenon DEF Core, LoopShape
    <2> QED BY <1>1, <2>1, FlagsKept DEF Core
<1>12. Draws(batch')
    BY <1>6 DEF Draws
<1>13. RefInv'
    BY <1>1, <1>6, <1>8, <1>10, RefThinks DEF Holding
<1> QED BY <1>6, <1>9, <1>10, <1>11, <1>12, <1>13, BatchThinks

\* What is left of the grants once the first is taken.
LEMMA GrantTail ==
    ASSUME batch \in BatchStates, GrantInv, batch.granted # <<>>,
           batch'.granted = Tail(batch.granted)
    PROVE  /\ Head(batch.granted) \in Pods /\ Tail(batch.granted) \in Seq(Pods)
           /\ Granted' \subseteq Granted /\ Head(batch.granted) \in Granted \ Granted'
           /\ \A i, j \in 1..Len(batch'.granted) : i # j => batch'.granted[i] # batch'.granted[j]
<1> DEFINE g == batch.granted
           n == Len(g)
           p == Head(g)
<1>1. g \in Seq(Pods)
    BY DEF BatchStates
<1>2. /\ p \in Pods /\ p = g[1] /\ n \in Nat \ {0} /\ Tail(g) \in Seq(Pods) /\ Len(Tail(g)) = n - 1
      /\ \A i \in 1..n - 1 : Tail(g)[i] = g[i + 1]
    BY <1>1, Tailed
<1> HIDE DEF p, g, n
<1>3. \A i \in 1..n - 1 : i + 1 \in 1..n /\ i + 1 # 1
    BY <1>2
<1>4. 1 \in 1..n
    BY <1>2
<1>5. \A i, j \in 1..n : i # j => g[i] # g[j]
    BY DEF GrantInv, g, n
<1>6. batch'.granted = Tail(g)
    BY DEF g
<1>7. Granted' \subseteq Granted /\ p \in Granted /\ p \notin Granted'
    <2>1. Granted' = {Tail(g)[i] : i \in 1..n - 1}
        BY <1>2, <1>6 DEF Granted
    <2>2. Granted = {g[i] : i \in 1..n}
        BY DEF Granted, g, n
    <2>3. \A i \in 1..n - 1 : Tail(g)[i] \in Granted /\ Tail(g)[i] # p
        BY <1>2, <1>3, <1>4, <1>5, <2>2
    <2> QED BY <1>2, <1>4, <2>1, <2>2, <2>3
<1>8. \A i, j \in 1..Len(batch'.granted) : i # j => batch'.granted[i] # batch'.granted[j]
    <2> SUFFICES ASSUME NEW i \in 1..n - 1, NEW j \in 1..n - 1, i # j PROVE Tail(g)[i] # Tail(g)[j]
        BY <1>2, <1>6
    <2>1. i + 1 # j + 1 /\ i + 1 \in 1..n /\ j + 1 \in 1..n
        BY <1>2, <1>3
    <2> QED BY <1>2, <1>5, <2>1
<1> QED BY <1>2, <1>7, <1>8 DEF p, g

\* The next grant is held, or taken up.
LEMMA GrantNextFacts ==
    ASSUME Core, GrantNext
    PROVE  LET p == Head(batch.granted) IN
           /\ batch.pc = "grant" /\ candidates' = candidates /\ p \in Pods /\ p \in Granted \ Granted'
           /\ Granted' \subseteq Granted
           /\ \A i, j \in 1..Len(batch'.granted) : i # j => batch'.granted[i] # batch'.granted[j]
           /\ batch' \in BatchStates /\ batch'.todo = batch.todo /\ batch'.ready = batch.ready
           /\ batch'.due = batch.due /\ batch'.answered = batch.answered
           /\ \/ /\ batch'.pc = "grant" /\ batch'.cur = None
                 /\ \E fit : /\ fit \subseteq held_by_node_fit \cup {p}
                             /\ Hold(p, fit, awaiting_schedule_signal)
              \/ /\ batch'.pc = "create" /\ batch'.cur = p
                 /\ UNCHANGED <<candidates, flags>>
<1> DEFINE p == Head(batch.granted)
<1>1. /\ batch.pc = "grant" /\ batch.granted # <<>> /\ candidates' = candidates
    BY DEF GrantNext, Hold
<1>2. \/ /\ batch' = [batch EXCEPT !.granted = Tail(@)]
         /\ \E fit : fit \subseteq held_by_node_fit \cup {p} /\ Hold(p, fit, awaiting_schedule_signal)
      \/ /\ batch' = [batch EXCEPT !.pc = "create", !.cur = p, !.granted = Tail(@)]
         /\ UNCHANGED <<candidates, flags>>
    <2>1. held_by_node_fit \subseteq held_by_node_fit \cup {p}
          /\ held_by_node_fit \cup {p} \subseteq held_by_node_fit \cup {p}
        OBVIOUS
    <2> QED BY <2>1, Zenon DEF GrantNext
<1>3. batch \in BatchStates /\ batch.cur = None /\ GrantInv
    BY <1>1 DEF Core, AtHand, LoopShape
<1>4. batch'.granted = Tail(batch.granted)
    BY <1>2, <1>3 DEF BatchStates
<1>5. /\ p \in Pods /\ Tail(batch.granted) \in Seq(Pods)
      /\ Granted' \subseteq Granted /\ p \in Granted \ Granted'
      /\ \A i, j \in 1..Len(batch'.granted) : i # j => batch'.granted[i] # batch'.granted[j]
    BY <1>1, <1>3, <1>4, GrantTail
<1> HIDE DEF p
<1>6. CASE /\ batch' = [batch EXCEPT !.granted = Tail(@)]
           /\ \E fit : fit \subseteq held_by_node_fit \cup {p} /\ Hold(p, fit, awaiting_schedule_signal)
    <2>1. /\ batch' \in BatchStates /\ batch'.pc = "grant" /\ batch'.cur = None
          /\ batch'.todo = batch.todo /\ batch'.ready = batch.ready
          /\ batch'.due = batch.due /\ batch'.answered = batch.answered
        BY <1>1, <1>3, <1>5, <1>6 DEF BatchStates
    <2> QED BY <1>1, <1>5, <1>6, <2>1 DEF p
<1>7. CASE /\ batch' = [batch EXCEPT !.pc = "create", !.cur = p, !.granted = Tail(@)]
           /\ UNCHANGED <<candidates, flags>>
    <2>1. /\ batch' \in BatchStates /\ batch'.pc = "create" /\ batch'.cur = p
          /\ batch'.todo = batch.todo /\ batch'.ready = batch.ready
          /\ batch'.due = batch.due /\ batch'.answered = batch.answered
        BY <1>3, <1>5, <1>7 DEF BatchStates
    <2> QED BY <1>1, <1>5, <1>7, <2>1 DEF p
<1> QED BY <1>2, <1>6, <1>7 DEF p

LEMMA GrantNextInv == ASSUME Core, GrantNext PROVE Core'
<1> DEFINE p == Head(batch.granted)
<1>1. /\ UNCHANGED <<listed, queued, occupied, gpu_pods, lock, rerun, faults>>
      /\ UNCHANGED <<delegate, watch, cluster, events, app>>
    BY DEF GrantNext, BatchFrame, AppFrame
<1>2. /\ batch.pc = "grant" /\ candidates' = candidates /\ p \in Pods /\ p \in Granted \ Granted'
      /\ Granted' \subseteq Granted
      /\ \A i, j \in 1..Len(batch'.granted) : i # j => batch'.granted[i] # batch'.granted[j]
      /\ batch' \in BatchStates /\ batch'.todo = batch.todo /\ batch'.ready = batch.ready
      /\ batch'.due = batch.due /\ batch'.answered = batch.answered
      /\ \/ batch'.pc = "grant" /\ batch'.cur = None
         \/ batch'.pc = "create" /\ batch'.cur = p
    BY GrantNextFacts
<1>3. \/ UNCHANGED <<candidates, flags>>
      \/ \E fit : Hold(p, fit, awaiting_schedule_signal)
    BY GrantNextFacts
<1> HIDE DEF p
<1>4. /\ Granted \subseteq batch.ready
      /\ batch.answered \/ Granted \subseteq batch.due
    BY DEF Core, GrantInv
<1>5. GrantInv'
    BY <1>2, <1>4 DEF GrantInv, Holding
<1>6. Thinks
    BY <1>1, <1>2 DEF Thinks, Holding
<1>7. FlagShape'
    <2>1. CASE UNCHANGED <<candidates, flags>>
        BY <2>1, FlagsKept DEF Core
    <2>2. CASE \E fit : Hold(p, fit, awaiting_schedule_signal)
        <3>1. candidates' \subseteq Pods
            BY <1>2 DEF Core, FlagShape
        <3> QED BY <2>2, <3>1, FlagsSet DEF Hold
    <2> QED BY <1>3, <2>1, <2>2
<1>8. rerun' \in BOOLEAN
    BY <1>1, Zenon DEF Core, LoopShape
<1>9. Draws(batch')
    BY <1>2, <1>4 DEF Draws
<1>10. RefInv'
    BY <1>1, <1>2, <1>4, <1>6, RefThinks DEF Holding
<1> QED BY <1>2, <1>5, <1>6, <1>7, <1>8, <1>9, <1>10, BatchThinks

LEMMA PassEndsInv == ASSUME Core, PassEnds PROVE Core'
<1>1. /\ batch.pc \in {"grant", "next"} /\ EndPass
      /\ UNCHANGED <<cluster, events, app, delegate, listed, candidates, flags, queued,
                     occupied, gpu_pods, lock, watch, faults>>
    BY Zenon DEF PassEnds, BatchFrame, AppFrame
<1>2. batch \in BatchStates /\ rerun \in BOOLEAN
    BY Zenon DEF Core, LoopShape
<1>3. FlagShape'
    BY <1>1, FlagsKept DEF Core
<1>4. batch' \in BatchStates /\ rerun' \in BOOLEAN /\ Rested
    BY <1>1, <1>2, <1>3, EndPassFacts
<1>5. Thinks
    BY <1>1 DEF Thinks, Holding
<1>6. GrantInv' /\ RefInv'
    BY <1>1, <1>4, BatchKept DEF Between, cluster
<1>7. Draws(batch')
    BY <1>1, <1>4 DEF Draws, Rested
<1> QED BY <1>3, <1>4, <1>5, <1>6, <1>7, BatchThinks

-----------------------------------------------------------------------------
(* The batch, with a lease *)

LEMMA CreateLeaseInv == ASSUME Core, CreateLease PROVE Core'
<1> DEFINE p == batch.cur
<1>1. /\ batch.pc = "create" /\ candidates' = candidates
      /\ UNCHANGED <<cluster, events, booked, listed, queued, occupied, gpu_pods, lock, rerun>>
      /\ UNCHANGED <<delegate, watch>>
    BY Zenon DEF CreateLease, BatchFrame
<1>2. /\ lease' = lease \/ lease' = [lease EXCEPT ![p] = "active"]
      /\ Fault \/ faults' = faults
      /\ batch' = [batch EXCEPT !.pc = "lock"] \/ NextGrant
      /\ lease' = lease \/ Fault \/ batch' = [batch EXCEPT !.pc = "lock"]
    BY Zenon DEF CreateLease
<1>3. FlagShape'
    <2>1. \E cool, await, fit, signal : SetFlags(cool, await, fit, signal)
        BY Zenon DEF CreateLease, Hold
    <2>2. candidates' \subseteq Pods
        BY <1>1 DEF Core, FlagShape
    <2> QED BY <2>1, <2>2, FlagsSet
<1>4. faults' \in 0..MaxFaults /\ (faults' = 0 => faults = 0) /\ (Fault => faults' # 0)
    BY <1>2, FaultFacts, FaultIsOne
<1>5. batch \in BatchStates /\ p \in Pods /\ lease \in [Pods -> {"none", "active", "over"}]
    BY <1>1 DEF Core, AtHand, LoopShape, ClusterShape
<1>6. /\ batch' \in BatchStates /\ batch'.granted = batch.granted /\ batch'.todo = batch.todo
      /\ batch'.ready = batch.ready /\ batch'.due = batch.due /\ batch'.answered = batch.answered
      /\ (batch'.pc = "lock" /\ batch'.cur = p)
            \/ (batch'.pc = "grant" /\ batch'.cur = None /\ (lease' = lease \/ Fault))
    <2>1. CASE batch' = [batch EXCEPT !.pc = "lock"]
        BY <1>5, <2>1 DEF BatchStates, Holding
    <2>2. CASE NextGrant /\ (lease' = lease \/ Fault)
        BY <1>5, <2>2 DEF BatchStates, NextGrant
    <2> QED BY <1>2, <2>1, <2>2
<1> HIDE DEF p
<1>7. UNCHANGED <<phase, ref, node, ruled, events>> /\ Quiet
    BY <1>1, <1>4 DEF cluster, Quiet
<1>8. ClusterShape'
    <2>1. lease' \in [Pods -> {"none", "active", "over"}]
        BY <1>2, <1>5
    <2> QED BY <1>1, <1>7, <2>1 DEF Core, ClusterShape
<1>9. LoopShape'
    <2>1. rerun' \in BOOLEAN
        BY <1>1, Zenon DEF Core, LoopShape
    <2>2. /\ listed' \subseteq Pods /\ queued' \subseteq Pods /\ occupied' \subseteq Pods
          /\ gpu_pods' \in [Pods -> {"none", "claim"} \cup Nodes]
          /\ lock' \in {"free", "batch", "watch"} /\ watch' \in WatchStates
        BY <1>1 DEF Core, LoopShape
    <2> QED BY <1>4, <1>6, <2>1, <2>2, LoopShaped
<1>10. Granted' = Granted
    BY <1>6, SameGrants
<1>11. GrantInv'
    BY <1>1, <1>6, <1>10 DEF Core, GrantInv, Holding, p
<1>12. AtHand' /\ BookedInv'
    BY <1>1, <1>5, <1>6, <1>7 DEF Core, AtHand, BookedInv
<1>13. EventsInv' /\ GoneInv' /\ OccupiedInv' /\ NewInv'
    BY <1>1, <1>6, <1>7, QuietFacts, NewKept DEF p
<1>14. RefInv'
    <2> SUFFICES ASSUME faults' = 0, NEW q \in Pods, ref[q] = "lease"
                 PROVE  q \notin candidates /\ q \notin Granted /\ batch'.cur # q
        BY <1>1, <1>6, <1>7, <1>10 DEF RefInv
    <2>1. q # p /\ q \notin candidates /\ q \notin Granted
        BY <1>1, <1>4 DEF Core, RefInv, p
    <2> QED BY <1>6, <2>1, ConstantFacts
<1>15. \A q \in Pods \ {p} : lease'[q] = lease[q]
    BY <1>2, <1>5
<1>16. ListedInv'
    <2> SUFFICES ASSUME faults' = 0, NEW q \in Pods \ BestEffort, lease'[q] = "active"
                 PROVE  q \in listed \/ (batch'.cur = q /\ batch'.pc = "lock")
        BY <1>1 DEF ListedInv
    <2>1. lease[q] = "active" => q \in listed
        BY <1>1, <1>4 DEF Core, ListedInv
    <2> QED BY <1>4, <1>6, <1>15, <2>1
<1>17. LeaseInv'
    <2> SUFFICES ASSUME NEW q \in Pods \ BestEffort, lease'[q] = "active", faults' = 0,
                        q \notin booked
                 PROVE  \/ ref[q] = "lease" /\ phase[q] \in {"pending", "bound"}
                        \/ batch'.cur = q /\ batch'.pc = "lock"
                        \/ watch.pod = q
                        \/ \E i \in 1..Len(events) : PodGoing(events[i], q)
        BY <1>1, <1>7 DEF LeaseInv, Holding
    <2>1. CASE lease[q] = "active"
        <3>1. batch.pc \notin Holding
            BY <1>1 DEF Holding
        <3> QED BY <1>4, <2>1, <3>1 DEF Core, LeaseInv
    <2>2. CASE lease[q] # "active"
        <3>1. q = p
            BY <1>15, <2>2
        <3> QED BY <1>4, <1>6, <2>2, <3>1
    <2> QED BY <2>1, <2>2
<1> QED BY <1>3, <1>8, <1>9, <1>11, <1>12, <1>13, <1>14, <1>16, <1>17 DEF Core

LEMMA AdmitBeginsInv == ASSUME Core, AdmitBegins PROVE Core'
<1> DEFINE p == batch.cur
<1>1. /\ batch.pc = "lock" /\ lock' = "batch" /\ listed' = listed \cup {p}
      /\ occupied' = occupied \cup {p} /\ batch' = [batch EXCEPT !.pc = "admit"]
      /\ UNCHANGED <<candidates, flags, queued, gpu_pods, rerun, faults>>
      /\ UNCHANGED <<delegate, watch, cluster, events, app>>
    BY DEF AdmitBegins, BatchFrame, AppFrame
<1>2. batch \in BatchStates /\ p \in Pods
    BY <1>1 DEF Core, AtHand, LoopShape
<1>3. /\ batch' \in BatchStates /\ batch'.pc = "admit" /\ batch'.cur = p
      /\ batch'.granted = batch.granted /\ batch'.todo = batch.todo /\ batch'.ready = batch.ready
      /\ batch'.due = batch.due /\ batch'.answered = batch.answered
    BY <1>1, <1>2 DEF BatchStates, Holding
<1> HIDE DEF p
<1>4. UNCHANGED <<phase, ref, node, ruled, events, lease, booked>> /\ Quiet
    BY <1>1 DEF cluster, app, Quiet
<1>5. ClusterShape' /\ FlagShape'
    BY <1>1, ClusterKept, FlagsKept DEF Core
<1>6. LoopShape'
    <2>1. rerun' \in BOOLEAN
        BY <1>1, Zenon DEF Core, LoopShape
    <2>2. /\ listed' \subseteq Pods /\ queued' \subseteq Pods /\ occupied' \subseteq Pods
          /\ gpu_pods' \in [Pods -> {"none", "claim"} \cup Nodes]
          /\ lock' \in {"free", "batch", "watch"} /\ watch' \in WatchStates
          /\ faults' \in 0..MaxFaults
        BY <1>1, <1>2 DEF Core, LoopShape
    <2> QED BY <1>3, <2>1, <2>2, LoopShaped
<1>7. Granted' = Granted
    BY <1>3, SameGrants
<1>8. AtHand' /\ GrantInv' /\ BookedInv'
    BY <1>1, <1>2, <1>3, <1>4, <1>7 DEF Core, AtHand, GrantInv, BookedInv, Holding, p
<1>9. EventsInv' /\ GoneInv'
    BY <1>4 DEF Core, EventsInv, GoneInv, Going, PodGoing
<1>10. NewInv'
    BY <1>1, <1>3, <1>4, NewKept DEF p
<1>11. RefInv'
    BY <1>1, <1>3, <1>4, <1>7 DEF Core, RefInv, p
<1>12. OccupiedInv'
    <2>1. faults = 0 => ref[p] # "lease"
        BY <1>1, <1>2 DEF Core, RefInv, p
    <2> QED BY <1>1, <1>4, <2>1 DEF Core, OccupiedInv
<1>13. ListedInv'
    BY <1>1, <1>4 DEF Core, ListedInv, p
<1>14. LeaseInv'
    BY <1>1, <1>3, <1>4, LeaseKept DEF Holding, p
<1> QED BY <1>5, <1>6, <1>8, <1>9, <1>10, <1>11, <1>12, <1>13, <1>14 DEF Core

\* The admission goes on under the lock, or the batch is done with the lease.
Attempts ==
    /\ batch.pc \in {"admit", "patch", "applied"}
    /\ UNCHANGED <<cluster, events, app, delegate, watch, listed, queued, rerun>>
    /\ occupied' \subseteq occupied /\ candidates' \subseteq candidates
    /\ gpu_pods' \in [Pods -> {"none", "claim"} \cup Nodes]
    /\ lock' \in {"free", "batch", "watch"}
    /\ Fault \/ faults' = faults

\* The pod has its lease, or the watch will hear that it went.
Served(p) ==
    \/ ref[p] = "lease" /\ phase[p] \in {"pending", "bound"}
    \/ p \in booked
    \/ \E i \in 1..Len(events) : PodGoing(events[i], p)

LEMMA AttemptInv ==
    ASSUME Core, Attempts, FlagShape',
           \/ /\ \E pc \in {"patch", "revoke", "revoke_retry"} : batch' = [batch EXCEPT !.pc = pc]
              /\ faults' = 0 => batch'.pc = "revoke" \/ ref[batch.cur] # "lease"
           \/ /\ NextGrant /\ batch.cur \notin candidates'
              /\ faults' = 0 => Served(batch.cur)
    PROVE  Core'
<1> DEFINE p == batch.cur
<1>1. batch \in BatchStates /\ p \in Pods
    BY DEF Core, AtHand, LoopShape, Attempts
<1>2. /\ batch' \in BatchStates /\ batch'.granted = batch.granted /\ batch'.todo = batch.todo
      /\ batch'.ready = batch.ready /\ batch'.due = batch.due /\ batch'.answered = batch.answered
      /\ \/ /\ batch'.pc \in {"patch", "revoke", "revoke_retry"} /\ batch'.cur = p
            /\ faults' = 0 => batch'.pc = "revoke" \/ ref[p] # "lease"
         \/ /\ batch'.pc = "grant" /\ batch'.cur = None /\ p \notin candidates'
            /\ faults' = 0 => Served(p)
    <2>1. ASSUME NEW pc \in {"patch", "revoke", "revoke_retry"}, batch' = [batch EXCEPT !.pc = pc]
          PROVE  /\ batch' \in BatchStates /\ batch'.pc = pc /\ batch'.cur = p
                 /\ batch'.granted = batch.granted /\ batch'.todo = batch.todo
                 /\ batch'.ready = batch.ready /\ batch'.due = batch.due
                 /\ batch'.answered = batch.answered
        BY <1>1, <2>1 DEF BatchStates, Holding
    <2>2. ASSUME NextGrant
          PROVE  /\ batch' \in BatchStates /\ batch'.pc = "grant" /\ batch'.cur = None
                 /\ batch'.granted = batch.granted /\ batch'.todo = batch.todo
                 /\ batch'.ready = batch.ready /\ batch'.due = batch.due
                 /\ batch'.answered = batch.answered
        BY <1>1, <2>2 DEF BatchStates, NextGrant
    <2> QED BY <2>1, <2>2
<1> HIDE DEF p
<1>3. /\ UNCHANGED <<phase, ref, node, ruled, events, lease, booked, delegate, watch, listed,
                     queued, rerun>>
      /\ faults' \in 0..MaxFaults /\ (faults' = 0 => faults = 0)
    BY FaultFacts DEF Attempts, cluster, app
<1>4. Quiet
    BY <1>3 DEF Quiet
<1>5. ClusterShape'
    BY <1>3 DEF Core, ClusterShape
<1>6. LoopShape'
    <2>1. rerun' \in BOOLEAN
        BY <1>3, Zenon DEF Core, LoopShape
    <2>2. /\ listed' \subseteq Pods /\ queued' \subseteq Pods /\ occupied' \subseteq Pods
          /\ watch' \in WatchStates
        BY <1>3 DEF Core, LoopShape, Attempts
    <2> QED BY <1>2, <1>3, <2>1, <2>2, LoopShaped DEF Attempts
<1>7. Granted' = Granted
    BY <1>2, SameGrants
<1>8. AtHand' /\ BookedInv'
    BY <1>1, <1>2, <1>3 DEF Core, AtHand, BookedInv
<1>9. GrantInv'
    BY <1>2, <1>7 DEF Core, GrantInv, Holding, Attempts, p
<1>10. EventsInv' /\ GoneInv' /\ OccupiedInv' /\ NewInv'
    BY <1>2, <1>4, QuietFacts, NewKept DEF Attempts, p
<1>11. RefInv'
    <2> SUFFICES ASSUME faults' = 0, NEW q \in Pods, ref[q] = "lease"
                 PROVE  /\ q \in candidates' => batch'.cur = q /\ batch'.pc = "revoke"
                        /\ q \notin Granted
                        /\ batch'.cur = q => batch'.pc \notin {"create", "lock", "admit", "patch"}
        BY <1>2, <1>3, <1>7 DEF RefInv
    <2>1. /\ q \in candidates => p = q
          /\ q \notin Granted
        BY <1>3 DEF Core, RefInv, p
    <2>2. CASE q = p
        BY <1>1, <1>2, <2>1, <2>2, ConstantFacts
    <2>3. CASE q # p
        BY <1>2, <2>1, <2>3, ConstantFacts DEF Attempts
    <2> QED BY <2>2, <2>3
<1>12. ListedInv'
    BY <1>3, ListedKept DEF Attempts
<1>13. LeaseInv'
    <2> SUFFICES ASSUME NEW q \in Pods \ BestEffort, lease[q] = "active", faults' = 0, q \notin booked
                 PROVE  \/ ref[q] = "lease" /\ phase[q] \in {"pending", "bound"}
                        \/ batch'.cur = q /\ batch'.pc \in {"patch", "revoke", "revoke_retry"}
                        \/ watch.pod = q
                        \/ \E i \in 1..Len(events) : PodGoing(events[i], q)
        BY <1>3 DEF LeaseInv, Holding
    <2>1. CASE q = p
        BY <1>2, <2>1 DEF Served
    <2>2. CASE q # p
        BY <1>3, <2>2 DEF Core, LeaseInv, p
    <2> QED BY <2>1, <2>2
<1> QED BY <1>5, <1>6, <1>8, <1>9, <1>10, <1>11, <1>12, <1>13 DEF Core

\* A pod recorded under its lease is served.
LEMMA OccupiedServed ==
    ASSUME Core, faults = 0, batch.cur \in occupied, ref[batch.cur] = "lease"
    PROVE  Served(batch.cur)
<1>1. batch.cur \in Pods
    BY DEF Core, LoopShape
<1>2. phase[batch.cur] \in Phases /\ phase[batch.cur] # "absent"
    BY <1>1 DEF Core, ClusterShape, NewInv, New
<1>3. phase[batch.cur] \in {"done", "gone"} =>
          \E i \in 1..Len(events) : PodGoing(events[i], batch.cur)
    BY DEF Core, OccupiedInv
<1> QED BY <1>2, <1>3 DEF Served, Phases

LEMMA AttemptTrueFacts ==
    ASSUME Core, batch.cur \in Pods, NEW unbound, AttemptTrue(batch.cur, unbound)
    PROVE  /\ FlagShape' /\ gpu_pods' \in [Pods -> {"none", "claim"} \cup Nodes]
           /\ candidates' \subseteq candidates /\ lock' \in {"free", "batch", "watch"}
           /\ \/ NextGrant /\ batch.cur \notin candidates' /\ batch.cur \in occupied
              \/ batch' = [batch EXCEPT !.pc = "revoke"]
<1> DEFINE p == batch.cur
<1>1. candidates \subseteq Pods /\ FlagShape /\ lock \in {"free", "batch", "watch"}
      /\ gpu_pods \in [Pods -> {"none", "claim"} \cup Nodes]
    BY DEF Core, FlagShape, LoopShape
<1>2. CASE /\ p \in occupied /\ Claim(p, unbound) /\ NextGrant /\ lock' = "free"
           /\ Unregister(p) /\ KeepFlags
    <2>1. candidates' = candidates \ {p}
        BY <1>2 DEF Unregister
    <2>2. FlagShape'
        BY <1>1, <1>2, <2>1, FlagsSet DEF KeepFlags
    <2>3. gpu_pods' = gpu_pods \/ gpu_pods' = [gpu_pods EXCEPT ![p] = "claim"]
        BY <1>2, Zenon DEF Claim
    <2>4. gpu_pods' \in [Pods -> {"none", "claim"} \cup Nodes]
        BY <1>1, <2>3
    <2> QED BY <1>2, <2>1, <2>2, <2>4
<1>3. CASE /\ batch' = [batch EXCEPT !.pc = "revoke"]
           /\ UNCHANGED <<gpu_pods, lock, candidates, flags>>
    BY <1>1, <1>3, FlagsKept
<1> QED BY <1>2, <1>3, Zenon DEF AttemptTrue

LEMMA AttemptEndsFacts ==
    ASSUME Core, NEW pc, AttemptEnds(batch.cur, pc)
    PROVE  /\ FlagShape' /\ gpu_pods' \in [Pods -> {"none", "claim"} \cup Nodes]
           /\ candidates' = candidates /\ lock' \in {"free", "batch", "watch"}
           /\ occupied' \subseteq occupied /\ batch' = [batch EXCEPT !.pc = pc]
BY FlagsKept DEF AttemptEnds, Core, LoopShape

\* What the compensating cancel waits for: the attempt of a pod that has a lease
\* does not fail.
LEMMA RetryFacts ==
    ASSUME Core, faults = 0, batch.pc \in {"admit", "patch"}
    PROVE  batch.cur \in Pods /\ ref[batch.cur] # "lease"
BY DEF Core, RefInv, AtHand

LEMMA PcFacts ==
    ASSUME Core, NEW pc, batch' = [batch EXCEPT !.pc = pc]
    PROVE  batch'.pc = pc
BY DEF Core, LoopShape, BatchStates

LEMMA AdmitReadsInv == ASSUME Core, AdmitReads PROVE Core'
<1> DEFINE p == batch.cur
<1>1. /\ batch.pc = "admit"
      /\ UNCHANGED <<cluster, events, app, delegate, watch, listed, queued, rerun>>
    BY Zenon DEF AdmitReads, BatchFrame, AppFrame
<1>2. p \in Pods
    BY <1>1 DEF Core, AtHand
<1>3. /\ gpu_pods \in [Pods -> {"none", "claim"} \cup Nodes] /\ lock \in {"free", "batch", "watch"}
      /\ FlagShape
    BY DEF Core, LoopShape
<1>4. faults = 0 => ref[p] # "lease"
    BY <1>1, RetryFacts
<1>5. CASE /\ batch' = [batch EXCEPT !.pc = "patch"]
           /\ UNCHANGED <<occupied, gpu_pods, lock, candidates, flags, faults>>
    <2>1. Attempts /\ FlagShape'
        BY <1>1, <1>3, <1>5, FlagsKept DEF Attempts
    <2> QED BY <1>4, <1>5, <2>1, AttemptInv
<1>6. CASE /\ ref[p] # "none" /\ UNCHANGED <<occupied, faults>>
           /\ AttemptTrue(p, phase[p] = "pending")
    <2>1. Attempts /\ FlagShape'
        BY <1>1, <1>2, <1>6, AttemptTrueFacts DEF Attempts
    <2>2. faults' = 0 => Served(p)
        <3>1. ref[p] \in Refs
            BY <1>2 DEF Core, ClusterShape
        <3>2. faults = 0 => ref[p] = "booking"
            BY <1>4, <1>6, <3>1 DEF Refs
        <3> QED BY <1>2, <1>6, <3>2 DEF Core, BookedInv, Served
    <2>3. \/ NextGrant /\ p \notin candidates'
          \/ batch' = [batch EXCEPT !.pc = "revoke"]
        BY <1>2, <1>6, AttemptTrueFacts
    <2> QED BY <2>1, <2>2, <2>3, AttemptInv, PcFacts
<1>7. CASE AttemptEnds(p, "revoke") /\ faults' = faults
    <2>1. Attempts /\ FlagShape' /\ batch' = [batch EXCEPT !.pc = "revoke"]
        BY <1>1, <1>7, AttemptEndsFacts DEF Attempts
    <2> QED BY <2>1, AttemptInv, PcFacts
<1>8. CASE AttemptEnds(p, "revoke_retry") /\ (faults' = faults \/ Fault)
    <2>1. Attempts /\ FlagShape' /\ batch' = [batch EXCEPT !.pc = "revoke_retry"]
        BY <1>1, <1>8, AttemptEndsFacts DEF Attempts
    <2>2. faults' = 0 => ref[p] # "lease"
        BY <1>4, <1>8, FaultFacts
    <2> QED BY <2>1, <2>2, AttemptInv
<1> QED BY <1>5, <1>6, <1>7, <1>8, Zenon DEF AdmitReads

LEMMA AdmitEndsInv == ASSUME Core, AdmitEnds PROVE Core'
<1> DEFINE p == batch.cur
<1>1. /\ batch.pc = "applied"
      /\ UNCHANGED <<cluster, events, app, delegate, watch, listed, queued, rerun>>
    BY Zenon DEF AdmitEnds, BatchFrame, AppFrame
<1>2. p \in Pods /\ ref[p] = "lease"
    BY <1>1 DEF Core, AtHand, RefInv
<1>3. CASE AttemptTrue(p, TRUE) /\ UNCHANGED <<occupied, faults>>
    <2>1. Attempts /\ FlagShape'
        BY <1>1, <1>2, <1>3, AttemptTrueFacts DEF Attempts
    <2>2. \/ NextGrant /\ p \notin candidates' /\ p \in occupied
          \/ batch' = [batch EXCEPT !.pc = "revoke"]
        BY <1>2, <1>3, AttemptTrueFacts
    <2>3. CASE NextGrant /\ p \notin candidates' /\ p \in occupied
        BY <1>2, <1>3, <2>1, <2>3, OccupiedServed, AttemptInv
    <2>4. CASE batch' = [batch EXCEPT !.pc = "revoke"]
        BY <2>1, <2>4, AttemptInv, PcFacts
    <2> QED BY <2>2, <2>3, <2>4
<1>4. CASE Fault /\ AttemptEnds(p, "revoke_retry")
    <2>1. Attempts /\ FlagShape' /\ batch' = [batch EXCEPT !.pc = "revoke_retry"]
        BY <1>1, <1>4, AttemptEndsFacts DEF Attempts
    <2>2. faults' # 0
        BY <1>4, FaultIsOne
    <2> QED BY <2>1, <2>2, AttemptInv
<1> QED BY <1>3, <1>4, Zenon DEF AdmitEnds

\* The patch: the pod has its lease, and the watch will hear of it.
LEMMA PatchInv ==
    ASSUME Core, batch.pc = "patch", phase[batch.cur] # "gone",
           ref' = [ref EXCEPT ![batch.cur] = "lease"], UNCHANGED <<phase, node, ruled>>,
           Notify("MODIFIED", batch.cur), batch' = [batch EXCEPT !.pc = "applied"],
           UNCHANGED <<app, delegate, watch, listed, queued, rerun>>,
           UNCHANGED <<occupied, gpu_pods, lock, candidates, flags, faults>>
    PROVE  Core'
<1> DEFINE p == batch.cur
           n == Len(events)
<1>1. batch \in BatchStates /\ p \in Pods /\ events \in Seq(Event)
    BY DEF Core, AtHand, LoopShape, ClusterShape
<1>2. /\ batch' \in BatchStates /\ batch'.pc = "applied" /\ batch'.cur = p
      /\ batch'.granted = batch.granted /\ batch'.todo = batch.todo /\ batch'.ready = batch.ready
      /\ batch'.due = batch.due /\ batch'.answered = batch.answered
    BY <1>1 DEF BatchStates, Holding
<1>3. /\ ref \in [Pods -> Refs] /\ ref' \in [Pods -> Refs] /\ ref'[p] = "lease"
      /\ phase' \in [Pods -> Phases] /\ node' \in [Pods -> Nodes \cup {None}]
      /\ \A q \in Pods \ {p} : ref'[q] = ref[q]
    BY <1>1 DEF Core, ClusterShape, Refs
<1>4. PICK e \in Event : /\ events' = Append(events, e) /\ events' \in Seq(Event)
                         /\ e.type = "MODIFIED" /\ e.pod = p /\ e.phase = phase'[p]
                         /\ e.ref = ref'[p]
    BY <1>1, <1>3, NotifyFacts
<1>5. /\ n \in Nat /\ Len(events') = n + 1 /\ events'[n + 1] = e
      /\ \A i \in 1..n : events'[i] = events[i]
    BY <1>1, <1>4, Appended
<1>6. \A i \in 1..n : events[i].pod \in Pods
    <2>1. \A i \in 1..n : events[i] \in Event
        BY <1>1, ElementOfSeq
    <2> QED BY <2>1 DEF Event
<1> HIDE DEF p, n
<1>7. UNCHANGED <<phase, node, ruled, lease, booked, delegate, watch, listed, queued, rerun,
                  occupied, gpu_pods, lock, candidates, flags, faults>>
    BY DEF app
<1>8. phase[p] # "absent"
    BY <1>1 DEF Core, NewInv, New, p
<1>9. ClusterShape' /\ FlagShape'
    BY <1>3, <1>4, <1>7, FlagsKept DEF Core, ClusterShape
<1>10. LoopShape'
    <2>1. rerun' \in BOOLEAN
        BY <1>7, Zenon DEF Core, LoopShape
    <2>2. /\ listed' \subseteq Pods /\ queued' \subseteq Pods /\ occupied' \subseteq Pods
          /\ gpu_pods' \in [Pods -> {"none", "claim"} \cup Nodes]
          /\ lock' \in {"free", "batch", "watch"} /\ watch' \in WatchStates
          /\ faults' \in 0..MaxFaults
        BY <1>7 DEF Core, LoopShape
    <2> QED BY <1>2, <2>1, <2>2, LoopShaped
<1>11. Granted' = Granted
    BY <1>2, SameGrants
<1>12. AtHand'
    BY <1>1, <1>2, <1>7 DEF Core, AtHand
<1>13. GrantInv'
    BY <1>2, <1>11 DEF Core, GrantInv, Holding, p
<1>14. BookedInv'
    BY <1>3, <1>7 DEF Core, BookedInv
<1>15. EventsInv'
    <2>1. ASSUME NEW i \in 1..n
          PROVE  /\ phase'[events'[i].pod] # "absent"
                 /\ events'[i].ref = "lease" => ref'[events'[i].pod] = "lease"
                 /\ events'[i].ref = "booking" => events'[i].pod \in booked'
        BY <1>3, <1>5, <1>6, <1>7 DEF n, Core, EventsInv
    <2>2. /\ phase'[e.pod] # "absent" /\ ref'[e.pod] = "lease"
          /\ e.ref # "booking"
        BY <1>3, <1>4, <1>7, <1>8
    <2>3. ASSUME NEW i \in 1..n + 1, NEW j \in 1..n + 1, events'[i].type = "ADDED",
                 events'[j].type = "ADDED", events'[i].pod = events'[j].pod
          PROVE  i = j
        <3>1. i # n + 1 /\ j # n + 1
            BY <1>4, <1>5, <2>3
        <3>2. i \in 1..n /\ j \in 1..n
            BY <1>5, <3>1
        <3> QED BY <1>5, <2>3, <3>2 DEF n, Core, EventsInv
    <2>4. \A i \in 1..n + 1 : i \in 1..n \/ i = n + 1
        BY <1>5
    <2>5. \A i \in 1..n + 1 : /\ phase'[events'[i].pod] # "absent"
                              /\ events'[i].ref = "lease" => ref'[events'[i].pod] = "lease"
                              /\ events'[i].ref = "booking" => events'[i].pod \in booked'
        BY <1>5, <2>1, <2>2, <2>4
    <2> QED BY <1>5, <2>3, <2>5 DEF EventsInv
<1>16. ASSUME NEW i \in 1..n, NEW q, PodGoing(events[i], q)
       PROVE  PodGoing(events'[i], q) /\ i \in 1..n + 1
    BY <1>5, <1>16 DEF PodGoing
<1>17. phase[p] \in {"done", "gone"} => PodGoing(events'[n + 1], p)
    BY <1>3, <1>4, <1>5, <1>7 DEF PodGoing, p
<1>18. GoneInv'
    <2> SUFFICES ASSUME NEW i \in 1..n + 1, ref'[events'[i].pod] = "lease",
                        phase'[events'[i].pod] \in {"done", "gone"}, ~ Going(events'[i])
                 PROVE  \E j \in 1..n + 1 : j > i /\ PodGoing(events'[j], events'[i].pod)
        BY <1>5, Zenon DEF GoneInv, Going
    <2>1. i # n + 1
        <3>1. e.pod = p /\ e.phase = phase[p] /\ phase[p] # "gone"
            BY <1>4, <1>7 DEF p
        <3> QED BY <1>5, <3>1 DEF Going
    <2>2. i \in 1..n /\ events'[i] = events[i] /\ events[i].pod \in Pods
        BY <1>5, <1>6, <2>1
    <2>3. CASE events[i].pod = p
        BY <1>5, <1>7, <1>17, <2>2, <2>3
    <2>4. CASE events[i].pod # p
        <3>1. /\ ref[events[i].pod] = "lease" /\ phase[events[i].pod] \in {"done", "gone"}
              /\ ~ Going(events[i])
            BY <1>3, <1>7, <2>2, <2>4
        <3>2. PICK j \in 1..n : j > i /\ PodGoing(events[j], events[i].pod)
            BY <2>2, <3>1, Zenon DEF Core, GoneInv, n, Going
        <3> QED BY <1>16, <2>2, <3>2
    <2> QED BY <2>3, <2>4
<1>19. NewInv'
    <2> SUFFICES ASSUME NEW q \in Pods, New(q)'
                 PROVE  /\ ref'[q] # "lease" /\ q # p
                        /\ q \notin candidates \cup batch.todo \cup batch.ready
        BY <1>2, <1>7 DEF NewInv
    <2>1. New(q)
        BY <1>4, <1>5, <1>7 DEF New, n
    <2> QED BY <1>3, <2>1 DEF Core, NewInv, p
<1>20. p \notin Granted
    BY DEF Core, GrantInv, Holding, p
<1>21. RefInv'
    <2> SUFFICES ASSUME faults = 0, NEW q \in Pods, ref'[q] = "lease"
                 PROVE  (q \in candidates => q = p) /\ q \notin Granted
        BY <1>2, <1>3, <1>7, <1>11 DEF RefInv
    <2>1. CASE q = p
        BY <1>20, <2>1
    <2>2. CASE q # p
        BY <1>3, <2>2 DEF Core, RefInv, p
    <2> QED BY <2>1, <2>2
<1>22. OccupiedInv'
    <2> SUFFICES ASSUME faults = 0, NEW q \in occupied, ref'[q] = "lease",
                        phase[q] \in {"done", "gone"}
                 PROVE  \E i \in 1..n + 1 : PodGoing(events'[i], q)
        BY <1>5, <1>7 DEF OccupiedInv
    <2>1. q \in Pods
        BY DEF Core, LoopShape
    <2>2. CASE q = p
        BY <1>5, <1>17, <2>2
    <2>3. CASE q # p
        <3>1. PICK i \in 1..n : PodGoing(events[i], q)
            BY <1>3, <2>1, <2>3 DEF n, Core, OccupiedInv
        <3> QED BY <1>16, <3>1
    <2> QED BY <2>2, <2>3
<1>23. ListedInv'
    BY <1>7, ListedKept
<1>24. LeaseInv'
    <2> SUFFICES ASSUME NEW q \in Pods \ BestEffort, lease[q] = "active", faults = 0, q \notin booked
                 PROVE  \/ ref'[q] = "lease" /\ phase[q] \in {"pending", "bound"}
                        \/ p = q
                        \/ watch.pod = q
                        \/ \E i \in 1..n + 1 : PodGoing(events'[i], q)
        BY <1>2, <1>5, <1>7 DEF LeaseInv, Holding
    <2>1. CASE \E i \in 1..n : PodGoing(events[i], q)
        BY <1>16, <2>1
    <2> QED BY <1>3, <2>1 DEF Core, LeaseInv, n, p
<1> QED BY <1>9, <1>10, <1>12, <1>13, <1>14, <1>15, <1>18, <1>19, <1>21, <1>22, <1>23, <1>24 DEF Core

LEMMA AdmitPatchesInv == ASSUME Core, AdmitPatches PROVE Core'
<1> DEFINE p == batch.cur
<1>1. batch.pc = "patch" /\ UNCHANGED <<app, delegate, watch, listed, queued, rerun>>
    BY Zenon DEF AdmitPatches, BatchFrame
<1>2. CASE /\ phase[p] # "gone" /\ ref' = [ref EXCEPT ![p] = "lease"]
           /\ UNCHANGED <<phase, node, ruled>> /\ Notify("MODIFIED", p)
           /\ batch' = [batch EXCEPT !.pc = "applied"]
           /\ UNCHANGED <<occupied, gpu_pods, lock, candidates, flags, faults>>
    BY <1>1, <1>2, PatchInv
<1>3. CASE /\ AttemptEnds(p, "revoke_retry") /\ (faults' = faults \/ Fault)
           /\ UNCHANGED <<cluster, events>>
    <2>1. Attempts /\ FlagShape' /\ batch' = [batch EXCEPT !.pc = "revoke_retry"]
        BY <1>1, <1>3, AttemptEndsFacts DEF Attempts
    <2>2. faults' = 0 => ref[p] # "lease"
        BY <1>1, <1>3, FaultFacts, RetryFacts
    <2> QED BY <2>1, <2>2, AttemptInv
<1> QED BY <1>2, <1>3, Zenon DEF AdmitPatches

LEMMA RevokeInv == ASSUME Core, Revoke PROVE Core'
<1> DEFINE p == batch.cur
<1>1. /\ batch.pc \in {"revoke", "revoke_retry"} /\ lock' = "free" /\ listed' = listed \ {p}
      /\ (lease' = [lease EXCEPT ![p] = "over"] /\ faults' = faults) \/ (lease' = lease /\ Fault)
      /\ (batch.pc = "revoke" /\ candidates' = candidates \ {p})
            \/ (batch.pc = "revoke_retry" /\ candidates' = candidates)
      /\ NextGrant
      /\ UNCHANGED <<cluster, events, booked, queued, occupied, gpu_pods, rerun, delegate, watch>>
    BY Zenon DEF Revoke, BatchFrame, Unregister
<1>2. batch \in BatchStates /\ p \in Pods /\ lease \in [Pods -> {"none", "active", "over"}]
    BY <1>1 DEF Core, AtHand, LoopShape, ClusterShape
<1>3. FlagShape'
    <2>1. \E cool, await, fit, signal : SetFlags(cool, await, fit, signal)
        BY Zenon DEF Revoke, KeepFlags
    <2>2. candidates' \subseteq Pods
        BY <1>1 DEF Core, FlagShape
    <2> QED BY <2>1, <2>2, FlagsSet
<1>4. /\ batch' \in BatchStates /\ batch'.pc = "grant" /\ batch'.cur = None
      /\ batch'.granted = batch.granted /\ batch'.todo = batch.todo /\ batch'.ready = batch.ready
      /\ batch'.due = batch.due /\ batch'.answered = batch.answered
    BY <1>1, <1>2 DEF BatchStates, NextGrant
<1> HIDE DEF p
<1>5. faults' \in 0..MaxFaults /\ (faults' = 0 => faults = 0) /\ (Fault => faults' # 0)
    BY <1>1, FaultFacts, FaultIsOne
<1>6. UNCHANGED <<phase, ref, node, ruled, events>> /\ Quiet
    BY <1>1, <1>5 DEF cluster, Quiet
<1>7. /\ lease' \in [Pods -> {"none", "active", "over"}]
      /\ \A q \in Pods \ {p} : lease'[q] = lease[q]
      /\ faults' = 0 => lease'[p] # "active"
    BY <1>1, <1>2, <1>5
<1>8. ClusterShape'
    BY <1>1, <1>6, <1>7 DEF Core, ClusterShape
<1>9. LoopShape'
    <2>1. rerun' \in BOOLEAN
        BY <1>1, Zenon DEF Core, LoopShape
    <2>2. /\ listed' \subseteq Pods /\ queued' \subseteq Pods /\ occupied' \subseteq Pods
          /\ gpu_pods' \in [Pods -> {"none", "claim"} \cup Nodes]
          /\ lock' \in {"free", "batch", "watch"} /\ watch' \in WatchStates
        BY <1>1 DEF Core, LoopShape
    <2> QED BY <1>4, <1>5, <2>1, <2>2, LoopShaped
<1>10. Granted' = Granted
    BY <1>4, SameGrants
<1>11. AtHand' /\ BookedInv'
    BY <1>1, <1>4, <1>6 DEF Core, AtHand, BookedInv
<1>12. GrantInv'
    BY <1>4, <1>10 DEF Core, GrantInv, Holding
<1>13. EventsInv' /\ GoneInv' /\ OccupiedInv' /\ NewInv'
    BY <1>1, <1>4, <1>6, QuietFacts, NewKept
<1>14. RefInv'
    <2> SUFFICES ASSUME faults' = 0, NEW q \in Pods, ref[q] = "lease"
                 PROVE  q \notin candidates' /\ q \notin Granted
        BY <1>4, <1>6, <1>10, ConstantFacts DEF RefInv
    <2>1. /\ q \in candidates => p = q /\ batch.pc \in {"applied", "revoke"}
          /\ q \notin Granted
        BY <1>5 DEF Core, RefInv, p
    <2> QED BY <1>1, <2>1
<1>15. ListedInv'
    <2> SUFFICES ASSUME faults' = 0, NEW q \in Pods \ BestEffort, lease'[q] = "active"
                 PROVE  q \in listed'
        BY DEF ListedInv
    <2>1. q # p /\ lease[q] = "active"
        BY <1>7
    <2> QED BY <1>1, <1>5, <2>1 DEF Core, ListedInv
<1>16. LeaseInv'
    <2> SUFFICES ASSUME NEW q \in Pods \ BestEffort, lease'[q] = "active", faults' = 0,
                        q \notin booked
                 PROVE  \/ ref[q] = "lease" /\ phase[q] \in {"pending", "bound"}
                        \/ watch.pod = q
                        \/ \E i \in 1..Len(events) : PodGoing(events[i], q)
        BY <1>1, <1>6 DEF LeaseInv
    <2>1. q # p /\ lease[q] = "active"
        BY <1>7
    <2> QED BY <1>5, <2>1 DEF Core, LeaseInv, p
<1> QED BY <1>3, <1>8, <1>9, <1>11, <1>12, <1>13, <1>14, <1>15, <1>16 DEF Core

-----------------------------------------------------------------------------
(* The invariant and what follows from it *)

LEMMA StutterInv == ASSUME IInv, UNCHANGED vars PROVE IInv'
<1>1. UNCHANGED <<cluster, events, app, delegate, listed, candidates, flags, queued, occupied,
                  gpu_pods, lock, watch, batch, rerun, faults, urgent>>
    BY Zenon DEF vars
<1>2. /\ Quiet /\ ClusterShape' /\ FlagShape'
    BY <1>1, ClusterKept, FlagsKept DEF IInv, Core, Quiet, cluster, app
<1>3. LoopShape'
    <2>1. rerun' \in BOOLEAN
        BY <1>1, Zenon DEF IInv, Core, LoopShape
    <2> QED BY <1>1, <2>1, LoopShaped DEF IInv, Core, LoopShape
<1>4. Granted' = Granted
    BY <1>1 DEF Granted
<1>5. AtHand' /\ GrantInv' /\ BookedInv' /\ RefInv'
    BY <1>1, <1>4 DEF IInv, Core, AtHand, GrantInv, BookedInv, RefInv, cluster, app
<1>6. EventsInv' /\ GoneInv' /\ OccupiedInv' /\ NewInv'
    BY <1>1, <1>2, QuietFacts, NewKept DEF IInv
<1>7. ListedInv' /\ LeaseInv'
    BY <1>1, <1>2, ListedKept, LeaseKept DEF IInv, app
<1> QED BY <1>1, <1>2, <1>3, <1>5, <1>6, <1>7 DEF IInv, Core

LEMMA NextInv == ASSUME IInv, Next PROVE IInv'
<1>1. Core /\ Step /\ Urgency
    BY Zenon DEF IInv, Next
<1>2. CASE \E p \in Pods : PodStep(p) \/ AppStep(p)
    <2> SUFFICES ASSUME NEW p \in Pods, PodStep(p) \/ AppStep(p) PROVE Core'
        BY <1>1, <1>2, UrgencyFacts DEF IInv
    <2> QED BY <1>1, PodStepInv, AdmitBookedInv, BookingOpensInv, ListInv DEF AppStep
<1>3. CASE Fetch \/ TickBatch
    BY <1>1, <1>3, UrgencyFacts, ListInv, TickBatchInv DEF IInv
<1>4. CASE WatchStep
    <2>1. Core'
        BY <1>1, <1>4, WatchGoneInv, WatchToleratedInv, WatchRouteInv, WatchCandidateInv,
           TeardownFindsInv, TeardownCancelsInv DEF WatchStep
    <2> QED BY <1>1, <2>1, UrgencyFacts DEF IInv
<1>5. CASE BatchStep
    <2>1. Core'
        BY <1>1, <1>5, NextCandidateInv, PreflightInv, SelectedInv, GrantNextInv, CreateLeaseInv,
           AdmitBeginsInv, AdmitReadsInv, AdmitPatchesInv, AdmitEndsInv, RevokeInv, WithholdInv,
           PassEndsInv DEF BatchStep
    <2> QED BY <1>1, <2>1, UrgencyFacts DEF IInv
<1> QED BY <1>1, <1>2, <1>3, <1>4, <1>5, Zenon DEF Step

LEMMA Invariance == Spec => []IInv
BY InitInv, NextInv, StutterInv, PTL DEF Spec

-----------------------------------------------------------------------------
(* The triggers.  A candidate made due while a batch runs is either still to   *)
(* be tried by the pass, or in none of the batch's hands: only candidates held *)
(* or awaiting the scheduler are made due, and the batch clears both of a      *)
(* candidate it takes up.                                                      *)

Early == batch.pc \in {"idle", "next", "read"}

\* The candidates the pass has judged, and all it may yet hold back.
Placed == IF Early THEN batch.ready ELSE Granted
InHand == Placed \cup (IF Early THEN {} ELSE batch.todo \cup {batch.cur})

UrgentInv ==
    /\ urgent \cap cooling = {}
    /\ \A p \in InHand : p \notin urgent \cup held_by_node_fit \cup awaiting_schedule_signal
    /\ batch.pc = "read" => batch.cur \notin urgent \cup held_by_node_fit

\* A candidate is in one place of the pass.
Apart == batch.todo \cap Placed = {} /\ batch.cur \notin batch.todo \cup Placed

FreedInv == watch.pc = "idle" => watch.freed = FALSE

TriggerInv == UrgentInv /\ Apart /\ FreedInv /\ TriggerKept

LEMMA UrgencySplit ==
    ASSUME Urgency
    PROVE  /\ urgent' \subseteq candidates'
           /\ \A q \in urgent' : \/ q \in urgent
                                 \/ /\ Len(events') < Len(events) /\ q \notin cooling'
                                    /\ q \notin candidates \/ q \in cooling
           /\ batch'.pc = "read" => batch'.cur \notin urgent'
<1> DEFINE due == candidates' \ cooling'
           woken == IF Len(events') < Len(events) THEN due \ (candidates \ cooling) ELSE {}
           tried == IF batch'.pc = "read" THEN {batch'.cur} ELSE {}
<1>1. urgent' = ((urgent \cap candidates') \cup woken) \ tried
    BY Zenon DEF Urgency
<1>2. \A q \in woken : /\ Len(events') < Len(events) /\ q \in candidates' /\ q \notin cooling'
                       /\ q \notin candidates \/ q \in cooling
    BY Zenon
<1> HIDE DEF woken
<1>3. batch'.pc = "read" => batch'.cur \in tried
    OBVIOUS
<1> HIDE DEF tried
<1> QED BY <1>1, <1>2, <1>3

LEMMA RestedFacts ==
    ASSUME Rested, FlagShape'
    PROVE  Early' /\ Placed' = {} /\ InHand' = {} /\ Apart' /\ batch'.pc # "read"
<1>1. Early' /\ batch'.pc # "read" /\ batch'.ready = {} /\ batch'.cur = None
    BY DEF Rested, Early
<1>2. Placed' = {} /\ InHand' = {}
    BY <1>1 DEF Placed, InHand
<1>3. None \notin batch'.todo
    BY ConstantFacts DEF Rested, FlagShape
<1> QED BY <1>1, <1>2, <1>3 DEF Apart

\* A pass that starts now tries every due candidate.
LEMMA StartPassTries ==
    ASSUME NEW by, StartPass(by), urgent' \subseteq candidates', urgent' \cap cooling' = {}
    PROVE  TriggerKept'
<1> DEFINE due == candidates' \ cooling'
           todo == due \cup (IF delegate THEN awaiting_capacity' ELSE {})
<1>1. batch' = [NoBatch EXCEPT !.pc = "next", !.by = by, !.due = due, !.todo = todo]
    BY Zenon DEF StartPass
<1>2. urgent' \subseteq todo
    OBVIOUS
<1> HIDE DEF due, todo
<1>3. batch'.pc = "next" /\ batch'.todo = todo
    BY <1>1 DEF NoBatch
<1> QED BY <1>2, <1>3 DEF TriggerKept

LEMMA TriggerTries ==
    ASSUME NEW by, Trigger(by), urgent' \subseteq candidates', urgent' \cap cooling' = {}
    PROVE  TriggerKept'
<1>1. CASE batch.pc = "idle"
    <2>1. StartPass(by)
        BY <1>1, Zenon DEF Trigger
    <2> QED BY <2>1, StartPassTries
<1>2. CASE batch.pc # "idle"
    <2>1. rerun' = TRUE /\ batch' = batch
        BY <1>2, Zenon DEF Trigger
    <2> QED BY <1>2, <2>1 DEF TriggerKept
<1> QED BY <1>1, <1>2

\* A step that leaves the batch where it is, or starts a pass.
LEMMA UrgentKept ==
    ASSUME UrgentInv, Apart, Urgency, FlagShape', batch' = batch \/ (Rested /\ Between),
           cooling' \subseteq cooling, held_by_node_fit' \subseteq held_by_node_fit,
           awaiting_schedule_signal' \subseteq awaiting_schedule_signal,
           \A q \in urgent' \ urgent : q \notin InHand
    PROVE  /\ UrgentInv' /\ Apart' /\ urgent' \cap cooling' = {} /\ urgent' \subseteq candidates'
<1>1. /\ urgent' \subseteq candidates' /\ urgent' \cap cooling' = {}
      /\ batch'.pc = "read" => batch'.cur \notin urgent'
    BY UrgencySplit DEF UrgentInv
<1>2. CASE batch' = batch
    <2>1. Placed' = Placed /\ InHand' = InHand
        BY <1>2 DEF Placed, InHand, Early, Granted
    <2>2. \A p \in InHand : p \notin urgent' \cup held_by_node_fit' \cup awaiting_schedule_signal'
        BY DEF UrgentInv
    <2> QED BY <1>1, <1>2, <2>1, <2>2 DEF UrgentInv, Apart
<1>3. CASE Rested /\ Between
    BY <1>1, <1>3, RestedFacts DEF UrgentInv
<1> QED BY <1>1, <1>2, <1>3

\* Nobody is made due and no trigger is due.
LEMMA QuietTrigger ==
    ASSUME IInv, TriggerInv, Urgency, FlagShape', UNCHANGED <<batch, rerun, watch>>,
           cooling' \subseteq cooling, held_by_node_fit' \subseteq held_by_node_fit,
           awaiting_schedule_signal' \subseteq awaiting_schedule_signal,
           ~ (Len(events') < Len(events))
    PROVE  TriggerInv'
<1>1. urgent' \subseteq urgent
    BY UrgencySplit
<1>2. UrgentInv' /\ Apart'
    BY <1>1, UrgentKept DEF TriggerInv
<1>3. TriggerKept'
    BY <1>1 DEF TriggerInv, TriggerKept
<1>4. FreedInv'
    BY Zenon DEF TriggerInv, FreedInv
<1> QED BY <1>2, <1>3, <1>4 DEF TriggerInv

LEMMA ClusterTrigger ==
    ASSUME IInv, IInv', TriggerInv, Urgency,
           Fetch \/ \E p \in Pods : PodStep(p) \/ AppStep(p)
    PROVE  TriggerInv'
<1>1. /\ UNCHANGED <<batch, rerun, watch, candidates, held_by_node_fit, awaiting_schedule_signal>>
      /\ cooling' = cooling \/ \E p \in Pods : cooling' = cooling \ {p}
      /\ events' = events \/ \E p \in Pods, type \in {"ADDED", "MODIFIED", "DELETED"} : Notify(type, p)
    BY Zenon DEF Fetch, PodStep, AppStep, CreatePod, Rule, Bind, Finish, Delete, BookingOpens,
                 AdmitBooked, LeaseExpires, RetryTimeComes, Controller, flags, app
<1>2. ~ (Len(events') < Len(events))
    <2>1. events \in Seq(Event) /\ Len(events) \in Nat
        BY LenProperties DEF IInv, Core, ClusterShape
    <2>2. CASE events' = events
        BY <2>1, <2>2
    <2>3. CASE \E p \in Pods, type \in {"ADDED", "MODIFIED", "DELETED"} : Notify(type, p)
        <3>1. PICK e : events' = Append(events, e)
            BY <2>3, Zenon DEF Notify
        <3>2. Len(events') = Len(events) + 1
            BY <2>1, <3>1
        <3> QED BY <2>1, <3>2
    <2> QED BY <1>1, <2>2, <2>3
<1>3. FlagShape' /\ cooling' \subseteq cooling
    BY <1>1 DEF IInv, Core
<1> QED BY <1>1, <1>2, <1>3, QuietTrigger

LEMMA TickTrigger ==
    ASSUME IInv, IInv', TriggerInv, Urgency, TickBatch
    PROVE  TriggerInv'
<1>1. /\ UNCHANGED <<events, candidates, flags, watch>> /\ Trigger("tick")
    BY Zenon DEF TickBatch
<1>2. FlagShape' /\ batch \in BatchStates /\ rerun \in BOOLEAN /\ events \in Seq(Event)
    BY Zenon DEF IInv, Core, LoopShape, ClusterShape
<1>3. batch' = batch \/ (Rested /\ Between)
    BY <1>1, <1>2, TriggerFacts
<1>4. ~ (Len(events') < Len(events))
    BY <1>1, <1>2, LenProperties
<1>5. urgent' \subseteq urgent
    BY <1>4, UrgencySplit
<1>6. UrgentInv' /\ Apart' /\ urgent' \cap cooling' = {} /\ urgent' \subseteq candidates'
    BY <1>1, <1>2, <1>3, <1>5, UrgentKept DEF TriggerInv, flags
<1>7. TriggerKept'
    BY <1>1, <1>6, TriggerTries
<1>8. FreedInv'
    BY <1>1, Zenon DEF TriggerInv, FreedInv
<1> QED BY <1>6, <1>7, <1>8 DEF TriggerInv

\* What the watch handles may make due: candidates held or parked, and a new one.
LEMMA HeardTrigger ==
    ASSUME IInv, IInv', TriggerInv, Urgency, WatchReady,
           candidates' \subseteq candidates \cup {Head(events).pod},
           Head(events).pod \in candidates' \ candidates => Head(events).type = "ADDED",
           cooling' \subseteq cooling, held_by_node_fit' \subseteq held_by_node_fit,
           awaiting_schedule_signal' \subseteq awaiting_schedule_signal,
           \A q \in cooling \ cooling' :
              q \in candidates' => q \in held_by_node_fit \cup awaiting_schedule_signal,
           Trigger("watch") \/ NoTrigger,
           \/ Trigger("watch") /\ watch' = watch
           \/ /\ batch' = batch /\ rerun' = rerun
              /\ \/ watch'.freed
                 \/ candidates' \subseteq candidates /\ cooling \cap candidates' \subseteq cooling'
              /\ watch' = watch \/ watch'.pc # "idle"
    PROVE  TriggerInv'
<1> DEFINE p == Head(events).pod
<1>1. FlagShape' /\ batch \in BatchStates /\ rerun \in BOOLEAN /\ FlagShape
    BY Zenon DEF IInv, Core, LoopShape
<1>2. batch' = batch \/ (Rested /\ Between)
    BY <1>1, TriggerFacts
<1>3. \A q \in urgent' \ urgent : q \notin InHand
    <2> SUFFICES ASSUME NEW q \in urgent' \ urgent PROVE q \notin InHand
        OBVIOUS
    <2>1. /\ q \in candidates' /\ q \notin cooling'
          /\ q \notin candidates \/ q \in cooling
        BY UrgencySplit
    <2>2. CASE q \in cooling
        BY <2>1, <2>2 DEF TriggerInv, UrgentInv
    <2>3. CASE q \notin candidates
        <3>1. q = p /\ Head(events).type = "ADDED"
            BY <2>1, <2>3
        <3>2. events \in Seq(Event) /\ events # <<>>
            BY DEF IInv, Core, ClusterShape, WatchReady
        <3>3. 1 \in 1..Len(events) /\ Head(events) = events[1] /\ Head(events) \in Event
            BY <3>2, Tailed
        <3>4. New(p) /\ p \in Pods
            BY <3>1, <3>3 DEF New, Event
        <3>5. q # batch.cur /\ q \notin batch.todo \cup batch.ready
            BY <3>1, <3>4 DEF IInv, Core, NewInv
        <3> QED BY <3>5 DEF InHand, Placed, IInv, Core, GrantInv
    <2> QED BY <2>1, <2>2, <2>3
<1>4. UrgentInv' /\ Apart' /\ urgent' \cap cooling' = {} /\ urgent' \subseteq candidates'
    BY <1>1, <1>2, <1>3, UrgentKept DEF TriggerInv
<1>5. watch.pc = "idle" /\ watch.freed = FALSE
    BY DEF WatchReady, TriggerInv, FreedInv
<1>6. TriggerKept'
    <2>1. CASE Trigger("watch")
        BY <1>4, <2>1, TriggerTries
    <2>2. CASE batch' = batch /\ rerun' = rerun /\ watch'.freed
        BY <2>2 DEF TriggerKept
    <2>3. CASE /\ batch' = batch /\ rerun' = rerun /\ candidates' \subseteq candidates
               /\ cooling \cap candidates' \subseteq cooling'
        <3>1. urgent' \subseteq urgent
            BY <1>4, <2>3, UrgencySplit
        <3>2. \A q \in urgent : batch.pc # "idle" /\ (rerun \/ q \in batch.todo)
            BY <1>5 DEF TriggerInv, TriggerKept
        <3> QED BY <2>3, <3>1, <3>2 DEF TriggerKept
    <2> QED BY <2>1, <2>2, <2>3
<1>7. FreedInv'
    BY <1>5, Zenon DEF TriggerInv, FreedInv
<1> QED BY <1>4, <1>6, <1>7 DEF TriggerInv

\* The candidates a freed GPU wakes.
LEMMA NoteTrigger ==
    ASSUME FlagShape, NEW p, NEW rec, NoteGpuPod(p, rec)
    PROVE  /\ cooling' \subseteq cooling /\ held_by_node_fit' \subseteq held_by_node_fit
           /\ awaiting_schedule_signal' \subseteq awaiting_schedule_signal
           /\ \A q \in cooling \ cooling' : q \in candidates' => q \in held_by_node_fit
           /\ Woken(p, rec) = {} => cooling \cap candidates' \subseteq cooling'
<1> DEFINE woken == Woken(p, rec)
<1>1. SetFlags(cooling \ woken, awaiting_capacity, held_by_node_fit \ woken,
               awaiting_schedule_signal)
    BY Zenon DEF NoteGpuPod
<1>2. woken \subseteq held_by_node_fit
    BY Zenon DEF Woken
<1> HIDE DEF woken
<1>3. /\ cooling' = (cooling \ woken) \cap candidates'
      /\ held_by_node_fit' = (held_by_node_fit \ woken) \cap candidates'
      /\ awaiting_schedule_signal' = awaiting_schedule_signal \cap candidates'
    BY <1>1, Zenon DEF SetFlags
<1>4. woken = {} => cooling \cap candidates' \subseteq cooling'
    BY <1>3
<1> QED BY <1>2, <1>3, <1>4 DEF woken

LEMMA WatchGoneTrigger ==
    ASSUME IInv, IInv', TriggerInv, Urgency, WatchGone
    PROVE  TriggerInv'
<1> DEFINE e == Head(events)
           p == e.pod
           woken == Woken(p, "none")
<1>1. /\ WatchReady /\ candidates' = candidates \ {p} /\ NoteGpuPod(p, "none")
      /\ Trigger("watch") \/ NoTrigger
    BY Zenon DEF WatchGone, Unregister
<1>2. FlagShape
    BY DEF IInv, Core
<1>3. /\ cooling' \subseteq cooling /\ held_by_node_fit' \subseteq held_by_node_fit
      /\ awaiting_schedule_signal' \subseteq awaiting_schedule_signal
      /\ \A q \in cooling \ cooling' : q \in candidates' => q \in held_by_node_fit
      /\ woken = {} => cooling \cap candidates' \subseteq cooling'
    BY <1>1, <1>2, NoteTrigger
<1>4. \/ Trigger("watch") /\ watch' = watch
      \/ /\ batch' = batch /\ rerun' = rerun
         /\ watch'.freed \/ woken = {}
         /\ watch' = watch \/ watch'.pc # "idle"
    <2>1. CASE e.ref = "none"
        <3>1. watch' = watch /\ (woken = {} => NoTrigger) /\ (woken # {} => Trigger("watch"))
            BY <2>1, Zenon DEF WatchGone
        <3> HIDE DEF woken
        <3> QED BY <3>1 DEF NoTrigger
    <2>2. CASE e.ref # "none"
        <3>1. NoTrigger /\ watch' = [pc |-> IF e.ref = "lease" THEN "teardown" ELSE "locking",
                                     pod |-> p, freed |-> woken # {}]
            BY <2>2, Zenon DEF WatchGone
        <3>2. watch'.freed = (woken # {})
            BY <3>1
        <3>3. watch'.pc # "idle"
            BY <3>1
        <3> HIDE DEF woken
        <3>4. watch'.freed \/ woken = {}
            BY <3>2, Zenon
        <3> QED BY <3>1, <3>3, <3>4 DEF NoTrigger
    <2> QED BY <2>1, <2>2
<1> HIDE DEF woken
<1>5. candidates' \subseteq candidates
    BY <1>1
<1> HIDE DEF p
<1> QED BY <1>1, <1>3, <1>4, <1>5, HeardTrigger

LEMMA WatchToleratedTrigger ==
    ASSUME IInv, IInv', TriggerInv, Urgency, WatchTolerated
    PROVE  TriggerInv'
<1> DEFINE e == Head(events)
           p == e.pod
           rec == IF e.node = None THEN "claim" ELSE e.node
           woken == Woken(p, rec)
<1>1. /\ WatchReady /\ candidates' = candidates \ {p} /\ NoteGpuPod(p, rec) /\ watch' = watch
      /\ (woken = {} => NoTrigger) /\ (woken # {} => Trigger("watch"))
    BY Zenon DEF WatchTolerated, Unregister
<1>2. FlagShape
    BY DEF IInv, Core
<1> HIDE DEF rec
<1>3. /\ cooling' \subseteq cooling /\ held_by_node_fit' \subseteq held_by_node_fit
      /\ awaiting_schedule_signal' \subseteq awaiting_schedule_signal
      /\ \A q \in cooling \ cooling' : q \in candidates' => q \in held_by_node_fit
      /\ woken = {} => cooling \cap candidates' \subseteq cooling'
    BY <1>1, <1>2, NoteTrigger
<1> HIDE DEF woken
<1>4. \/ Trigger("watch") /\ watch' = watch
      \/ /\ batch' = batch /\ rerun' = rerun /\ woken = {} /\ watch' = watch /\ NoTrigger
    BY <1>1 DEF NoTrigger
<1>5. candidates' \subseteq candidates
    BY <1>1
<1> HIDE DEF p
<1> QED BY <1>1, <1>3, <1>4, <1>5, HeardTrigger

LEMMA WatchRouteTrigger ==
    ASSUME IInv, IInv', TriggerInv, Urgency, WatchRoute
    PROVE  TriggerInv'
<1>1. /\ WatchReady /\ candidates' = candidates \ {Head(events).pod} /\ KeepFlags /\ NoTrigger
      /\ watch' = watch
    BY Zenon DEF WatchRoute, Unregister
<1>2. /\ cooling' = cooling \cap candidates' /\ held_by_node_fit' \subseteq held_by_node_fit
      /\ awaiting_schedule_signal' \subseteq awaiting_schedule_signal
    BY <1>1 DEF KeepFlags, SetFlags
<1>3. /\ candidates' \subseteq candidates /\ cooling' \subseteq cooling
      /\ cooling \cap candidates' \subseteq cooling'
      /\ \A q \in cooling \ cooling' : q \notin candidates'
      /\ batch' = batch /\ rerun' = rerun
    BY <1>1, <1>2 DEF NoTrigger
<1> QED BY <1>1, <1>2, <1>3, HeardTrigger

LEMMA WatchCandidateTrigger ==
    ASSUME IInv, IInv', TriggerInv, Urgency, WatchCandidate
    PROVE  TriggerInv'
<1> DEFINE e == Head(events)
           p == e.pod
<1>1. WatchReady /\ watch' = watch
    BY Zenon DEF WatchCandidate
<1>2. FlagShape
    BY DEF IInv, Core
<1>3. CASE /\ e.type = "ADDED"
           /\ candidates' = candidates \/ candidates' = candidates \cup {p}
           /\ KeepFlags /\ Trigger("watch")
    <2>1. /\ cooling' = cooling /\ held_by_node_fit' = held_by_node_fit
          /\ awaiting_schedule_signal' = awaiting_schedule_signal
        BY <1>2, <1>3 DEF KeepFlags, SetFlags, FlagShape
    <2> QED BY <1>1, <1>3, <2>1, HeardTrigger
<1>4. CASE /\ p \in awaiting_schedule_signal /\ candidates' = candidates
           /\ SetFlags(cooling \ {p}, awaiting_capacity, held_by_node_fit,
                       awaiting_schedule_signal \ {p})
           /\ Trigger("watch")
    <2>1. /\ cooling' = cooling \ {p} /\ held_by_node_fit' = held_by_node_fit
          /\ awaiting_schedule_signal' \subseteq awaiting_schedule_signal
        BY <1>2, <1>4 DEF SetFlags, FlagShape
    <2> QED BY <1>1, <1>4, <2>1, HeardTrigger
<1>5. CASE UNCHANGED <<candidates, flags>> /\ NoTrigger
    BY <1>1, <1>5, HeardTrigger DEF flags, NoTrigger
<1> QED BY <1>3, <1>4, <1>5, Zenon DEF WatchCandidate

LEMMA TeardownTrigger ==
    ASSUME IInv, IInv', TriggerInv, Urgency, TeardownFinds \/ TeardownCancels
    PROVE  TriggerInv'
<1>1. /\ UNCHANGED <<events, candidates, flags>>
      /\ \/ /\ watch' = [watch EXCEPT !.pc = "cancel"] /\ NoTrigger
         \/ \E released : WatchDone(released)
    BY Zenon DEF TeardownFinds, TeardownCancels, TeardownFrame
<1>2. /\ FlagShape' /\ batch \in BatchStates /\ rerun \in BOOLEAN /\ events \in Seq(Event)
      /\ watch \in WatchStates
    BY Zenon DEF IInv, Core, LoopShape, ClusterShape
<1>3. batch' = batch \/ (Rested /\ Between)
    <2>1. Trigger("watch") \/ NoTrigger
        BY <1>1, Zenon DEF WatchDone
    <2> QED BY <1>2, <2>1, TriggerFacts
<1>4. urgent' \subseteq urgent
    <2>1. ~ (Len(events') < Len(events))
        BY <1>1, <1>2, LenProperties
    <2> QED BY <2>1, UrgencySplit
<1>5. UrgentInv' /\ Apart' /\ urgent' \cap cooling' = {} /\ urgent' \subseteq candidates'
    BY <1>1, <1>2, <1>3, <1>4, UrgentKept DEF TriggerInv, flags
<1>6. CASE watch' = [watch EXCEPT !.pc = "cancel"] /\ NoTrigger
    <2>1. watch'.pc = "cancel" /\ watch'.freed = watch.freed
        BY <1>2, <1>6 DEF WatchStates
    <2>2. TriggerKept'
        BY <1>4, <1>6, <2>1 DEF TriggerInv, TriggerKept, NoTrigger
    <2> QED BY <1>5, <2>1, <2>2 DEF TriggerInv, FreedInv
<1>7. CASE \E released : WatchDone(released)
    <2>1. watch' = WatchAtRest /\ (Trigger("watch") \/ (~ watch.freed /\ NoTrigger))
        BY <1>7, Zenon DEF WatchDone
    <2>2. TriggerKept'
        <3>1. CASE Trigger("watch")
            BY <1>5, <3>1, TriggerTries
        <3>2. CASE ~ watch.freed /\ NoTrigger
            <4>1. \A q \in urgent : batch.pc # "idle" /\ (rerun \/ q \in batch.todo)
                BY <3>2 DEF TriggerInv, TriggerKept
            <4> QED BY <1>4, <3>2, <4>1 DEF TriggerKept, NoTrigger
        <3> QED BY <2>1, <3>1, <3>2
    <2>3. FreedInv'
        BY <2>1 DEF FreedInv, WatchAtRest
    <2> QED BY <1>5, <2>2, <2>3 DEF TriggerInv
<1> QED BY <1>1, <1>6, <1>7

\* A step of the batch that holds candidate x back, or none, and takes up or puts
\* aside candidates it has cleared.
LEMMA BatchTrigger ==
    ASSUME IInv, IInv', TriggerInv, Urgency, ~ (Len(events') < Len(events)),
           watch' = watch, rerun' = rerun, batch.pc # "idle", batch'.pc # "idle",
           NEW x, x \notin urgent, cooling' \subseteq cooling \cup {x},
           \A q \in InHand' : q \notin urgent \cup held_by_node_fit' \cup awaiting_schedule_signal',
           batch'.pc = "read" => batch'.cur \notin held_by_node_fit',
           \A q \in batch.todo \ batch'.todo : q \notin urgent \/ (batch'.pc = "read" /\ q = batch'.cur),
           Apart'
    PROVE  TriggerInv'
<1>1. urgent' \subseteq urgent /\ (batch'.pc = "read" => batch'.cur \notin urgent')
    BY UrgencySplit
<1>2. UrgentInv'
    BY <1>1 DEF TriggerInv, UrgentInv
<1>3. TriggerKept'
    BY <1>1 DEF TriggerInv, TriggerKept
<1>4. FreedInv'
    BY Zenon DEF TriggerInv, FreedInv
<1> QED BY <1>2, <1>3, <1>4 DEF TriggerInv

\* What is common to the steps of the batch but the start of a pass.
LEMMA BatchFrames ==
    ASSUME IInv, BatchStep, ~ PassEnds
    PROVE  ~ (Len(events') < Len(events)) /\ watch' = watch /\ rerun' = rerun
<1>1. /\ watch' = watch /\ rerun' = rerun
      /\ events' = events \/ \E p : Notify("MODIFIED", p)
    BY Zenon DEF BatchStep, NextCandidate, PreflightFails, PreflightRemoves, PreflightHolds,
                 PreflightReady, Selected, GrantNext, CreateLease, AdmitBegins, AdmitReads,
                 AdmitPatches, AdmitEnds, Revoke, Withhold, PreflightFrame, BatchFrame, AppFrame
<1>2. events \in Seq(Event) /\ Len(events) \in Nat
    BY LenProperties DEF IInv, Core, ClusterShape
<1>3. CASE events' = events
    BY <1>1, <1>2, <1>3
<1>4. CASE \E p : Notify("MODIFIED", p)
    <2>1. PICK e : events' = Append(events, e)
        BY <1>4, Zenon DEF Notify
    <2>2. Len(events') = Len(events) + 1
        BY <1>2, <2>1
    <2> QED BY <1>1, <1>2, <2>2
<1> QED BY <1>1, <1>3, <1>4

LEMMA NextCandidateTrigger ==
    ASSUME IInv, IInv', TriggerInv, Urgency, NextCandidate
    PROVE  TriggerInv'
<1> DEFINE p == Oldest(batch.todo)
<1>1. /\ batch.pc = "next" /\ batch.todo # {} /\ candidates' = candidates
      /\ batch' = [batch EXCEPT !.pc = "read", !.cur = p, !.todo = @ \ {p}]
      /\ SetFlags(cooling, awaiting_capacity, held_by_node_fit \ {p}, awaiting_schedule_signal)
    BY Zenon DEF NextCandidate
<1>2. ~ (Len(events') < Len(events)) /\ watch' = watch /\ rerun' = rerun
    <2>1. ~ PassEnds
        BY <1>1 DEF PassEnds
    <2> QED BY <2>1, BatchFrames DEF BatchStep
<1>3. batch \in BatchStates
    BY DEF IInv, Core, LoopShape
<1>4. p \in batch.todo
    <2>1. batch.todo \in SUBSET Pods
        BY <1>3 DEF BatchStates
    <2> QED BY <1>1, <2>1, OldestFacts
<1> HIDE DEF p
<1>5. /\ batch'.pc = "read" /\ batch'.cur = p /\ batch'.todo = batch.todo \ {p}
      /\ batch'.ready = batch.ready
    BY <1>1, <1>3 DEF BatchStates
<1>6. /\ cooling' \subseteq cooling /\ held_by_node_fit' \subseteq held_by_node_fit \ {p}
      /\ awaiting_schedule_signal' \subseteq awaiting_schedule_signal
    BY <1>1 DEF SetFlags
<1>7. Early /\ Early' /\ InHand' = InHand /\ Placed' = Placed /\ Placed = batch.ready
    BY <1>1, <1>5 DEF Early, InHand, Placed
<1>8. Apart'
    BY <1>4, <1>5, <1>7 DEF TriggerInv, Apart
<1>9. \A q \in InHand' : q \notin urgent \cup held_by_node_fit' \cup awaiting_schedule_signal'
    BY <1>6, <1>7 DEF TriggerInv, UrgentInv
<1>10. PICK x : x \notin urgent
    <2>1. urgent \subseteq Pods
        BY DEF IInv, Core, FlagShape
    <2> QED BY <2>1, ConstantFacts
<1> QED BY <1>1, <1>2, <1>5, <1>6, <1>8, <1>9, <1>10, BatchTrigger

LEMMA PreflightTrigger ==
    ASSUME IInv, IInv', TriggerInv, Urgency,
           PreflightFails \/ PreflightRemoves \/ PreflightHolds \/ PreflightReady
    PROVE  TriggerInv'
<1> DEFINE p == batch.cur
<1>1. /\ batch.pc = "read" /\ BatchStep
      /\ \/ batch' = [batch EXCEPT !.pc = "next", !.cur = None]
         \/ /\ batch' = [batch EXCEPT !.pc = "next", !.cur = None, !.ready = @ \cup {p}]
            /\ SetFlags(cooling, awaiting_capacity, held_by_node_fit, awaiting_schedule_signal \ {p})
    BY Zenon DEF PreflightFails, PreflightRemoves, PreflightHolds, PreflightReady, PreflightFrame,
                 Judged, BatchStep
<1>2. ~ (Len(events') < Len(events)) /\ watch' = watch /\ rerun' = rerun
    <2>1. ~ PassEnds
        BY <1>1 DEF PassEnds
    <2> QED BY <1>1, <2>1, BatchFrames
<1>3. /\ batch \in BatchStates /\ p # None
      /\ p \notin urgent \cup held_by_node_fit /\ p \notin batch.todo \cup batch.ready
      /\ \A q \in batch.ready : q \notin urgent \cup held_by_node_fit \cup awaiting_schedule_signal
      /\ batch.todo \cap batch.ready = {} /\ None \notin batch.todo \cup batch.ready
    <2>1. batch \in BatchStates /\ p \in Pods
        BY <1>1 DEF IInv, Core, LoopShape, AtHand
    <2>2. Early /\ Placed = batch.ready /\ InHand = batch.ready
        BY <1>1 DEF Early, Placed, InHand
    <2>3. None \notin batch.todo \cup batch.ready
        BY <2>1, ConstantFacts DEF BatchStates
    <2> QED BY <1>1, <2>1, <2>2, <2>3, ConstantFacts DEF TriggerInv, UrgentInv, Apart
<1>4. \E cool, await, fit, signal :
          /\ SetFlags(cool, await, fit, signal)
          /\ cool \subseteq cooling \cup {p} /\ fit \subseteq held_by_node_fit \cup {p}
          /\ signal \subseteq awaiting_schedule_signal \cup {p}
    <2> HIDE DEF p
    <2>1. /\ cooling \subseteq cooling \cup {p} /\ cooling \cup {p} \subseteq cooling \cup {p}
          /\ held_by_node_fit \subseteq held_by_node_fit \cup {p}
          /\ held_by_node_fit \cup {p} \subseteq held_by_node_fit \cup {p}
          /\ awaiting_schedule_signal \subseteq awaiting_schedule_signal \cup {p}
          /\ awaiting_schedule_signal \cup {p} \subseteq awaiting_schedule_signal \cup {p}
          /\ awaiting_schedule_signal \ {p} \subseteq awaiting_schedule_signal \cup {p}
        OBVIOUS
    <2>2. CASE PreflightFails \/ PreflightRemoves
        BY <2>1, <2>2, Zenon DEF PreflightFails, PreflightRemoves, ReadFailure, Hold, KeepFlags, p
    <2>3. CASE PreflightHolds
        BY <2>1, <2>3, Zenon DEF PreflightHolds, Hold, p
    <2>4. CASE PreflightReady
        BY <2>1, <2>4, Zenon DEF PreflightReady, p
    <2> QED BY <2>2, <2>3, <2>4
<1>5. /\ cooling' \subseteq cooling \cup {p} /\ held_by_node_fit' \subseteq held_by_node_fit \cup {p}
      /\ awaiting_schedule_signal' \subseteq awaiting_schedule_signal \cup {p}
    BY <1>4 DEF SetFlags
<1> HIDE DEF p
<1>6. /\ batch'.pc = "next" /\ batch'.cur = None /\ batch'.todo = batch.todo
      /\ \/ batch'.ready = batch.ready
         \/ /\ batch'.ready = batch.ready \cup {p}
            /\ SetFlags(cooling, awaiting_capacity, held_by_node_fit, awaiting_schedule_signal \ {p})
    <2>1. CASE batch' = [batch EXCEPT !.pc = "next", !.cur = None]
        BY <1>3, <2>1 DEF BatchStates
    <2>2. CASE /\ batch' = [batch EXCEPT !.pc = "next", !.cur = None, !.ready = @ \cup {p}]
               /\ SetFlags(cooling, awaiting_capacity, held_by_node_fit,
                           awaiting_schedule_signal \ {p})
        BY <1>3, <2>2 DEF BatchStates
    <2> QED BY <1>1, <2>1, <2>2
<1>7. Early' /\ InHand' = batch'.ready /\ Placed' = batch'.ready
    BY <1>6 DEF Early, InHand, Placed
<1>8. Apart'
    BY <1>3, <1>6, <1>7 DEF Apart
<1>9. \A q \in InHand' : q \notin urgent \cup held_by_node_fit' \cup awaiting_schedule_signal'
    <2>1. CASE batch'.ready = batch.ready
        BY <1>3, <1>5, <1>7, <2>1
    <2>2. CASE /\ batch'.ready = batch.ready \cup {p}
               /\ SetFlags(cooling, awaiting_capacity, held_by_node_fit,
                           awaiting_schedule_signal \ {p})
        <3>1. /\ held_by_node_fit' \subseteq held_by_node_fit
              /\ awaiting_schedule_signal' \subseteq awaiting_schedule_signal \ {p}
            BY <2>2 DEF SetFlags
        <3> QED BY <1>3, <1>7, <2>2, <3>1
    <2> QED BY <1>6, <2>1, <2>2
<1> QED BY <1>1, <1>2, <1>3, <1>5, <1>6, <1>8, <1>9, BatchTrigger

\* A step of the batch past the judging that holds back at most candidate x, which
\* it has in hand.
LEMMA LateTrigger ==
    ASSUME IInv, IInv', TriggerInv, Urgency, BatchStep, ~ PassEnds, ~ Early, ~ Early',
           Granted' \subseteq Granted, batch'.todo \subseteq batch.todo,
           batch'.cur \in {batch.cur, None} \cup (Granted \ Granted'),
           NEW x \in InHand, cooling' \subseteq cooling \cup {x},
           held_by_node_fit' \subseteq held_by_node_fit \cup ({x} \ InHand'),
           awaiting_schedule_signal' \subseteq awaiting_schedule_signal
    PROVE  TriggerInv'
<1>1. ~ (Len(events') < Len(events)) /\ watch' = watch /\ rerun' = rerun
    BY BatchFrames
<1>2. batch.pc # "idle" /\ batch'.pc # "idle" /\ batch'.pc # "read"
    BY DEF Early
<1>3. /\ InHand = Granted \cup batch.todo \cup {batch.cur} /\ Placed = Granted
      /\ InHand' = Granted' \cup batch'.todo \cup {batch'.cur} /\ Placed' = Granted'
    BY DEF InHand, Placed
<1>4. /\ \A q \in InHand : q \notin urgent \cup held_by_node_fit \cup awaiting_schedule_signal
      /\ batch.todo \cap Granted = {} /\ batch.cur \notin batch.todo \cup Granted
    BY <1>3 DEF TriggerInv, UrgentInv, Apart
<1>5. /\ None \notin urgent \cup held_by_node_fit \cup awaiting_schedule_signal
      /\ None \notin batch'.todo \cup Granted'
    <2>1. batch \in BatchStates /\ batch' \in BatchStates
        BY DEF IInv, Core, LoopShape
    <2>2. Granted' \subseteq Pods
        <3>1. Granted' \subseteq batch'.ready
            BY DEF IInv, Core, GrantInv
        <3> QED BY <2>1, <3>1 DEF BatchStates
    <2>3. urgent \cup held_by_node_fit \cup awaiting_schedule_signal \subseteq Pods
        BY DEF IInv, Core, FlagShape
    <2>4. batch'.todo \subseteq Pods
        BY <2>1 DEF BatchStates
    <2> QED BY <2>2, <2>3, <2>4, ConstantFacts
<1>6. \A q \in InHand' : q \in InHand \cup {None}
    BY <1>3
<1>7. \A q \in InHand' : q \notin urgent \cup held_by_node_fit' \cup awaiting_schedule_signal'
    BY <1>4, <1>5, <1>6
<1>8. Apart'
    BY <1>3, <1>4, <1>5 DEF Apart
<1>9. \A q \in batch.todo \ batch'.todo : q \notin urgent
    BY <1>3, <1>4
<1>10. x \notin urgent
    BY <1>4
<1> QED BY <1>1, <1>2, <1>7, <1>8, <1>9, <1>10, BatchTrigger

LEMMA GrantNextTrigger ==
    ASSUME IInv, IInv', TriggerInv, Urgency, GrantNext
    PROVE  TriggerInv'
<1> DEFINE p == Head(batch.granted)
<1>1. /\ batch.pc = "grant" /\ p \in Granted \ Granted' /\ Granted' \subseteq Granted
      /\ p \in Pods /\ batch'.todo = batch.todo
      /\ \/ /\ batch'.pc = "grant" /\ batch'.cur = None
            /\ \E fit : /\ fit \subseteq held_by_node_fit \cup {p}
                        /\ Hold(p, fit, awaiting_schedule_signal)
         \/ /\ batch'.pc = "create" /\ batch'.cur = p
            /\ UNCHANGED <<candidates, flags>>
    BY GrantNextFacts DEF IInv
<1> HIDE DEF p
<1>2. BatchStep /\ ~ PassEnds
    BY DEF BatchStep, GrantNext, PassEnds
<1>3. ~ Early /\ ~ Early' /\ p \in InHand
    BY <1>1 DEF Early, InHand, Placed
<1>4. CASE /\ batch'.pc = "grant" /\ batch'.cur = None
           /\ \E fit : /\ fit \subseteq held_by_node_fit \cup {p}
                       /\ Hold(p, fit, awaiting_schedule_signal)
    <2>1. p \notin InHand'
        <3>1. p \notin batch.todo
            BY <1>1, <1>3 DEF TriggerInv, Apart, Placed
        <3> QED BY <1>1, <1>3, <1>4, <3>1, ConstantFacts DEF InHand, Placed
    <2>2. /\ cooling' \subseteq cooling \cup {p} /\ held_by_node_fit' \subseteq held_by_node_fit \cup {p}
          /\ awaiting_schedule_signal' \subseteq awaiting_schedule_signal
        BY <1>4 DEF Hold, SetFlags
    <2> QED BY <1>1, <1>2, <1>3, <1>4, <2>1, <2>2, LateTrigger
<1>5. CASE /\ batch'.pc = "create" /\ batch'.cur = p
           /\ UNCHANGED <<candidates, flags>>
    <2>1. /\ cooling' \subseteq cooling \cup {p} /\ held_by_node_fit' \subseteq held_by_node_fit
          /\ awaiting_schedule_signal' \subseteq awaiting_schedule_signal
        BY <1>5 DEF flags
    <2> QED BY <1>1, <1>2, <1>3, <1>5, <2>1, LateTrigger
<1> QED BY <1>1, <1>4, <1>5

LEMMA WithholdTrigger ==
    ASSUME IInv, IInv', TriggerInv, Urgency, Withhold
    PROVE  TriggerInv'
<1> DEFINE p == Oldest(batch.todo)
<1>1. /\ batch.pc = "grant" /\ batch.todo # {}
      /\ batch' = [batch EXCEPT !.todo = @ \ {p}]
      /\ \E await : SetFlags(cooling \cup {p}, await, held_by_node_fit, awaiting_schedule_signal)
    BY Zenon DEF Withhold
<1>2. BatchStep /\ ~ PassEnds
    BY <1>1 DEF BatchStep, PassEnds
<1>3. batch \in BatchStates
    BY DEF IInv, Core, LoopShape
<1>4. p \in batch.todo
    <2>1. batch.todo \in SUBSET Pods
        BY <1>3 DEF BatchStates
    <2> QED BY <1>1, <2>1, OldestFacts
<1> HIDE DEF p
<1>5. /\ batch'.pc = "grant" /\ batch'.cur = batch.cur /\ batch'.todo = batch.todo \ {p}
      /\ batch'.granted = batch.granted
    BY <1>1, <1>3 DEF BatchStates
<1>6. ~ Early /\ ~ Early' /\ p \in InHand
    BY <1>1, <1>4, <1>5 DEF Early, InHand
<1>7. Granted' = Granted
    BY <1>5, SameGrants
<1>8. /\ cooling' \subseteq cooling \cup {p} /\ held_by_node_fit' \subseteq held_by_node_fit
      /\ awaiting_schedule_signal' \subseteq awaiting_schedule_signal
    BY <1>1 DEF SetFlags
<1> QED BY <1>2, <1>5, <1>6, <1>7, <1>8, LateTrigger

LEMMA LeaseTrigger ==
    ASSUME IInv, IInv', TriggerInv, Urgency,
           \/ CreateLease \/ AdmitBegins \/ AdmitReads \/ AdmitPatches \/ AdmitEnds \/ Revoke
    PROVE  TriggerInv'
<1> DEFINE p == batch.cur
<1>1. /\ BatchStep
      /\ batch.pc \in {"create", "lock", "admit", "patch", "applied", "revoke", "revoke_retry"}
    BY Zenon DEF BatchStep, CreateLease, AdmitBegins, AdmitReads, AdmitPatches, AdmitEnds, Revoke
<1>2. ~ PassEnds
    BY <1>1 DEF PassEnds
<1>3. \/ \E pc \in {"lock", "admit", "patch", "applied", "revoke", "revoke_retry"} :
             batch' = [batch EXCEPT !.pc = pc]
      \/ NextGrant
    <2> DEFINE PCs == {"lock", "admit", "patch", "applied", "revoke", "revoke_retry"}
               Goes(pc) == batch' = [batch EXCEPT !.pc = pc]
    <2>1. /\ "lock" \in PCs /\ "admit" \in PCs /\ "patch" \in PCs /\ "applied" \in PCs
          /\ "revoke" \in PCs /\ "revoke_retry" \in PCs
        OBVIOUS
    <2>2. \/ Goes("lock") \/ Goes("admit") \/ Goes("patch") \/ Goes("applied") \/ Goes("revoke")
          \/ Goes("revoke_retry") \/ NextGrant
        BY Zenon DEF CreateLease, AdmitBegins, AdmitReads, AdmitPatches, AdmitEnds, Revoke,
                     AttemptTrue, AttemptEnds
    <2> QED BY <2>1, <2>2
<1>4. \/ UNCHANGED <<candidates, flags>>
      \/ \E cool, await : /\ cool \subseteq cooling \cup {p}
                          /\ SetFlags(cool, await, held_by_node_fit, awaiting_schedule_signal)
    <2>1. cooling \subseteq cooling \cup {p} /\ cooling \cup {p} \subseteq cooling \cup {p}
        OBVIOUS
    <2>2. CASE CreateLease
        BY <2>1, <2>2, Zenon DEF CreateLease, Hold
    <2>3. CASE AdmitBegins
        BY <2>3, Zenon DEF AdmitBegins
    <2>4. CASE AdmitReads \/ AdmitPatches \/ AdmitEnds
        BY <2>1, <2>4, Zenon DEF AdmitReads, AdmitPatches, AdmitEnds, AttemptTrue, AttemptEnds, KeepFlags
    <2>5. CASE Revoke
        BY <2>1, <2>5, Zenon DEF Revoke, KeepFlags
    <2> QED BY <2>2, <2>3, <2>4, <2>5
<1>5. batch \in BatchStates
    BY DEF IInv, Core, LoopShape
<1>6. /\ batch'.pc \in {"lock", "admit", "patch", "applied", "revoke", "revoke_retry", "grant"}
      /\ batch'.cur \in {p, None} /\ batch'.todo = batch.todo /\ batch'.granted = batch.granted
    BY <1>3, <1>5 DEF BatchStates, NextGrant
<1> HIDE DEF p
<1>7. ~ Early /\ ~ Early' /\ p \in InHand
    BY <1>1, <1>6 DEF Early, InHand, p
<1>8. Granted' = Granted
    BY <1>6, SameGrants
<1>9. /\ cooling' \subseteq cooling \cup {p} /\ held_by_node_fit' \subseteq held_by_node_fit
      /\ awaiting_schedule_signal' \subseteq awaiting_schedule_signal
    BY <1>4 DEF SetFlags, flags
<1>10. /\ Granted' \subseteq Granted /\ batch'.todo \subseteq batch.todo
       /\ batch'.cur \in {batch.cur, None} \cup (Granted \ Granted')
    BY <1>6, <1>8 DEF p
<1> QED BY <1>1, <1>2, <1>7, <1>9, <1>10, LateTrigger

LEMMA SelectedTrigger ==
    ASSUME IInv, IInv', TriggerInv, Urgency, Selected
    PROVE  TriggerInv'
<1>1. /\ batch.pc = "next" /\ batch.todo = {} /\ batch.ready # {}
      /\ UNCHANGED <<candidates, flags>>
    BY Zenon DEF Selected
<1>2. ~ (Len(events') < Len(events)) /\ watch' = watch /\ rerun' = rerun
    <2>1. BatchStep /\ ~ PassEnds
        BY <1>1 DEF PassEnds, BatchStep
    <2> QED BY <2>1, BatchFrames
<1>3. /\ batch \in BatchStates /\ batch.cur = None /\ batch.ready \in SUBSET Pods
      /\ batch.ready \cap batch.due \in SUBSET Pods
    <2>1. batch \in BatchStates /\ batch.cur = None
        BY <1>1 DEF IInv, Core, AtHand, LoopShape
    <2> QED BY <2>1 DEF BatchStates
<1>4. PICK s : \/ s \in MapGranted(batch.ready)
                  /\ batch' = [batch EXCEPT !.pc = "grant", !.granted = s, !.answered = TRUE,
                                            !.todo = @ \cup (batch.ready \ ToSet(s))]
               \/ s \in InCreationOrder(batch.ready \cap batch.due)
                  /\ batch' = [batch EXCEPT !.pc = "grant", !.granted = s]
    BY Zenon DEF Selected, Fallback
<1>5. s \in Seq(Pods) /\ \A i \in 1..Len(s) : s[i] \in batch.ready
    <2>1. CASE s \in MapGranted(batch.ready)
        BY <1>3, <2>1, SelectionFacts
    <2>2. CASE s \in InCreationOrder(batch.ready \cap batch.due)
        <3>1. s \in Seq(Pods) /\ \A i \in 1..Len(s) : s[i] \in batch.ready \cap batch.due
            BY <1>3, <2>2, SelectionFacts
        <3> QED BY <3>1
    <2> QED BY <1>4, <2>1, <2>2
<1> DEFINE left == batch.ready \ ToSet(s)
<1>6. /\ batch'.pc = "grant" /\ batch'.granted = s /\ batch'.cur = None
      /\ batch'.todo = {} \/ batch'.todo = left
    <2>1. CASE batch' = [batch EXCEPT !.pc = "grant", !.granted = s, !.answered = TRUE,
                                      !.todo = @ \cup left]
        <3> HIDE DEF left
        <3>1. /\ batch'.pc = "grant" /\ batch'.granted = s /\ batch'.cur = None
              /\ batch'.todo = batch.todo \cup left
            BY <1>3, <2>1 DEF BatchStates
        <3> QED BY <1>1, <3>1
    <2>2. CASE batch' = [batch EXCEPT !.pc = "grant", !.granted = s]
        BY <1>1, <1>3, <2>2 DEF BatchStates
    <2> QED BY <1>4, <2>1, <2>2
<1>7. Granted' = ToSet(s) /\ Granted' \subseteq batch.ready
    <2>1. Granted' = {s[i] : i \in 1..Len(s)}
        BY <1>6 DEF Granted
    <2>2. ToSet(s) = {s[i] : i \in 1..Len(s)}
        BY <1>5 DEF ToSet
    <2> QED BY <1>5, <2>1, <2>2
<1>8. left \subseteq batch.ready /\ left \cap Granted' = {}
    BY <1>7
<1> HIDE DEF left
<1>9. Placed' = Granted' /\ InHand' \subseteq batch.ready \cup {None}
    BY <1>6, <1>7, <1>8 DEF Placed, InHand, Early
<1>10. None \notin batch.ready \cup urgent \cup held_by_node_fit \cup awaiting_schedule_signal
    <2>1. urgent \cup held_by_node_fit \cup awaiting_schedule_signal \subseteq Pods
        BY DEF IInv, Core, FlagShape
    <2> QED BY <1>3, <2>1, ConstantFacts
<1>11. Apart'
    BY <1>3, <1>6, <1>7, <1>8, <1>9, <1>10 DEF Apart
<1>12. \A q \in batch.ready : q \notin urgent \cup held_by_node_fit \cup awaiting_schedule_signal
    BY <1>1 DEF TriggerInv, UrgentInv, InHand, Placed, Early
<1>13. /\ cooling' = cooling /\ held_by_node_fit' = held_by_node_fit
       /\ awaiting_schedule_signal' = awaiting_schedule_signal
    BY <1>1 DEF flags
<1>14. \A q \in InHand' : q \notin urgent \cup held_by_node_fit' \cup awaiting_schedule_signal'
    BY <1>9, <1>10, <1>12, <1>13
<1>15. None \notin urgent /\ cooling' \subseteq cooling \cup {None}
    BY <1>10, <1>13
<1>16. /\ batch.pc # "idle" /\ batch'.pc # "idle" /\ batch'.pc # "read"
       /\ \A q \in batch.todo \ batch'.todo : q \notin urgent
    BY <1>1, <1>6
<1> QED BY <1>2, <1>11, <1>14, <1>15, <1>16, BatchTrigger

LEMMA PassEndsTrigger ==
    ASSUME IInv, IInv', TriggerInv, Urgency, PassEnds
    PROVE  TriggerInv'
<1>1. /\ batch.pc \in {"grant", "next"} /\ batch.todo = {} /\ EndPass
      /\ UNCHANGED <<events, candidates, flags, watch>>
    BY Zenon DEF PassEnds, BatchFrame, AppFrame
<1>2. /\ FlagShape' /\ batch \in BatchStates /\ rerun \in BOOLEAN /\ events \in Seq(Event)
    BY Zenon DEF IInv, Core, LoopShape, ClusterShape
<1>3. Rested /\ Between
    BY <1>1, <1>2, EndPassFacts DEF Between
<1>4. ~ (Len(events') < Len(events))
    BY <1>1, <1>2, LenProperties
<1>5. urgent' \subseteq urgent
    BY <1>4, UrgencySplit
<1>6. UrgentInv' /\ Apart' /\ urgent' \cap cooling' = {} /\ urgent' \subseteq candidates'
    BY <1>1, <1>2, <1>3, <1>5, UrgentKept DEF TriggerInv, flags
<1>7. TriggerKept'
    <2>1. CASE rerun
        <3>1. StartPass(batch.by)
            BY <1>1, <2>1, Zenon DEF EndPass
        <3> QED BY <1>6, <3>1, StartPassTries
    <2>2. CASE ~ rerun
        BY <1>1, <1>5, <2>2 DEF TriggerInv, TriggerKept
    <2> QED BY <2>1, <2>2
<1>8. FreedInv'
    BY <1>1, Zenon DEF TriggerInv, FreedInv
<1> QED BY <1>6, <1>7, <1>8 DEF TriggerInv

LEMMA InitTrigger == Init => TriggerInv
<1> SUFFICES ASSUME Init PROVE TriggerInv
    OBVIOUS
<1>1. /\ urgent = {} /\ cooling = {} /\ held_by_node_fit = {} /\ awaiting_schedule_signal = {}
      /\ batch = NoBatch /\ watch = WatchAtRest
    BY DEF Init
<1>2. /\ batch.pc = "idle" /\ batch.ready = {} /\ batch.todo = {} /\ watch.freed = FALSE
    BY <1>1 DEF NoBatch, WatchAtRest
<1>3. Placed = {} /\ InHand = {}
    BY <1>2 DEF Placed, InHand, Early
<1> QED BY <1>1, <1>2, <1>3 DEF TriggerInv, UrgentInv, Apart, FreedInv, TriggerKept

LEMMA StutterTrigger == ASSUME TriggerInv, UNCHANGED vars PROVE TriggerInv'
<1>1. /\ UNCHANGED <<candidates, flags, watch, batch, rerun, urgent>>
    BY Zenon DEF vars
<1>2. InHand' = InHand /\ Placed' = Placed
    BY <1>1 DEF InHand, Placed, Early, Granted
<1>3. UrgentInv' /\ Apart'
    BY <1>1, <1>2 DEF TriggerInv, UrgentInv, Apart, flags
<1>4. TriggerKept'
    BY <1>1 DEF TriggerInv, TriggerKept
<1>5. FreedInv'
    BY <1>1, Zenon DEF TriggerInv, FreedInv
<1> QED BY <1>3, <1>4, <1>5 DEF TriggerInv

LEMMA NextTrigger == ASSUME IInv, TriggerInv, Next PROVE TriggerInv'
<1>1. IInv' /\ Step /\ Urgency
    BY NextInv, Zenon DEF Next
<1>2. CASE Fetch \/ \E p \in Pods : PodStep(p) \/ AppStep(p)
    BY <1>1, <1>2, ClusterTrigger
<1>3. CASE TickBatch
    BY <1>1, <1>3, TickTrigger
<1>4. CASE WatchStep
    BY <1>1, <1>4, WatchGoneTrigger, WatchToleratedTrigger, WatchRouteTrigger,
       WatchCandidateTrigger, TeardownTrigger DEF WatchStep
<1>5. CASE BatchStep
    BY <1>1, <1>5, NextCandidateTrigger, PreflightTrigger, SelectedTrigger, GrantNextTrigger,
       LeaseTrigger, WithholdTrigger, PassEndsTrigger DEF BatchStep
<1> QED BY <1>1, <1>2, <1>3, <1>4, <1>5, Zenon DEF Step

LEMMA TriggerInvariance == Spec => [](IInv /\ TriggerInv)
BY InitInv, NextInv, StutterInv, InitTrigger, NextTrigger, StutterTrigger, PTL DEF Spec

-----------------------------------------------------------------------------
(* The theorems *)

\* Every variable keeps its kind and no flag outlives its candidate, whatever
\* the watch, the batch, the teardown and the users interleave to.
THEOREM TypeCorrect == Spec => []TypeOK
BY Invariance, TypeFacts, PTL

\* A create is asked of the app only for a candidate its answer named among those
\* offered, or that was due when the app gave none.
THEOREM OnlyOfferedAsked == Spec => []CreatesOffered
<1>1. IInv => CreatesOffered
    BY DEF IInv, Core, GrantInv, CreatesOffered
<1> QED BY <1>1, Invariance, PTL

\* No active lease is forgotten: while no call fails and no booking takes its pod,
\* the pod has it, the batch holds it, or the watch is about to give it back,
\* however the pod's events and the batch's awaits interleave.
THEOREM LeasesAccounted == Spec => []LeaseAccounted
<1>1. IInv => LeaseAccounted
    <2> SUFFICES ASSUME IInv, NEW p \in Pods \ BestEffort, lease[p] = "active", faults = 0,
                        p \notin booked
                 PROVE  \/ ref[p] = "lease" /\ phase[p] \in {"pending", "bound"}
                        \/ batch.cur = p /\ batch.pc # "create"
                        \/ watch.pod = p
                        \/ \E i \in 1..Len(events) : PodGoing(events[i], p)
        BY DEF LeaseAccounted
    <2>1. batch.pc \in Holding => batch.pc # "create"
        BY DEF Holding
    <2> QED BY <2>1 DEF IInv, Core, LeaseInv
<1> QED BY <1>1, Invariance, PTL

\* A candidate the watch registered or woke is still to be tried, by the running
\* pass or by the one that trails it, whatever the batch had passed by when the
\* trigger came.
THEOREM TriggersKept == Spec => []TriggerKept
<1>1. TriggerInv => TriggerKept
    BY DEF TriggerInv
<1> QED BY <1>1, TriggerInvariance, PTL

=============================================================================
