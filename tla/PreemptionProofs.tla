-------------------------- MODULE PreemptionProofs --------------------------
(* Proofs about Preemption. *)
EXTENDS Preemption, FiniteSetTheorems, WellFoundedInduction, TLAPS

(***************************************************************************)
(* The inductive invariant.  The four properties look at the end of a      *)
(* sweep; the invariant says what each of its phases hands on to the next: *)
(* the list is true of the pods nobody moved behind its back, what is to   *)
(* be deleted is past its guarantee under the list kept while the lock is  *)
(* held (so it needs Exclusive: no refresh, grant or tick comes between),  *)
(* and a mark that was pruned is behind every boundary in scope.           *)
(*                                                                         *)
(* Shape is what the other parts need of the values; Kinds, at the end,    *)
(* adds the bounds, by which TypeOK follows.                               *)
(***************************************************************************)

Refs == Reservations \cup {None}
LockPcs == {"merge", "adopt", "plan", "kill", "drain"}

LoopStates ==
    [pc : {"idle", "pods", "nodes", "rebuild", "lock", "retry"} \cup LockPcs, at : Nat,
     view : [Pods -> Refs], resident : SUBSET Pods, plan : [Pods -> Bookings \cup {None}],
     lease : Leases \cup {None}, todo : SUBSET Leases]

\* Of the capacity, no part of IInv needs that it is a number: Kinds has that.
SweepStates(c) ==
    [bounds : SUBSET Nat, ahead : SUBSET Nat, due : BOOLEAN, capacity : {c},
     counted : SUBSET Pods, doomed : SUBSET Pods, kills : SUBSET Pods,
     want : [Pods -> {"none", "given", "elapsed"}]]

Shape ==
    /\ clock \in Nat
    /\ row \in [Reservations -> {"absent", "active", "cancelled"}]
    /\ pod \in [Pods -> {"absent", "waiting", "running", "leaving", "gone"}]
    /\ ref \in [Pods -> Refs] /\ warn \in [Pods -> {"none", "given", "elapsed"}]
    /\ listed \subseteq Reservations /\ pending \subseteq Leases
    /\ loop \in [Loops -> LoopStates] /\ sweep \in SweepStates(sweep.capacity)

\* Two loops never hold the lock at once; each keeps to its own steps.
Exclusive ==
    /\ loop["sweep"].pc # "drain" /\ loop["tick"].pc \notin {"plan", "kill"}
    /\ ~ (At("sweep", LockPcs) /\ At("tick", LockPcs))

\* A mark that was pruned is of a boundary no sweep will have in scope again.
MarksInv ==
    /\ judged \subseteq Nat \X {"A", "B"} /\ fired \subseteq judged
    /\ loop["sweep"].at <= clock
    /\ \A m \in judged \ fired : m[1] <= loop["sweep"].at - Lead
    /\ \A b \in sweep.bounds : b > loop["sweep"].at - Lead

\* The rows in the app, and what refers to them.
RowsInv ==
    /\ \A r \in Bookings : row[r] = "active"
    /\ \A r \in Reservations : row[r] = "active" => r \in listed
    /\ \A p \in Pods : ref[p] # None => row[ref[p]] # "absent"

\* A loop in the state x works on leases of pods it has listed, one at a time.
Sound(x) ==
    /\ x.lease # None => x.pc = "merge"
    /\ \A p \in Pods :
          /\ x.view[p] # None => row[x.view[p]] # "absent"
          /\ x.plan[p] # None /\ x.pc \in {"merge", "adopt"} => x.view[p] # None
          /\ x.plan[p] # None /\ x.pc = "merge" => x.view[p] \in Leases

LoopInv(w) == Sound(loop[w])

MergedInv ==
    /\ merged \subseteq Leases
    /\ \A l \in merged : /\ row[l] # "absent"
                         /\ row[l] = "active" => l \in pending \/ \E w \in Loops : loop[w].lease = l

\* The list of a sweep is true of the pods nobody has moved behind its back.
ViewInv ==
    At("sweep", {"nodes", "merge", "adopt", "plan", "kill"}) =>
        \A p \in Pods : loop["sweep"].view[p] # None =>
            pod[p] # "absent" /\ (p \notin moved => loop["sweep"].view[p] = ref[p])

\* The pods to be deleted: past their guarantee, and warned.
KillsInv ==
    /\ ~ At("sweep", {"plan", "kill"}) => sweep.kills = {}
    /\ sweep.bounds \subseteq sweep.ahead
    /\ \A p \in sweep.kills :
          /\ loop["sweep"].view[p] # None
          /\ Over(loop["sweep"].view[p], loop["sweep"].at, loop["sweep"].at)
          /\ sweep.ahead = {} => warn[p] = "elapsed"

IInv ==
    /\ Shape /\ Exclusive /\ MarksInv /\ RowsInv /\ MergedInv /\ ViewInv /\ KillsInv
    /\ \A w \in Loops : LoopInv(w)
-----------------------------------------------------------------------------
LEMMA ConstantFacts ==
    /\ Lead \in Nat /\ None \notin Reservations \cup Pods /\ Bookings \cap Leases = {}
    /\ Start \in [Reservations -> Nat]
    /\ Bookings \subseteq Reservations /\ Leases \subseteq Reservations
BY ConstantsAssumption DEF Reservations

\* What is to be deleted depends on the sweep, its loop, the list and the warnings.
LEMMA KillsStay ==
    ASSUME KillsInv, UNCHANGED <<sweep, listed, warn>>, loop'["sweep"] = loop["sweep"]
    PROVE  KillsInv'
<1>1. \A p \in sweep.kills : Over(loop["sweep"].view[p], loop["sweep"].at, loop["sweep"].at)'
    BY DEF KillsInv, Over, Chainable
<1> QED BY <1>1 DEF KillsInv, At

LEMMA InitInv == Init => IInv
<1> SUFFICES ASSUME Init PROVE IInv
    OBVIOUS
<1>1. NoPlan \in [Pods -> {None}] /\ \A p \in Pods : NoPlan[p] = None
    BY DEF NoPlan
<1>2. AtRest \in LoopStates /\ AtRest.pc = "idle" /\ AtRest.lease = None /\ AtRest.at = 0
      /\ AtRest.view = NoPlan /\ AtRest.plan = NoPlan
    BY <1>1 DEF AtRest, LoopStates, Refs
<1>3. SweepAtRest \in SweepStates(SweepAtRest.capacity) /\ SweepAtRest.kills = {}
      /\ SweepAtRest.bounds = {} /\ SweepAtRest.ahead = {}
    BY DEF SweepAtRest, SweepStates
<1>4. \A w \in Loops : loop[w] = AtRest
    BY DEF Init
<1>5. Shape
    BY <1>1, <1>2, <1>3, ConstantFacts DEF Init, Shape, Refs
<1>6. Exclusive /\ ViewInv /\ KillsInv
    BY <1>2, <1>3, <1>4 DEF Init, Exclusive, ViewInv, KillsInv, At, LockPcs, Loops
<1>7. MarksInv
    BY <1>2, <1>3, <1>4, ConstantFacts DEF Init, MarksInv, Loops
<1>8. RowsInv /\ MergedInv
    BY <1>1, ConstantFacts DEF Init, RowsInv, MergedInv
<1>9. \A w \in Loops : LoopInv(w)
    BY <1>1, <1>2, <1>4 DEF LoopInv, Sound
<1> QED BY <1>5, <1>6, <1>7, <1>8, <1>9 DEF IInv

-----------------------------------------------------------------------------
(* The cluster, the clock and the list *)

\* Nothing an invariant speaks of changes but what the lemma names.
LEMMA PassesInv == ASSUME IInv, Passes PROVE IInv'
<1> USE DEF IInv
<1>1. UNCHANGED <<row, pod, ref, warn, listed, loop, sweep, fired, pending, moved, judged, merged>>
      /\ clock' = clock + 1
    BY DEF Passes, cluster, marks, history
<1>2. Shape'
    BY <1>1 DEF Shape
<1>3. MarksInv'
    BY <1>1 DEF Shape, MarksInv, LoopStates, Loops
<1>4. KillsInv' /\ ViewInv' /\ Exclusive'
    BY <1>1 DEF KillsInv, ViewInv, Exclusive, At, Over, Chainable
<1> QED BY <1>1, <1>2, <1>3, <1>4 DEF RowsInv, MergedInv, LoopInv, Sound

LEMMA RefreshInv == ASSUME IInv, Refresh PROVE IInv'
<1> USE DEF IInv
<1>1. UNCHANGED <<clock, row, pod, ref, warn, loop, sweep, fired, pending, moved, judged, merged>>
      /\ listed' = {r \in Reservations : row[r] = "active"}
    BY DEF Refresh, cluster, marks, history
<1>2. sweep.kills = {}
    BY DEF Refresh, Locked, At, KillsInv
<1>3. Shape' /\ MarksInv'
    BY <1>1 DEF Shape, MarksInv
<1>4. KillsInv' /\ ViewInv' /\ Exclusive'
    BY <1>1, <1>2 DEF KillsInv, ViewInv, Exclusive, At
<1> QED BY <1>1, <1>3, <1>4 DEF RowsInv, MergedInv, LoopInv, Sound

\* A lease is granted only while nobody holds the lock.
LEMMA AdmitInv ==
    ASSUME IInv, NEW p \in Pods, NEW r \in Reservations, Admit(p, r) PROVE IInv'
<1> USE DEF IInv
<1>1. /\ UNCHANGED <<clock, warn, loop, sweep, fired, pending, moved, judged, merged>>
      /\ pod' = [pod EXCEPT ![p] = "waiting"] /\ ref' = [ref EXCEPT ![p] = r]
      /\ pod[p] = "absent"
    BY DEF Admit, marks, history
<1>2. \/ /\ r \in Bookings /\ UNCHANGED <<row, listed>>
      \/ /\ r \in Leases /\ row[r] = "absent" /\ sweep.kills = {}
         /\ row' = [row EXCEPT ![r] = "active"] /\ listed' = listed \cup {r}
    BY DEF Admit, Chainable, Locked, At, KillsInv
<1>3. /\ row' \in [Reservations -> {"absent", "active", "cancelled"}]
      /\ row'[r] = "active" /\ \A s \in Reservations : s # r => row'[s] = row[s]
    BY <1>2 DEF Shape, RowsInv
<1>4. Shape'
    BY <1>1, <1>2, <1>3 DEF Shape, Refs
<1>5. MarksInv' /\ Exclusive'
    BY <1>1 DEF MarksInv, Exclusive, At
<1>6. RowsInv'
    BY <1>1, <1>2, <1>3, ConstantFacts DEF RowsInv, Shape, Refs
<1>7. \A w \in Loops : LoopInv(w)'
    BY <1>1, <1>3 DEF LoopInv, Sound, Shape, LoopStates, Refs
<1>8. MergedInv'
    BY <1>1, <1>2, <1>3, ConstantFacts DEF MergedInv, RowsInv
<1>9. ViewInv'
    BY <1>1 DEF ViewInv, At, Shape
<1>10. KillsInv'
    BY <1>1, <1>2 DEF KillsInv, At, Over, Chainable
<1> QED BY <1>4, <1>5, <1>6, <1>7, <1>8, <1>9, <1>10

\* A pod goes on to another phase of its life.
LEMMA PodInv ==
    ASSUME IInv, NEW p \in Pods, NEW ph \in {"running", "leaving", "gone"},
           pod' \in {pod, [pod EXCEPT ![p] = ph]},
           UNCHANGED <<clock, row, ref, warn, listed, loop, sweep, fired, pending, moved, judged,
                       merged>>
    PROVE  IInv'
<1> USE DEF IInv
<1>1. /\ pod' \in [Pods -> {"absent", "waiting", "running", "leaving", "gone"}]
      /\ \A q \in Pods : pod[q] # "absent" => pod'[q] # "absent"
    BY DEF Shape
<1>2. Shape' /\ MarksInv' /\ Exclusive'
    BY <1>1 DEF Shape, MarksInv, Exclusive, At
<1>3. KillsInv' /\ ViewInv'
    BY <1>1 DEF KillsInv, ViewInv, At, Over, Chainable
<1> QED BY <1>2, <1>3 DEF RowsInv, MergedInv, LoopInv, Sound

LEMMA BindInv == ASSUME IInv, NEW p \in Pods, Bind(p) PROVE IInv'
BY PodInv DEF Bind, marks, history

LEMMA PodEndsInv == ASSUME IInv, NEW p \in Pods, PodEnds(p) PROVE IInv'
BY PodInv DEF PodEnds, marks, history

LEMMA NothingInv ==
    ASSUME IInv, UNCHANGED <<clock, row, pod, ref, warn, listed, loop, sweep, fired, pending,
                             moved, judged, merged>>
    PROVE  IInv'
<1> USE DEF IInv
<1>1. KillsInv' /\ ViewInv' /\ Exclusive'
    BY DEF KillsInv, ViewInv, Exclusive, At, Over, Chainable
<1> QED BY <1>1 DEF Shape, MarksInv, RowsInv, MergedInv, LoopInv, Sound

LEMMA WatchGoneInv == ASSUME IInv, NEW p \in Pods, WatchGone(p) PROVE IInv'
BY NothingInv DEF WatchGone, cluster, marks, history

LEMMA NodeTurnsInv == ASSUME IInv, NEW n \in Nodes, NodeTurns(n) PROVE IInv'
BY NothingInv DEF NodeTurns, marks, history

LEMMA NoticeElapsesInv == ASSUME IInv, NEW p \in Pods, NoticeElapses(p) PROVE IInv'
<1> USE DEF IInv
<1>1. /\ UNCHANGED <<clock, row, pod, ref, listed, loop, sweep, fired, pending, moved, judged,
                     merged>>
      /\ warn' = [warn EXCEPT ![p] = "elapsed"]
    BY DEF NoticeElapses, marks, history
<1>2. sweep.kills = {}
    BY DEF NoticeElapses, At, KillsInv
<1>3. Shape' /\ MarksInv' /\ Exclusive'
    BY <1>1 DEF Shape, MarksInv, Exclusive, At
<1>4. KillsInv' /\ ViewInv'
    BY <1>1, <1>2 DEF KillsInv, ViewInv, At
<1> QED BY <1>1, <1>3, <1>4 DEF RowsInv, MergedInv, LoopInv, Sound

-----------------------------------------------------------------------------
(* The tick *)

Others ==
    UNCHANGED <<clock, row, pod, ref, warn, listed, sweep, fired, pending, moved, judged, merged>>

\* The tick goes on to the state x; it holds the lock only if the sweep does not.
LEMMA TickGoesOn ==
    ASSUME IInv, NEW x \in LoopStates, loop' = [loop EXCEPT !["tick"] = x], Others, Sound(x),
           x.lease = loop["tick"].lease, x.pc \notin {"plan", "kill"},
           x.pc \in LockPcs => loop["sweep"].pc \notin LockPcs
    PROVE  IInv'
<1> USE DEF IInv
<1>1. loop' \in [Loops -> LoopStates] /\ loop'["tick"] = x /\ loop'["sweep"] = loop["sweep"]
    BY DEF Shape, Loops
<1>2. Shape' /\ MarksInv' /\ Exclusive' /\ RowsInv'
    BY <1>1 DEF Others, Shape, MarksInv, Exclusive, RowsInv, At
<1>3. ViewInv'
    BY <1>1 DEF Others, ViewInv, At
<1>4. KillsInv'
    <2>1. UNCHANGED <<sweep, listed, warn>>
        BY DEF Others
    <2> QED BY <1>1, <2>1, KillsStay
<1>5. \A w \in Loops : LoopInv(w)'
    BY <1>1 DEF Others, LoopInv, Sound, Loops
<1>6. MergedInv'
    <2>1. \A w \in Loops : loop'[w].lease = loop[w].lease
        BY <1>1 DEF Loops
    <2> QED BY <2>1 DEF Others, MergedInv
<1> QED BY <1>2, <1>3, <1>4, <1>5, <1>6

LEMMA NoPlanFacts ==
    /\ NoPlan \in [Pods -> {None}] /\ \A p \in Pods : NoPlan[p] = None
    /\ AtRest \in LoopStates /\ AtRest.lease = None /\ AtRest.pc = "idle" /\ AtRest.at = 0
    /\ AtRest.view = NoPlan /\ AtRest.plan = NoPlan
BY DEF NoPlan, AtRest, LoopStates, Refs

LEMMA TickStartsInv == ASSUME IInv, TickStarts PROVE IInv'
<1> DEFINE x == [AtRest EXCEPT !.pc = "pods", !.at = clock]
<1>1. x \in LoopStates /\ x.pc = "pods" /\ x.lease = None /\ x.view = NoPlan /\ x.plan = NoPlan
    BY NoPlanFacts DEF LoopStates, IInv, Shape
<1>4. Sound(x)
    BY <1>1, NoPlanFacts DEF Sound
<1>2. loop["tick"].lease = None
    BY DEF TickStarts, At, IInv, LoopInv, Sound, Loops
<1>3. loop' = [loop EXCEPT !["tick"] = x]
      /\ Others
    BY DEF TickStarts, cluster, marks, history, Others
<1> HIDE DEF x
<1> QED BY <1>1, <1>2, <1>3, <1>4, TickGoesOn DEF LockPcs

\* A list: what it shows of a pod is what the pod refers to.
LEMMA ListingFacts ==
    ASSUME IInv, NEW w \in Loops, NEW pc \in {"rebuild", "nodes"}, Listing(w, pc)
    PROVE  \E x \in LoopStates :
              /\ loop' = [loop EXCEPT ![w] = x]
              /\ x.pc = pc /\ x.lease = loop[w].lease /\ x.plan = loop[w].plan
              /\ x.at = loop[w].at
              /\ \A p \in Pods : x.view[p] # None => x.view[p] = ref[p] /\ pod[p] # "absent"
<1> DEFINE x == [loop[w] EXCEPT
        !.pc = pc,
        !.view = [p \in Pods |-> IF pod[p] \in {"waiting", "running", "leaving"}
                                    THEN ref[p] ELSE None],
        !.resident = {p \in Pods : pod[p] = "running"}]
<1>1. loop[w] \in LoopStates /\ ref \in [Pods -> Refs]
    BY DEF IInv, Shape
<1>2. [p \in Pods |-> IF pod[p] \in {"waiting", "running", "leaving"} THEN ref[p] ELSE None]
          \in [Pods -> Refs]
    BY <1>1 DEF Refs
<1>3. x \in LoopStates
    BY <1>1, <1>2 DEF LoopStates
<1>4. loop' = [loop EXCEPT ![w] = x]
    BY DEF Listing, IInv, Shape
<1>5. x.pc = pc /\ x.lease = loop[w].lease /\ x.plan = loop[w].plan /\ x.at = loop[w].at
    BY <1>1 DEF LoopStates
<1>6. \A p \in Pods : x.view[p] # None => x.view[p] = ref[p] /\ pod[p] # "absent"
    BY <1>1 DEF LoopStates
<1> HIDE DEF x
<1> QED BY <1>3, <1>4, <1>5, <1>6

LEMMA GoesFacts ==
    ASSUME IInv, NEW w \in Loops, NEW pc \in {"retry", "lock", "plan", "idle", "kill"}, Goes(w, pc)
    PROVE  \E x \in LoopStates :
              /\ loop' = [loop EXCEPT ![w] = x]
              /\ x.pc = pc /\ x.lease = loop[w].lease /\ x.plan = loop[w].plan
              /\ x.at = loop[w].at /\ x.view = loop[w].view /\ x.resident = loop[w].resident
<1> DEFINE x == [loop[w] EXCEPT !.pc = pc]
<1>1. loop[w] \in LoopStates
    BY DEF IInv, Shape
<1>2. x \in LoopStates /\ loop' = [loop EXCEPT ![w] = x]
    BY <1>1 DEF LoopStates, LockPcs, Goes
<1>3. /\ x.pc = pc /\ x.lease = loop[w].lease /\ x.plan = loop[w].plan
      /\ x.at = loop[w].at /\ x.view = loop[w].view /\ x.resident = loop[w].resident
    BY <1>1 DEF LoopStates
<1> HIDE DEF x
<1> QED BY <1>2, <1>3

LEMMA TickListsInv == ASSUME IInv, TickLists PROVE IInv'
<1>1. /\ Others
      /\ loop["tick"].lease = None
    BY DEF TickLists, cluster, marks, history, Others, At, IInv, LoopInv, Sound, Loops
<1>2. CASE Listing("tick", "rebuild")
    <2>1. PICK x \in LoopStates :
              /\ loop' = [loop EXCEPT !["tick"] = x]
              /\ x.pc = "rebuild" /\ x.lease = loop["tick"].lease
              /\ \A p \in Pods : x.view[p] # None => x.view[p] = ref[p]
        BY <1>2, ListingFacts DEF Loops
    <2>2. Sound(x)
        BY <1>1, <2>1 DEF IInv, RowsInv, Sound
    <2> QED BY <1>1, <2>1, <2>2, TickGoesOn DEF LockPcs
<1>3. CASE Goes("tick", "retry")
    <2>1. PICK x \in LoopStates :
              /\ loop' = [loop EXCEPT !["tick"] = x]
              /\ x.pc = "retry" /\ x.lease = loop["tick"].lease /\ x.view = loop["tick"].view
        BY <1>3, GoesFacts DEF Loops
    <2>2. Sound(x)
        BY <1>1, <2>1 DEF IInv, LoopInv, Sound, Loops
    <2> QED BY <1>1, <2>1, <2>2, TickGoesOn DEF LockPcs
<1> QED BY <1>2, <1>3 DEF TickLists

LEMMA TickRebuildsInv == ASSUME IInv, TickRebuilds PROVE IInv'
<1>1. /\ Others
      /\ loop["tick"].lease = None
    BY DEF TickRebuilds, cluster, marks, history, Others, At, IInv, LoopInv, Sound, Loops
<1>2. PICK x \in LoopStates :
          /\ loop' = [loop EXCEPT !["tick"] = x]
          /\ x.pc = "lock" /\ x.lease = loop["tick"].lease /\ x.view = loop["tick"].view
    BY GoesFacts DEF TickRebuilds, Loops
<1>3. Sound(x)
    BY <1>1, <1>2 DEF IInv, LoopInv, Sound, Loops
<1> QED BY <1>1, <1>2, <1>3, TickGoesOn DEF LockPcs

\* What the plans assign: of a merge, pods listed under a lease.
LEMMA PlanFacts ==
    ASSUME IInv, NEW w \in Loops
    PROVE  /\ \A a \in MergePlans(loop[w]) :
                 /\ a \in [Pods -> Bookings \cup {None}]
                 /\ \A p \in Pods : a[p] # None => loop[w].view[p] \in Leases
           /\ \A a \in AdoptPlans(loop[w]) :
                 /\ a \in [Pods -> Bookings \cup {None}]
                 /\ \A p \in Pods : a[p] # None => loop[w].view[p] # None
BY DEF MergePlans, AdoptPlans, Assignments

LEMMA TakesLockFacts ==
    ASSUME IInv, NEW w \in Loops, TakesLock(w), loop[w].lease = None
    PROVE  \E x \in LoopStates :
              /\ loop' = [loop EXCEPT ![w] = x]
              /\ x.pc = "merge" /\ x.lease = None /\ x.view = loop[w].view /\ x.at = loop[w].at
              /\ \A p \in Pods : x.plan[p] # None => x.view[p] \in Leases
<1>1. PICK a \in MergePlans(loop[w]) :
          loop' = [loop EXCEPT ![w].pc = "merge", ![w].plan = a]
    BY DEF TakesLock
<1> DEFINE x == [loop[w] EXCEPT !.pc = "merge", !.plan = a]
<1>2. loop[w] \in LoopStates
    BY DEF IInv, Shape
<1>3. /\ a \in [Pods -> Bookings \cup {None}]
      /\ \A p \in Pods : a[p] # None => loop[w].view[p] \in Leases
    BY PlanFacts
<1>4. x \in LoopStates /\ loop' = [loop EXCEPT ![w] = x]
    BY <1>1, <1>2, <1>3 DEF LoopStates, LockPcs, IInv, Shape
<1>5. /\ x.pc = "merge" /\ x.lease = None /\ x.view = loop[w].view /\ x.at = loop[w].at
      /\ x.plan = a
    BY <1>2 DEF LoopStates
<1> HIDE DEF x
<1> QED BY <1>3, <1>4, <1>5

LEMMA TickLocksInv == ASSUME IInv, TickLocks PROVE IInv'
<1>1. Others /\ loop["tick"].lease = None
    BY DEF TickLocks, cluster, marks, history, Others, At, IInv, LoopInv, Sound, Loops
<1>2. loop["sweep"].pc \notin LockPcs
    BY DEF TickLocks, TakesLock, Locked, At, LockPcs, IInv, Exclusive
<1>3. PICK x \in LoopStates :
          /\ loop' = [loop EXCEPT !["tick"] = x]
          /\ x.pc = "merge" /\ x.lease = None /\ x.view = loop["tick"].view
          /\ \A p \in Pods : x.plan[p] # None => x.view[p] \in Leases
    BY <1>1, TakesLockFacts DEF TickLocks, Loops
<1>4. Sound(x)
    BY <1>3, ConstantFacts DEF IInv, LoopInv, Sound, Loops
<1> QED BY <1>1, <1>2, <1>3, <1>4, TickGoesOn

LEMMA TickRetriesInv == ASSUME IInv, TickRetries PROVE IInv'
<1>1. Others /\ loop["tick"].lease = None
    BY DEF TickRetries, cluster, marks, history, Others, At, IInv, LoopInv, Sound, Loops
<1>2. CASE pending = {}
    <2>1. loop' = [loop EXCEPT !["tick"] = AtRest]
        BY <1>2 DEF TickRetries
    <2>2. Sound(AtRest)
        BY NoPlanFacts DEF Sound
    <2> QED BY <1>1, <2>1, <2>2, NoPlanFacts, TickGoesOn DEF LockPcs
<1>3. CASE pending # {}
    <2> DEFINE x == [loop["tick"] EXCEPT !.pc = "drain", !.todo = pending]
    <2>1. loop["tick"] \in LoopStates /\ pending \subseteq Leases
        BY DEF IInv, Shape, Loops
    <2>2. loop' = [loop EXCEPT !["tick"] = x]
        BY <1>3 DEF TickRetries, IInv, Shape
    <2>3. /\ x \in LoopStates /\ x.pc = "drain" /\ x.lease = loop["tick"].lease
          /\ x.view = loop["tick"].view
        BY <2>1 DEF LoopStates, LockPcs
    <2>4. loop["sweep"].pc \notin LockPcs
        BY <1>3 DEF TickRetries, Locked, At, LockPcs, IInv, Exclusive
    <2> HIDE DEF x
    <2>5. Sound(x)
        BY <1>1, <2>3 DEF IInv, LoopInv, Sound, Loops
    <2> QED BY <1>1, <2>2, <2>3, <2>4, <2>5, TickGoesOn
<1> QED BY <1>2, <1>3

-----------------------------------------------------------------------------
(* The sweep, as far as it does what the tick does *)

\* The sweep goes on to the state x, with nothing to delete yet.
LEMMA SweepGoesOn ==
    ASSUME IInv, NEW x \in LoopStates, loop' = [loop EXCEPT !["sweep"] = x], Others, Sound(x),
           x.lease = loop["sweep"].lease, x.at = loop["sweep"].at, x.pc # "drain",
           x.pc \in LockPcs => loop["tick"].pc \notin LockPcs, sweep.kills = {},
           x.pc \in {"nodes", "merge", "adopt", "plan", "kill"} =>
               \A p \in Pods : x.view[p] # None =>
                   pod[p] # "absent" /\ (p \notin moved => x.view[p] = ref[p])
    PROVE  IInv'
<1> USE DEF IInv
<1>1. loop' \in [Loops -> LoopStates] /\ loop'["sweep"] = x /\ loop'["tick"] = loop["tick"]
    BY DEF Shape, Loops
<1>2. Shape' /\ Exclusive' /\ RowsInv'
    BY <1>1 DEF Others, Shape, Exclusive, RowsInv, At
<1>3. MarksInv'
    BY <1>1 DEF Others, MarksInv
<1>4. ViewInv'
    BY <1>1 DEF Others, ViewInv, At
<1>5. KillsInv'
    BY <1>1 DEF Others, KillsInv
<1>6. \A w \in Loops : LoopInv(w)'
    BY <1>1 DEF Others, LoopInv, Sound, Loops
<1>7. MergedInv'
    <2>1. \A w \in Loops : loop'[w].lease = loop[w].lease
        BY <1>1 DEF Loops
    <2> QED BY <2>1 DEF Others, MergedInv
<1> QED BY <1>2, <1>3, <1>4, <1>5, <1>6, <1>7

LEMMA SweepListsPodsInv == ASSUME IInv, SweepListsPods PROVE IInv'
<1>1. Others /\ loop["sweep"].lease = None /\ sweep.kills = {}
    BY DEF SweepListsPods, cluster, marks, history, Others, At, IInv, LoopInv, Sound, Loops, KillsInv
<1>2. PICK x \in LoopStates :
          /\ loop' = [loop EXCEPT !["sweep"] = x]
          /\ x.pc = "nodes" /\ x.lease = loop["sweep"].lease /\ x.at = loop["sweep"].at
          /\ \A p \in Pods : x.view[p] # None => x.view[p] = ref[p] /\ pod[p] # "absent"
    BY ListingFacts DEF SweepListsPods, Loops
<1>3. Sound(x)
    BY <1>1, <1>2 DEF IInv, RowsInv, Sound
<1> QED BY <1>1, <1>2, <1>3, SweepGoesOn DEF LockPcs

\* The merges are done: the adoptions are planned.
LEMMA MergesDoneInv == ASSUME IInv, NEW w \in Loops, MergesDone(w) PROVE IInv'
<1>1. Others /\ loop[w].pc = "merge" /\ loop[w].lease = None
    BY DEF MergesDone, cluster, marks, history, Others, At
<1>2. PICK a \in AdoptPlans(loop[w]) :
          loop' = [loop EXCEPT ![w].pc = "adopt", ![w].plan = a]
    BY DEF MergesDone
<1> DEFINE x == [loop[w] EXCEPT !.pc = "adopt", !.plan = a]
<1>3. loop[w] \in LoopStates
    BY DEF IInv, Shape
<1>4. /\ a \in [Pods -> Bookings \cup {None}]
      /\ \A p \in Pods : a[p] # None => loop[w].view[p] # None
    BY PlanFacts
<1>5. x \in LoopStates /\ loop' = [loop EXCEPT ![w] = x]
    BY <1>2, <1>3, <1>4 DEF LoopStates, LockPcs, IInv, Shape
<1>6. /\ x.pc = "adopt" /\ x.lease = loop[w].lease /\ x.view = loop[w].view /\ x.at = loop[w].at
      /\ x.plan = a
    BY <1>3 DEF LoopStates
<1> HIDE DEF x
<1>7. Sound(x)
    BY <1>1, <1>4, <1>6 DEF IInv, LoopInv, Sound
<1>8. CASE w = "tick"
    <2>1. loop["sweep"].pc \notin LockPcs
        BY <1>1, <1>8 DEF IInv, Exclusive, At, LockPcs
    <2> QED BY <1>1, <1>5, <1>6, <1>7, <1>8, <2>1, TickGoesOn
<1>9. CASE w = "sweep"
    <2>1. loop["tick"].pc \notin LockPcs /\ sweep.kills = {}
        BY <1>1, <1>9 DEF IInv, Exclusive, KillsInv, At, LockPcs
    <2>2. \A p \in Pods : x.view[p] # None =>
              pod[p] # "absent" /\ (p \notin moved => x.view[p] = ref[p])
        BY <1>1, <1>6, <1>9 DEF IInv, ViewInv, At
    <2> QED BY <1>1, <1>5, <1>6, <1>7, <1>9, <2>1, <2>2, SweepGoesOn
<1> QED BY <1>8, <1>9 DEF Loops

LEMMA AdoptionsDoneInv == ASSUME IInv, NEW w \in Loops, AdoptionsDone(w) PROVE IInv'
<1>1. Others /\ loop[w].pc = "adopt" /\ loop[w].lease = None
    BY DEF AdoptionsDone, cluster, marks, history, Others, At, IInv, LoopInv, Sound
<1>2. CASE w = "tick"
    <2> DEFINE x == [AtRest EXCEPT !.pc = "retry"]
    <2>1. loop' = [loop EXCEPT !["tick"] = x]
        BY <1>2 DEF AdoptionsDone
    <2>2. x \in LoopStates /\ x.pc = "retry" /\ x.lease = None /\ x.view = NoPlan
        BY NoPlanFacts DEF LoopStates
    <2> HIDE DEF x
    <2>3. Sound(x)
        BY <2>2, NoPlanFacts DEF Sound
    <2> QED BY <1>1, <1>2, <2>1, <2>2, <2>3, TickGoesOn DEF LockPcs
<1>3. CASE w = "sweep"
    <2>1. PICK x \in LoopStates :
              /\ loop' = [loop EXCEPT !["sweep"] = x]
              /\ x.pc = "plan" /\ x.lease = loop["sweep"].lease /\ x.at = loop["sweep"].at
              /\ x.view = loop["sweep"].view
        BY <1>3, GoesFacts DEF AdoptionsDone, Loops
    <2>2. loop["tick"].pc \notin LockPcs /\ sweep.kills = {}
        BY <1>1, <1>3 DEF IInv, Exclusive, KillsInv, At, LockPcs
    <2>3. \A p \in Pods : x.view[p] # None =>
              pod[p] # "absent" /\ (p \notin moved => x.view[p] = ref[p])
        BY <1>1, <1>3, <2>1 DEF IInv, ViewInv, At
    <2>4. Sound(x)
        BY <1>1, <1>3, <2>1 DEF IInv, LoopInv, Sound
    <2> QED BY <1>1, <1>3, <2>1, <2>2, <2>3, <2>4, SweepGoesOn
<1> QED BY <1>2, <1>3 DEF Loops

-----------------------------------------------------------------------------
(* Re-links and cancels, in either loop *)

\* The loop w re-links p, which its plan had: to x, as far as the loop goes.
RelinkedTo(w, p, x) ==
    /\ loop' = [loop EXCEPT ![w] = x] /\ x \in LoopStates
    /\ x.pc = loop[w].pc /\ x.at = loop[w].at
    /\ x.plan[p] = None /\ \A q \in Pods \ {p} : x.plan[q] = loop[w].plan[q]
    /\ \A q \in Pods \ {p} : x.view[q] = loop[w].view[q]
    /\ UNCHANGED <<clock, row, pod, warn, listed, sweep, fired, pending, judged>>

\* A re-link that the loop knows of.
LEMMA RelinksOK ==
    ASSUME IInv, NEW w \in Loops, NEW p \in Pods, Relinks(w, p)
    PROVE  /\ loop[w].plan[p] \in Bookings /\ loop[w].plan[p] # None /\ loop[w].lease = None
           /\ loop[w].pc \in {"merge", "adopt"} /\ loop[w].view[p] # None
           /\ loop[w].view[p] \in Refs /\ row[loop[w].view[p]] # "absent"
           /\ loop[w].pc = "merge" => loop[w].view[p] \in Leases
           /\ \E x : /\ RelinkedTo(w, p, x)
                     /\ \/ /\ x.view[p] = loop[w].plan[p] /\ ref' = [ref EXCEPT ![p] = x.view[p]]
                           /\ x.lease = IF loop[w].pc = "merge" THEN loop[w].view[p] ELSE None
                           /\ merged' = IF loop[w].pc = "merge" THEN merged \cup {loop[w].view[p]}
                                        ELSE merged
                           /\ moved' = IF w = "tick" /\ ~ At("sweep", {"idle", "pods"})
                                       THEN moved \cup {p} ELSE moved
                        \/ /\ x.view[p] = loop[w].view[p] /\ x.lease = None /\ merged' = merged
                           /\ ref' \in {ref, [ref EXCEPT ![p] = loop[w].plan[p]]}
                           /\ IF ref' = ref THEN moved' = moved ELSE moved' = moved \cup {p}
<1> DEFINE r == loop[w].plan[p]
           done == [loop[w] EXCEPT !.plan[p] = None]
           told == [done EXCEPT !.view = Reviewed(w, p, r),
                                !.lease = IF At(w, {"merge"}) THEN done.view[p] ELSE None]
<1>1. loop[w] \in LoopStates
    BY DEF IInv, Shape
<1>2. /\ loop[w].plan \in [Pods -> Bookings \cup {None}] /\ loop[w].view \in [Pods -> Refs]
      /\ loop[w].lease = None /\ loop[w].pc \in {"merge", "adopt"} /\ r # None
    BY <1>1 DEF Relinks, Planned, At, LoopStates
<1>3. r \in Bookings /\ loop[w].view[p] # None /\ loop[w].view[p] \in Refs
      /\ row[loop[w].view[p]] # "absent" /\ (loop[w].pc = "merge" => loop[w].view[p] \in Leases)
    BY <1>2 DEF IInv, LoopInv, Sound
<1>4. /\ done \in LoopStates /\ done.pc = loop[w].pc /\ done.at = loop[w].at
      /\ done.plan[p] = None /\ \A q \in Pods \ {p} : done.plan[q] = loop[w].plan[q]
      /\ done.view = loop[w].view /\ done.lease = None
    BY <1>1, <1>2 DEF LoopStates
<1>5. Reviewed(w, p, r) \in [Pods -> Refs] /\ Reviewed(w, p, r)[p] = r
      /\ \A q \in Pods \ {p} : Reviewed(w, p, r)[q] = loop[w].view[q]
    BY <1>2, <1>3 DEF Reviewed, Refs, Reservations
<1>6. (IF At(w, {"merge"}) THEN done.view[p] ELSE None) \in Leases \cup {None}
    BY <1>3, <1>4 DEF At
<1> HIDE DEF done
<1>7. /\ told \in LoopStates /\ told.pc = loop[w].pc /\ told.at = loop[w].at
      /\ told.plan = done.plan /\ told.view = Reviewed(w, p, r)
      /\ told.lease = IF At(w, {"merge"}) THEN done.view[p] ELSE None
    BY <1>4, <1>5, <1>6 DEF LoopStates
<1>8. UNCHANGED <<clock, row, pod, warn, listed, sweep, fired, pending, judged>>
    BY DEF Relinks, marks
<1> DEFINE Told == /\ ref' = [ref EXCEPT ![p] = r] /\ loop' = [loop EXCEPT ![w] = told]
                   /\ moved' = IF w = "tick" /\ ~ At("sweep", {"idle", "pods"})
                               THEN moved \cup {p} ELSE moved
                   /\ merged' = IF At(w, {"merge"}) THEN merged \cup {loop[w].view[p]} ELSE merged
           Done == /\ loop' = [loop EXCEPT ![w] = done] /\ merged' = merged
                   /\ ref' \in {ref, [ref EXCEPT ![p] = r]}
                   /\ IF ref' = ref THEN moved' = moved ELSE moved' = moved \cup {p}
<1>9. Told \/ Done
    BY DEF Relinks, done
<1> HIDE DEF told
<1>10. CASE Told
    <2>1. RelinkedTo(w, p, told)
        BY <1>4, <1>5, <1>7, <1>8, <1>10 DEF RelinkedTo
    <2>2. /\ told.view[p] = r /\ ref' = [ref EXCEPT ![p] = told.view[p]]
          /\ told.lease = IF loop[w].pc = "merge" THEN loop[w].view[p] ELSE None
          /\ merged' = IF loop[w].pc = "merge" THEN merged \cup {loop[w].view[p]} ELSE merged
          /\ moved' = IF w = "tick" /\ ~ At("sweep", {"idle", "pods"})
                      THEN moved \cup {p} ELSE moved
        BY <1>4, <1>5, <1>7, <1>10 DEF At
    <2> QED BY <1>2, <1>3, <2>1, <2>2
<1>11. CASE Done
    <2>1. RelinkedTo(w, p, done)
        BY <1>4, <1>8, <1>11 DEF RelinkedTo
    <2> QED BY <1>2, <1>3, <1>4, <1>11, <2>1
<1> QED BY <1>9, <1>10, <1>11

LEMMA RelinksInv == ASSUME IInv, NEW w \in Loops, NEW p \in Pods, Relinks(w, p) PROVE IInv'
<1> USE DEF IInv
<1> DEFINE r == loop[w].plan[p]
           v == loop[w].view[p]
<1>1. /\ r \in Bookings /\ r # None /\ loop[w].lease = None
      /\ loop[w].pc \in {"merge", "adopt"} /\ v # None /\ v \in Refs /\ row[v] # "absent"
      /\ loop[w].pc = "merge" => v \in Leases
    BY RelinksOK
<1>2. PICK x : /\ RelinkedTo(w, p, x)
               /\ \/ /\ x.view[p] = r /\ ref' = [ref EXCEPT ![p] = r]
                     /\ x.lease = IF loop[w].pc = "merge" THEN v ELSE None
                     /\ merged' = IF loop[w].pc = "merge" THEN merged \cup {v} ELSE merged
                     /\ moved' = IF w = "tick" /\ ~ At("sweep", {"idle", "pods"})
                                 THEN moved \cup {p} ELSE moved
                  \/ /\ x.view[p] = v /\ x.lease = None /\ merged' = merged
                     /\ ref' \in {ref, [ref EXCEPT ![p] = r]}
                     /\ IF ref' = ref THEN moved' = moved ELSE moved' = moved \cup {p}
    BY RelinksOK
<1> HIDE DEF r, v
<1>3. /\ loop' \in [Loops -> LoopStates] /\ loop'[w] = x
      /\ \A u \in Loops : u # w => loop'[u] = loop[u]
      /\ UNCHANGED <<clock, row, pod, warn, listed, sweep, fired, pending, judged>>
    BY <1>2 DEF RelinkedTo, Shape
<1>4. /\ x.pc = loop[w].pc /\ x.at = loop[w].at
      /\ x.plan[p] = None /\ \A q \in Pods \ {p} : x.plan[q] = loop[w].plan[q]
      /\ \A q \in Pods \ {p} : x.view[q] = loop[w].view[q]
    BY <1>2 DEF RelinkedTo
<1>5. /\ ref' \in [Pods -> Refs] /\ \A q \in Pods : ref'[q] \in {ref[q], r}
      /\ \A q \in Pods \ {p} : ref'[q] = ref[q]
    BY <1>1, <1>2 DEF Shape, Refs, Reservations
<1>6. /\ \A u \in Loops : loop'[u].pc = loop[u].pc /\ loop'[u].at = loop[u].at
      /\ row[r] = "active"
    BY <1>1, <1>3, <1>4 DEF RowsInv
<1>7. Shape' /\ Exclusive' /\ MarksInv'
    BY <1>3, <1>5, <1>6 DEF Shape, Exclusive, MarksInv, At, Loops
<1>8. RowsInv'
    BY <1>3, <1>5, <1>6 DEF RowsInv
<1>9. \A u \in Loops : LoopInv(u)'
    <2>1. Sound(x)
        BY <1>1, <1>2, <1>4, <1>6, ConstantFacts DEF LoopInv, Sound
    <2> QED BY <1>3, <2>1 DEF LoopInv, Sound
<1>10. MergedInv'
    <2>1. \A l \in merged : (\E u \in Loops : loop[u].lease = l) => \E u \in Loops : loop'[u].lease = l
        BY <1>1, <1>3, ConstantFacts DEF MergedInv
    <2>2. merged' \subseteq merged \cup {v} /\ (v \in merged' \ merged => v \in Leases /\ loop'[w].lease = v)
        BY <1>1, <1>2, <1>3
    <2> QED BY <1>1, <1>3, <2>1, <2>2 DEF MergedInv
<1>11. ViewInv'
    <2>1. CASE w = "sweep"
        <3>1. At("sweep", {"nodes", "merge", "adopt", "plan", "kill"})
            BY <1>1, <2>1 DEF At
        <3>2. \A q \in Pods \ {p} : loop["sweep"].view[q] # None =>
                  pod[q] # "absent" /\ (q \notin moved => loop["sweep"].view[q] = ref[q])
            BY <3>1 DEF ViewInv
        <3>3. pod[p] # "absent" /\ (p \notin moved => v = ref[p])
            BY <1>1, <2>1, <3>1 DEF ViewInv, v
        <3>4. moved \subseteq moved' /\ (p \notin moved' => x.view[p] = ref'[p])
            BY <1>2, <1>5, <2>1, <3>3 DEF Shape
        <3> QED BY <1>3, <1>4, <1>5, <2>1, <3>2, <3>3, <3>4 DEF ViewInv
    <2>2. CASE w = "tick"
        <3>1. loop'["sweep"] = loop["sweep"] /\ moved \subseteq moved'
            BY <1>2, <1>3, <2>2 DEF Loops
        <3>2. At("sweep", {"nodes", "merge", "adopt", "plan", "kill"}) => p \in moved' \/ ref' = ref
            BY <1>2, <2>2 DEF At
        <3> QED BY <1>3, <1>5, <3>1, <3>2 DEF ViewInv, At
    <2> QED BY <2>1, <2>2 DEF Loops
<1>12. KillsInv'
    <2>1. CASE w = "sweep"
        BY <1>1, <1>3, <2>1 DEF KillsInv, At
    <2>2. CASE w = "tick"
        BY <1>3, <2>2, KillsStay DEF Loops
    <2> QED BY <2>1, <2>2 DEF Loops
<1> QED BY <1>7, <1>8, <1>9, <1>10, <1>11, <1>12

\* A lease cancelled, no longer listed, or kept to be cancelled.
LEMMA CancelFacts ==
    ASSUME IInv, NEW l \in Leases, CancelLease(l)
    PROVE  /\ row' \in [Reservations -> {"absent", "active", "cancelled"}]
           /\ listed' \subseteq Reservations /\ pending' \subseteq Leases
           /\ \A r \in Reservations : /\ row'[r] \in {row[r], "cancelled"}
                                      /\ r # l => row'[r] = row[r]
                                      /\ row'[r] = "active" => r \in listed'
           /\ \A k \in pending : k # l => k \in pending'
           /\ row'[l] = "active" => l \in pending'
<1> USE DEF IInv
<1>1. CASE l \notin listed /\ pending' = pending \ {l} /\ UNCHANGED <<row, listed>>
    BY <1>1, ConstantFacts DEF Shape, RowsInv
<1>2. CASE /\ row' = [row EXCEPT ![l] = "cancelled"]
           /\ listed' = listed \ {l} /\ pending' = pending \ {l}
    BY <1>2, ConstantFacts DEF Shape, RowsInv
<1>3. CASE /\ row' \in {row, [row EXCEPT ![l] = "cancelled"]}
           /\ pending' = pending \cup {l} /\ listed' = listed
    BY <1>3, ConstantFacts DEF Shape, RowsInv
<1> QED BY <1>1, <1>2, <1>3 DEF CancelLease, Settled, Parked

\* A loop that cancels holds the lock, and no sweep has anything to delete then.
LEMMA CancelInv ==
    ASSUME IInv, NEW w \in Loops, NEW l \in Leases, CancelLease(l), NEW x \in LoopStates,
           loop' = [loop EXCEPT ![w] = x], Sound(x), x.lease = None,
           loop[w].lease \in {l, None}, loop[w].pc \in LockPcs \ {"plan", "kill"},
           x.pc \in {loop[w].pc, "idle"},
           w = "sweep" => x.pc = loop[w].pc /\ x.at = loop[w].at /\ x.view = loop[w].view,
           UNCHANGED <<clock, pod, ref, warn, sweep, fired, moved, judged, merged>>
    PROVE  IInv'
<1> USE DEF IInv
<1>1. /\ loop' \in [Loops -> LoopStates] /\ loop'[w] = x
      /\ \A u \in Loops : u # w => loop'[u] = loop[u]
    BY DEF Shape
<1>2. /\ row' \in [Reservations -> {"absent", "active", "cancelled"}]
      /\ listed' \subseteq Reservations /\ pending' \subseteq Leases
      /\ \A r \in Reservations : /\ row'[r] \in {row[r], "cancelled"}
                                 /\ r # l => row'[r] = row[r]
                                 /\ row'[r] = "active" => r \in listed'
      /\ \A k \in pending : k # l => k \in pending'
      /\ row'[l] = "active" => l \in pending'
    BY CancelFacts
<1>3. sweep.kills = {}
    BY DEF Exclusive, KillsInv, At, LockPcs, Loops
<1>4. Shape'
    BY <1>1, <1>2 DEF Shape
<1>5. Exclusive' /\ MarksInv'
    BY <1>1 DEF Exclusive, MarksInv, At, LockPcs, Loops
<1>6. RowsInv'
    BY <1>2, ConstantFacts DEF RowsInv, Shape, Refs
<1>7. \A u \in Loops : LoopInv(u)'
    <2> SUFFICES ASSUME NEW u \in Loops PROVE LoopInv(u)'
        OBVIOUS
    <2>1. Sound(loop'[u]) /\ loop'[u] \in LoopStates
        BY <1>1 DEF LoopInv
    <2>2. \A p \in Pods : loop'[u].view[p] \in Refs
        BY <2>1 DEF LoopStates
    <2>3. \A r \in Reservations : row[r] # "absent" => row'[r] # "absent"
        BY <1>2
    <2> QED BY <2>1, <2>2, <2>3 DEF LoopInv, Sound, Refs
<1>8. MergedInv'
    <2>1. \A k \in merged : row'[k] = "active" =>
              k \in pending' \/ \E u \in Loops : loop'[u].lease = k
        <3> SUFFICES ASSUME NEW k \in merged, row'[k] = "active", k # l, k \notin pending'
                     PROVE  \E u \in Loops : loop'[u].lease = k
            BY <1>2
        <3>1. k \in Reservations /\ k # None /\ row[k] = "active"
            BY <1>2, ConstantFacts DEF MergedInv
        <3>2. PICK u \in Loops : loop[u].lease = k
            BY <1>2, <3>1 DEF MergedInv
        <3> QED BY <1>1, <3>1, <3>2
    <2>2. \A k \in merged : k \in Reservations /\ row'[k] # "absent"
        BY <1>2, ConstantFacts DEF MergedInv
    <2> QED BY <2>1, <2>2 DEF MergedInv
<1>9. ViewInv'
    BY <1>1 DEF ViewInv, At, Loops
<1>10. KillsInv'
    BY <1>3 DEF KillsInv
<1> QED BY <1>4, <1>5, <1>6, <1>7, <1>8, <1>9, <1>10

LEMMA RetiresLeaseInv == ASSUME IInv, NEW w \in Loops, RetiresLease(w) PROVE IInv'
<1> DEFINE x == [loop[w] EXCEPT !.lease = None]
           l == loop[w].lease
<1>1. loop[w] \in LoopStates
    BY DEF IInv, Shape
<1>2. /\ l \in Leases /\ CancelLease(l) /\ loop[w].pc = "merge"
      /\ UNCHANGED <<clock, pod, ref, warn, sweep, fired, moved, judged, merged>>
    BY <1>1 DEF RetiresLease, LoopStates, At, cluster, history
<1>3. loop' = [loop EXCEPT ![w] = x]
    BY DEF RetiresLease, IInv, Shape
<1>4. /\ x \in LoopStates /\ x.lease = None /\ x.pc = loop[w].pc /\ x.at = loop[w].at
      /\ x.view = loop[w].view /\ x.plan = loop[w].plan
    BY <1>1 DEF LoopStates
<1> HIDE DEF x
<1>5. Sound(x)
    BY <1>4 DEF IInv, LoopInv, Sound
<1> QED BY <1>2, <1>3, <1>4, <1>5, CancelInv DEF LockPcs

LEMMA TickDrainsInv == ASSUME IInv, TickDrains PROVE IInv'
<1>1. PICK l \in loop["tick"].todo :
          /\ CancelLease(l)
          /\ loop' = [loop EXCEPT !["tick"] = IF loop["tick"].todo = {l} THEN AtRest
                                              ELSE [loop["tick"] EXCEPT !.todo = @ \ {l}]]
    BY DEF TickDrains
<1>2. loop["tick"] \in LoopStates
    BY DEF IInv, Shape, Loops
<1>3. /\ l \in Leases /\ loop["tick"].pc = "drain" /\ loop["tick"].lease = None
      /\ UNCHANGED <<clock, pod, ref, warn, sweep, fired, moved, judged, merged>>
    BY <1>1, <1>2 DEF TickDrains, LoopStates, At, cluster, history, IInv, LoopInv, Sound, Loops
<1>4. CASE loop["tick"].todo = {l}
    <2>1. loop' = [loop EXCEPT !["tick"] = AtRest]
        BY <1>1, <1>4
    <2>2. Sound(AtRest)
        BY NoPlanFacts DEF Sound
    <2> QED BY <1>1, <1>3, <2>1, <2>2, NoPlanFacts, CancelInv DEF LockPcs, Loops
<1>5. CASE loop["tick"].todo # {l}
    <2> DEFINE x == [loop["tick"] EXCEPT !.todo = @ \ {l}]
    <2>1. loop' = [loop EXCEPT !["tick"] = x]
        BY <1>1, <1>5
    <2>2. /\ x \in LoopStates /\ x.pc = "drain" /\ x.lease = None
          /\ x.view = loop["tick"].view /\ x.plan = loop["tick"].plan
        BY <1>2, <1>3 DEF LoopStates
    <2> HIDE DEF x
    <2>3. Sound(x)
        BY <1>3, <2>2 DEF IInv, LoopInv, Sound, Loops
    <2> QED BY <1>1, <1>3, <2>1, <2>2, <2>3, CancelInv DEF LockPcs, Loops
<1> QED BY <1>4, <1>5

-----------------------------------------------------------------------------
(* The sweep's own steps *)

\* What the steps of the sweep below leave alone.
Apart == UNCHANGED <<clock, row, ref, listed, pending, merged>>

\* The sweep goes on to x and y, holding the lock only if the tick does not; the
\* marks, the pods and their warnings are as the rest of the step has them.
LEMMA SweepTurns ==
    ASSUME IInv, NEW x \in LoopStates, loop' = [loop EXCEPT !["sweep"] = x], Apart,
           Sound(x), x.lease = loop["sweep"].lease, x.pc # "drain",
           x.pc \in LockPcs => loop["tick"].pc \notin LockPcs,
           sweep' \in SweepStates(sweep'.capacity),
           pod' \in [Pods -> {"absent", "waiting", "running", "leaving", "gone"}],
           warn' \in [Pods -> {"none", "given", "elapsed"}],
           MarksInv', ViewInv', KillsInv'
    PROVE  IInv'
<1> USE DEF IInv
<1>1. loop' \in [Loops -> LoopStates] /\ loop'["sweep"] = x /\ loop'["tick"] = loop["tick"]
    BY DEF Shape, Loops
<1>2. Shape' /\ Exclusive' /\ RowsInv'
    BY <1>1 DEF Apart, Shape, Exclusive, RowsInv, At
<1>3. \A w \in Loops : LoopInv(w)'
    BY <1>1 DEF Apart, LoopInv, Sound, Loops
<1>4. MergedInv'
    <2>1. \A w \in Loops : loop'[w].lease = loop[w].lease
        BY <1>1 DEF Loops
    <2> QED BY <2>1 DEF Apart, MergedInv
<1> QED BY <1>2, <1>3, <1>4

LEMMA StartsFacts ==
    ASSUME NEW from \in Int, NEW to \in Int
    PROVE  Starts(from, to) \subseteq Nat /\ \A b \in Starts(from, to) : b > from
BY ConstantFacts DEF Starts, Chainable

LEMMA SweepStartsInv == ASSUME IInv, NEW due \in BOOLEAN, SweepStarts(due) PROVE IInv'
<1> DEFINE x == [AtRest EXCEPT !.pc = "pods", !.at = clock]
           bounds == Starts(clock - Lead, clock + Lead)
           ahead == bounds \cup Starts(clock, clock + WarnLead)
           y == [SweepAtRest EXCEPT !.bounds = bounds, !.ahead = ahead, !.due = due]
<1>1. clock \in Nat /\ WarnLead \in Nat /\ Lead \in Nat
    BY ConstantsAssumption DEF IInv, Shape
<1>2. bounds \subseteq Nat /\ ahead \subseteq Nat /\ \A b \in bounds : b > clock - Lead
    BY <1>1, StartsFacts
<1> HIDE DEF bounds, ahead
<1>3. /\ x \in LoopStates /\ x.pc = "pods" /\ x.lease = None /\ x.view = NoPlan
      /\ x.plan = NoPlan /\ x.at = clock
    BY <1>1, NoPlanFacts DEF LoopStates
<1>4. /\ y \in SweepStates(y.capacity) /\ y.bounds = bounds /\ y.ahead = ahead
      /\ y.kills = {}
    BY <1>2 DEF SweepStates, SweepAtRest
<1>5. /\ loop' = [loop EXCEPT !["sweep"] = x] /\ sweep' = y
      /\ fired' = {m \in fired : m[1] > clock - Lead} /\ judged' = judged
      /\ Apart /\ UNCHANGED <<pod, warn>> /\ loop["sweep"].pc = "idle"
    BY DEF SweepStarts, Pruned, cluster, Apart, At, bounds, ahead
<1> HIDE DEF x, y
<1>6. loop["sweep"].lease = None /\ Sound(x) /\ loop'["sweep"] = x
    BY <1>3, <1>5, NoPlanFacts DEF IInv, Shape, LoopInv, Sound, Loops
<1>7. MarksInv'
    <2>1. \A m \in judged : m[1] \in Nat
        BY DEF IInv, MarksInv
    <2>2. loop["sweep"].at \in Nat /\ loop["sweep"].at <= clock
        BY DEF IInv, MarksInv, Shape, LoopStates, Loops
    <2>3. \A m \in judged \ fired : m[1] <= loop["sweep"].at - Lead
        BY DEF IInv, MarksInv
    <2>4. \A m \in judged' \ fired' : m[1] <= clock - Lead
        BY <1>1, <1>5, <2>1, <2>2, <2>3
    <2> QED BY <1>1, <1>2, <1>3, <1>4, <1>5, <1>6, <2>4 DEF IInv, MarksInv, Apart
<1>8. ViewInv'
    BY <1>3, <1>6 DEF ViewInv, At
<1>9. KillsInv'
    BY <1>4, <1>5 DEF KillsInv, ahead
<1> QED BY <1>3, <1>4, <1>5, <1>6, <1>7, <1>8, <1>9, SweepTurns DEF IInv, Shape, LockPcs

LEMMA SweepSkipsInv == ASSUME IInv, SweepSkips PROVE IInv'
<1>1. PICK x \in LoopStates :
          /\ loop' = [loop EXCEPT !["sweep"] = x]
          /\ x.pc = "idle" /\ x.lease = loop["sweep"].lease /\ x.at = loop["sweep"].at
          /\ x.view = loop["sweep"].view
    BY GoesFacts DEF SweepSkips, Loops
<1>2. /\ sweep' = SweepAtRest /\ Apart /\ UNCHANGED <<pod, warn, fired, judged>>
      /\ loop["sweep"].lease = None /\ loop'["sweep"] = x
    BY <1>1 DEF SweepSkips, Apart, cluster, marks, history, At, IInv, Shape, LoopInv, Sound, Loops
<1>3. /\ SweepAtRest \in SweepStates(SweepAtRest.capacity) /\ SweepAtRest.kills = {}
      /\ SweepAtRest.bounds = {} /\ SweepAtRest.ahead = {}
    BY DEF SweepAtRest, SweepStates
<1>4. Sound(x)
    BY <1>1, <1>2 DEF IInv, LoopInv, Sound, Loops
<1>5. MarksInv' /\ ViewInv' /\ KillsInv'
    BY <1>1, <1>2, <1>3 DEF IInv, MarksInv, ViewInv, KillsInv, At, Apart
<1> QED BY <1>1, <1>2, <1>3, <1>4, <1>5, SweepTurns DEF IInv, Shape, LockPcs

LEMMA SweepListsNodesInv == ASSUME IInv, SweepListsNodes PROVE IInv'
<1> DEFINE c == ClassCapacity(up)
           counted == {p \in Pods : NodeOf[p] \in up}
           y == [sweep EXCEPT !.capacity = c, !.counted = counted]
<1>1. /\ Apart /\ UNCHANGED <<pod, warn, fired, judged, moved>> /\ sweep' = y
      /\ loop["sweep"].lease = None /\ loop["sweep"].pc = "nodes" /\ sweep.kills = {}
    BY DEF SweepListsNodes, Apart, cluster, marks, history, At, IInv, LoopInv, Sound, Loops, KillsInv
<1>2. PICK x \in LoopStates :
          /\ loop' = [loop EXCEPT !["sweep"] = x]
          /\ x.pc = "merge" /\ x.lease = None /\ x.view = loop["sweep"].view
          /\ x.at = loop["sweep"].at
          /\ \A p \in Pods : x.plan[p] # None => x.view[p] \in Leases
    BY <1>1, TakesLockFacts DEF SweepListsNodes, Loops
<1> HIDE DEF c
<1>3. /\ y \in SweepStates(y.capacity) /\ y.bounds = sweep.bounds /\ y.ahead = sweep.ahead
      /\ y.kills = {}
    <2>1. sweep \in SweepStates(sweep.capacity) /\ counted \in SUBSET Pods
        BY DEF IInv, Shape
    <2> HIDE DEF counted
    <2>2. y.capacity = c /\ y \in SweepStates(c)
        BY <2>1 DEF SweepStates
    <2> QED BY <1>1, <2>1, <2>2 DEF SweepStates
<1> HIDE DEF y
<1>4. loop["tick"].pc \notin LockPcs
    BY DEF SweepListsNodes, TakesLock, Locked, At, LockPcs, IInv, Exclusive
<1>5. Sound(x) /\ loop'["sweep"] = x
    BY <1>2, ConstantFacts DEF IInv, Shape, LoopInv, Sound, Loops
<1>6. MarksInv' /\ KillsInv'
    BY <1>1, <1>2, <1>3, <1>5 DEF IInv, MarksInv, KillsInv, Apart
<1>7. ViewInv'
    BY <1>1, <1>2, <1>5 DEF IInv, ViewInv, At, Apart
<1> QED BY <1>1, <1>2, <1>3, <1>4, <1>5, <1>6, <1>7, SweepTurns DEF IInv, Shape

LEMMA LeastExists ==
    ASSUME NEW T \in SUBSET Nat, T # {}
    PROVE  \E x \in T : \A y \in T : x <= y
<1> DEFINE R == {ss \in Nat \X Nat : ss[1] < ss[2]}
<1>1. IsWellFoundedOn(R, Nat)
    BY NatLessThanWellFounded, Zenon DEF OpToRel
<1>2. \A x, y \in Nat : y < x => <<y, x>> \in R
    OBVIOUS
<1> HIDE DEF R
<1>3. T \subseteq Nat /\ T # {}
    OBVIOUS
<1>4. \E x \in T : \A y \in T : ~ (<<y, x>> \in R)
    BY <1>1, <1>3, WFMin, Zenon
<1>5. \E x \in T : \A y \in T : ~ (y < x)
    BY <1>2, <1>3, <1>4, Zenon
<1> QED BY <1>3, <1>5

\* The victims taken are of the pool: listed, and past their guarantee.
LEMMA VictimsFacts ==
    ASSUME NEW need, NEW pool, NEW S \in Victims(need, pool) PROVE S \subseteq pool
BY DEF Victims

LEMMA PoolFacts ==
    ASSUME IInv, NEW p \in Pool(Remaining, loop["sweep"], loop["sweep"].at)
    PROVE  /\ p \in Pods /\ loop["sweep"].view[p] # None
           /\ Over(loop["sweep"].view[p], loop["sweep"].at, loop["sweep"].at)
BY DEF Pool, Remaining, IInv, Shape, LoopStates, Loops

\* The boundary a sweep plans for, its mark, and the pods it takes.
LEMMA SweepPlansFacts ==
    ASSUME IInv, SweepPlans
    PROVE  \E b \in sweep.bounds, ph \in {"A", "B"} :
              /\ fired' = fired \cup {<<b, ph>>}
              /\ \/ /\ <<b, ph>> \in fired /\ judged' = judged
                    /\ sweep' = [sweep EXCEPT !.bounds = @ \ {b}]
                 \/ /\ <<b, ph>> \notin fired /\ judged' = judged \cup {<<b, ph>>}
                    /\ \E S \in SUBSET Pool(Remaining, loop["sweep"], loop["sweep"].at) :
                          sweep' = [Doom(S) EXCEPT !.bounds = @ \ {b}]
<1> DEFINE b == CHOOSE x \in sweep.bounds : \A y \in sweep.bounds : x <= y
           ph == IF b <= loop["sweep"].at THEN "B" ELSE "A"
<1>1. sweep.bounds \in SUBSET Nat /\ sweep.bounds # {}
    BY DEF SweepPlans, IInv, Shape, SweepStates
<1>2. b \in sweep.bounds
    BY <1>1, LeastExists
<1>3. ph \in {"A", "B"}
    OBVIOUS
<1>4. /\ fired' = fired \cup {<<b, ph>>}
      /\ \/ /\ <<b, ph>> \in fired /\ judged' = judged
            /\ sweep' = [sweep EXCEPT !.bounds = @ \ {b}]
         \/ /\ <<b, ph>> \notin fired /\ judged' = judged \cup {<<b, ph>>}
            /\ \E S \in SUBSET Pool(Remaining, loop["sweep"], loop["sweep"].at) :
                  sweep' = [Doom(S) EXCEPT !.bounds = @ \ {b}]
    BY VictimsFacts DEF SweepPlans
<1> HIDE DEF b, ph
<1> QED BY <1>2, <1>3, <1>4

\* The sweep, planning, dooms the pods S.
LEMMA DoomFacts ==
    ASSUME IInv, NEW S \in SUBSET Pods
    PROVE  /\ Doom(S) \in SweepStates(sweep.capacity) /\ Doom(S).kills = sweep.kills \cup S
           /\ Doom(S).bounds = sweep.bounds /\ Doom(S).ahead = sweep.ahead
BY DEF Doom, IInv, Shape, SweepStates

LEMMA BoundsFacts ==
    ASSUME NEW c, NEW s \in SweepStates(c), NEW b
    PROVE  LET y == [s EXCEPT !.bounds = @ \ {b}] IN
              /\ y \in SweepStates(c) /\ y.capacity = c /\ y.bounds = s.bounds \ {b}
              /\ y.ahead = s.ahead /\ y.kills = s.kills
BY DEF SweepStates

LEMMA SweepPlansInv == ASSUME IInv, SweepPlans PROVE IInv'
<1> USE DEF IInv
<1>1. PICK b \in sweep.bounds, ph \in {"A", "B"} :
          /\ fired' = fired \cup {<<b, ph>>}
          /\ \/ /\ <<b, ph>> \in fired /\ judged' = judged
                /\ sweep' = [sweep EXCEPT !.bounds = @ \ {b}]
             \/ /\ <<b, ph>> \notin fired /\ judged' = judged \cup {<<b, ph>>}
                /\ \E S \in SUBSET Pool(Remaining, loop["sweep"], loop["sweep"].at) :
                      sweep' = [Doom(S) EXCEPT !.bounds = @ \ {b}]
    BY SweepPlansFacts
<1>2. PICK S \in SUBSET Pool(Remaining, loop["sweep"], loop["sweep"].at) :
          /\ sweep' \in SweepStates(sweep.capacity) /\ sweep'.capacity = sweep.capacity
          /\ sweep'.bounds = sweep.bounds \ {b} /\ sweep'.ahead = sweep.ahead
          /\ sweep'.kills \subseteq sweep.kills \cup S
    <2>1. CASE sweep' = [sweep EXCEPT !.bounds = @ \ {b}]
        <3>1. sweep \in SweepStates(sweep.capacity)
            BY DEF Shape
        <3>2. /\ sweep' \in SweepStates(sweep.capacity) /\ sweep'.capacity = sweep.capacity
              /\ sweep'.bounds = sweep.bounds \ {b} /\ sweep'.ahead = sweep.ahead
              /\ sweep'.kills = sweep.kills
            BY <2>1, <3>1, BoundsFacts
        <3>3. {} \in SUBSET Pool(Remaining, loop["sweep"], loop["sweep"].at)
            OBVIOUS
        <3> QED BY <3>2, <3>3
    <2>2. CASE \E S \in SUBSET Pool(Remaining, loop["sweep"], loop["sweep"].at) :
                   sweep' = [Doom(S) EXCEPT !.bounds = @ \ {b}]
        <3>1. PICK S \in SUBSET Pool(Remaining, loop["sweep"], loop["sweep"].at) :
                  sweep' = [Doom(S) EXCEPT !.bounds = @ \ {b}]
            BY <2>2
        <3>2. S \in SUBSET Pods
            BY PoolFacts
        <3> QED BY <3>1, <3>2, DoomFacts, BoundsFacts
    <2> QED BY <1>1, <2>1, <2>2
<1>3. /\ UNCHANGED <<clock, row, pod, ref, warn, listed, loop, pending, moved, merged>>
      /\ loop["sweep"].pc = "plan"
    BY DEF SweepPlans, cluster, At
<1>4. b \in Nat
    BY DEF Shape, SweepStates
<1>5. Shape'
    BY <1>2, <1>3 DEF Shape
<1>6. MarksInv'
    <2>1. fired' \subseteq judged' /\ judged' \subseteq Nat \X {"A", "B"}
        BY <1>1, <1>4 DEF MarksInv
    <2>2. judged' \ fired' \subseteq judged \ fired
        BY <1>1
    <2> QED BY <1>2, <1>3, <2>1, <2>2 DEF MarksInv
<1>7. KillsInv'
    <2>1. sweep.ahead # {} /\ sweep'.bounds \subseteq sweep'.ahead
        BY <1>2 DEF KillsInv
    <2>2. \A p \in sweep.kills : /\ loop["sweep"].view[p] # None
                                 /\ Over(loop["sweep"].view[p], loop["sweep"].at, loop["sweep"].at)
        BY DEF KillsInv
    <2>3. \A p \in sweep'.kills : /\ loop["sweep"].view[p] # None
                                  /\ Over(loop["sweep"].view[p], loop["sweep"].at, loop["sweep"].at)
        BY <1>2, <2>2, PoolFacts
    <2>4. \A p \in sweep'.kills : Over(loop["sweep"].view[p], loop["sweep"].at, loop["sweep"].at)'
        BY <1>3, <2>3 DEF Over, Chainable
    <2> QED BY <1>2, <1>3, <2>1, <2>3, <2>4 DEF KillsInv, At
<1>8. ViewInv' /\ Exclusive' /\ RowsInv' /\ MergedInv'
    BY <1>3 DEF ViewInv, Exclusive, RowsInv, MergedInv, At
<1>9. \A w \in Loops : LoopInv(w)'
    BY <1>3 DEF LoopInv, Sound
<1> QED BY <1>5, <1>6, <1>7, <1>8, <1>9

\* The headroom takes only pods whose notice has elapsed.
LEMMA SweepReclaimsFacts ==
    ASSUME IInv, SweepReclaims
    PROVE  \E S \in SUBSET Pool(Remaining, loop["sweep"], loop["sweep"].at) :
              /\ \A p \in S : warn[p] = "elapsed"
              /\ sweep' \in SweepStates(sweep'.capacity)
              /\ sweep'.bounds = sweep.bounds /\ sweep'.ahead = sweep.ahead
              /\ sweep'.kills = sweep.kills \cup S
<1> DEFINE w == loop["sweep"]
           W(S) == [p \in Pods |-> Wanted(p, Remaining \ S, w)]
<1>1. PICK S \in Victims(IF sweep.due THEN Shortfall(Remaining) ELSE 0, HeadroomPool(Remaining, w)) :
          sweep' = [Doom(S) EXCEPT !.want = W(S), !.capacity = 0, !.counted = {}]
    BY Zenon DEF SweepReclaims
<1>2. S \subseteq HeadroomPool(Remaining, w)
    BY <1>1, VictimsFacts
<1>3. S \in SUBSET Pool(Remaining, w, w.at) /\ \A p \in S : warn[p] = "elapsed"
    BY <1>2 DEF HeadroomPool
<1>4. S \in SUBSET Pods
    BY <1>3, PoolFacts
<1>5. W(S) \in [Pods -> {"none", "given", "elapsed"}]
    BY DEF Wanted
<1> HIDE DEF W
<1>6. /\ Doom(S) \in SweepStates(sweep.capacity) /\ Doom(S).kills = sweep.kills \cup S
      /\ Doom(S).bounds = sweep.bounds /\ Doom(S).ahead = sweep.ahead
    BY <1>4, DoomFacts
<1>7. /\ sweep'.capacity = 0 /\ sweep' \in SweepStates(0)
      /\ sweep'.bounds = sweep.bounds /\ sweep'.ahead = sweep.ahead
      /\ sweep'.kills = sweep.kills \cup S
    BY <1>1, <1>5, <1>6 DEF SweepStates
<1> QED BY <1>3, <1>7

LEMMA SweepReclaimsInv == ASSUME IInv, SweepReclaims PROVE IInv'
<1> DEFINE x == [loop["sweep"] EXCEPT !.pc = "kill", !.resident = {}]
<1>1. PICK S \in SUBSET Pool(Remaining, loop["sweep"], loop["sweep"].at) :
          /\ \A p \in S : warn[p] = "elapsed"
          /\ sweep' \in SweepStates(sweep'.capacity)
          /\ sweep'.bounds = sweep.bounds /\ sweep'.ahead = sweep.ahead
          /\ sweep'.kills = sweep.kills \cup S
    BY SweepReclaimsFacts
<1>2. /\ Apart /\ UNCHANGED <<pod, warn, fired, judged, moved>>
      /\ loop["sweep"].pc = "plan" /\ loop["sweep"].lease = None
    BY DEF SweepReclaims, Apart, cluster, marks, history, At, IInv, LoopInv, Sound, Loops
<1>3. loop["sweep"] \in LoopStates
    BY DEF IInv, Shape, Loops
<1>4. loop' = [loop EXCEPT !["sweep"] = x]
    BY DEF SweepReclaims, IInv, Shape
<1>5. /\ x \in LoopStates /\ x.pc = "kill" /\ x.lease = None /\ x.at = loop["sweep"].at
      /\ x.view = loop["sweep"].view /\ x.plan = loop["sweep"].plan
    BY <1>2, <1>3 DEF LoopStates, LockPcs
<1> HIDE DEF x
<1>6. loop["tick"].pc \notin LockPcs
    BY <1>2 DEF IInv, Exclusive, At, LockPcs
<1>7. Sound(x) /\ loop'["sweep"] = x
    BY <1>4, <1>5 DEF IInv, Shape, LoopInv, Sound, Loops
<1>8. MarksInv'
    BY <1>1, <1>2, <1>5, <1>7 DEF IInv, MarksInv, Apart
<1>9. ViewInv'
    BY <1>2, <1>5, <1>7 DEF IInv, ViewInv, At, Apart
<1>10. KillsInv'
    <2>1. \A p \in sweep'.kills :
              /\ loop["sweep"].view[p] # None
              /\ Over(loop["sweep"].view[p], loop["sweep"].at, loop["sweep"].at)
              /\ sweep.ahead = {} => warn[p] = "elapsed"
        BY <1>1, PoolFacts DEF IInv, KillsInv
    <2>2. \A p \in sweep'.kills : Over(loop["sweep"].view[p], loop["sweep"].at, loop["sweep"].at)'
        BY <1>2, <1>5, <1>7, <2>1 DEF Over, Chainable, Apart
    <2> QED BY <1>1, <1>2, <1>5, <1>7, <2>1, <2>2 DEF IInv, KillsInv, At
<1> QED BY <1>1, <1>2, <1>4, <1>5, <1>6, <1>7, <1>8, <1>9, <1>10, SweepTurns DEF IInv, Shape

LEMMA SweepKillsInv == ASSUME IInv, NEW p \in Pods, SweepKills(p) PROVE IInv'
<1> USE DEF IInv
<1>1. /\ UNCHANGED <<clock, row, ref, warn, listed, loop, fired, pending, moved, judged, merged>>
      /\ sweep' = [sweep EXCEPT !.kills = @ \ {p}] /\ loop["sweep"].pc = "kill"
      /\ pod' \in {pod, [pod EXCEPT ![p] = IF @ = "gone" THEN "gone" ELSE "leaving"]}
    BY DEF SweepKills, marks, history, At
<1>2. /\ sweep' \in SweepStates(sweep'.capacity) /\ sweep'.bounds = sweep.bounds
      /\ sweep'.ahead = sweep.ahead /\ sweep'.kills = sweep.kills \ {p}
    BY <1>1 DEF Shape, SweepStates
<1>3. /\ pod' \in [Pods -> {"absent", "waiting", "running", "leaving", "gone"}]
      /\ \A q \in Pods : pod[q] # "absent" => pod'[q] # "absent"
    BY <1>1 DEF Shape
<1>4. Shape' /\ MarksInv' /\ Exclusive' /\ RowsInv'
    BY <1>1, <1>2, <1>3 DEF Shape, MarksInv, Exclusive, RowsInv, At
<1>5. ViewInv'
    BY <1>1, <1>3 DEF ViewInv, At
<1>6. KillsInv'
    <2>1. \A q \in sweep.kills : Over(loop["sweep"].view[q], loop["sweep"].at, loop["sweep"].at)'
        BY <1>1 DEF KillsInv, Over, Chainable
    <2> QED BY <1>1, <1>2, <2>1 DEF KillsInv, At
<1>7. MergedInv' /\ \A w \in Loops : LoopInv(w)'
    BY <1>1 DEF MergedInv, LoopInv, Sound
<1> QED BY <1>4, <1>5, <1>6, <1>7

LEMMA SweepWarnsInv == ASSUME IInv, SweepWarns PROVE IInv'
<1>1. PICK x \in LoopStates :
          /\ loop' = [loop EXCEPT !["sweep"] = x]
          /\ x.pc = "idle" /\ x.lease = loop["sweep"].lease /\ x.at = loop["sweep"].at
          /\ x.view = loop["sweep"].view
    BY GoesFacts DEF SweepWarns, Loops
<1>2. /\ sweep' = SweepAtRest /\ Apart /\ UNCHANGED <<pod, fired, judged>>
      /\ loop["sweep"].lease = None /\ loop'["sweep"] = x
    BY <1>1 DEF SweepWarns, Apart, history, At, IInv, Shape, LoopInv, Sound, Loops
<1>3. /\ SweepAtRest \in SweepStates(SweepAtRest.capacity) /\ SweepAtRest.kills = {}
      /\ SweepAtRest.bounds = {} /\ SweepAtRest.ahead = {}
    BY DEF SweepAtRest, SweepStates
<1>4. warn' \in [Pods -> {"none", "given", "elapsed"}]
    <2>1. /\ sweep.want \in [Pods -> {"none", "given", "elapsed"}]
          /\ warn \in [Pods -> {"none", "given", "elapsed"}]
        BY DEF IInv, Shape, SweepStates
    <2>2. PICK T, S : warn' = [p \in Pods |-> IF p \in T \ S /\ pod[p] # "gone"
                                              THEN sweep.want[p] ELSE warn[p]]
        BY DEF SweepWarns
    <2> QED BY <2>1, <2>2
<1>5. Sound(x)
    BY <1>1, <1>2 DEF IInv, LoopInv, Sound, Loops
<1>6. MarksInv' /\ ViewInv' /\ KillsInv'
    BY <1>1, <1>2, <1>3 DEF IInv, MarksInv, ViewInv, KillsInv, At, Apart
<1> QED BY <1>1, <1>2, <1>3, <1>4, <1>5, <1>6, SweepTurns DEF IInv, Shape, LockPcs

-----------------------------------------------------------------------------
LEMMA StutterInv == ASSUME IInv, UNCHANGED vars PROVE IInv'
BY NothingInv DEF vars, cluster, marks, history

LEMMA NextInv == ASSUME IInv, [Next]_vars PROVE IInv'
<1>1. ASSUME Next PROVE IInv'
    <2>1. CASE Passes \/ Refresh
        BY <2>1, PassesInv, RefreshInv
    <2>2. CASE \E p \in Pods, r \in Reservations : Admit(p, r)
        BY <2>2, AdmitInv
    <2>3. CASE \E p \in Pods : Bind(p) \/ PodEnds(p) \/ WatchGone(p) \/ NoticeElapses(p)
        BY <2>3, BindInv, PodEndsInv, WatchGoneInv, NoticeElapsesInv
    <2>4. CASE \E n \in Nodes : NodeTurns(n)
        BY <2>4, NodeTurnsInv
    <2>5. CASE \E w \in Loops : RelinkStep(w)
        BY <2>5, RelinksInv, RetiresLeaseInv, MergesDoneInv, AdoptionsDoneInv DEF RelinkStep
    <2>6. CASE TickStarts \/ TickStep
        BY <2>6, TickStartsInv, TickListsInv, TickRebuildsInv, TickLocksInv, TickRetriesInv,
           TickDrainsInv DEF TickStep
    <2>7. CASE \E due \in BOOLEAN : SweepStarts(due)
        BY <2>7, SweepStartsInv
    <2>8. CASE SweepSkips \/ SweepStep
        BY <2>8, SweepSkipsInv, SweepListsPodsInv, SweepListsNodesInv, SweepPlansInv,
           SweepReclaimsInv, SweepKillsInv, SweepWarnsInv DEF SweepStep
    <2> QED BY <1>1, <2>1, <2>2, <2>3, <2>4, <2>5, <2>6, <2>7, <2>8 DEF Next
<1> QED BY <1>1, StutterInv

LEMMA Invariance == Spec => []IInv
BY InitInv, NextInv, PTL DEF Spec

-----------------------------------------------------------------------------
(* What the invariant establishes *)

\* No re-link changes what a sweep has planned or marked.
LEMMA RelinkStepFacts ==
    ASSUME NEW w \in Loops, RelinkStep(w) PROVE UNCHANGED <<sweep, fired, judged>>
<1>1. ASSUME NEW p \in Pods, Relinks(w, p) PROVE UNCHANGED <<sweep, fired, judged>>
    <2>1. UNCHANGED <<clock, row, pod, warn, up, listed, sweep, marks, judged>>
        BY <1>1 DEF Relinks
    <2> QED BY <2>1 DEF marks
<1>2. CASE RetiresLease(w)
    BY <1>2 DEF RetiresLease, history
<1>3. CASE MergesDone(w) \/ AdoptionsDone(w)
    BY <1>3 DEF MergesDone, AdoptionsDone, marks, history
<1> QED BY <1>1, <1>2, <1>3 DEF RelinkStep

\* Nor does the tick, ...
LEMMA TickStepFacts ==
    ASSUME TickStarts \/ TickStep PROVE UNCHANGED <<sweep, fired, judged>>
<1>1. CASE TickStarts \/ TickLists \/ TickRebuilds
    BY <1>1 DEF TickStarts, TickLists, TickRebuilds, marks, history
<1>2. CASE TickLocks \/ TickRetries
    BY <1>2 DEF TickLocks, TickRetries, marks, history
<1>3. CASE TickDrains
    BY <1>3 DEF TickDrains, history
<1> QED BY <1>1, <1>2, <1>3 DEF TickStep

\* ... nor the cluster; and a sweep that is not deleting deletes nothing.
LEMMA SweepStepFacts ==
    ASSUME SweepSkips \/ SweepListsPods \/ SweepListsNodes \/ SweepReclaims \/ SweepWarns
    PROVE  UNCHANGED <<pod, fired>>
<1>1. CASE SweepSkips \/ SweepListsPods \/ SweepListsNodes
    BY <1>1 DEF SweepSkips, SweepListsPods, SweepListsNodes, cluster, marks
<1>2. CASE SweepReclaims
    <2>1. UNCHANGED cluster /\ UNCHANGED marks
        BY <1>2, Zenon DEF SweepReclaims
    <2> QED BY <2>1 DEF cluster, marks
<1>3. CASE SweepWarns
    BY <1>3, Zenon DEF SweepWarns
<1> QED BY <1>1, <1>2, <1>3

\* The sweep deletes the pods it has chosen, and nothing else deletes.
LEMMA PreemptsFacts ==
    ASSUME IInv, [Next]_vars, NEW p \in Pods, Preempts(p)
    PROVE  p \in sweep.kills /\ At("sweep", {"kill"})
<1>1. p \in sweep.kills
    BY DEF Preempts
<1>2. At("sweep", {"kill"})
    <2>1. CASE \E q \in Pods : SweepKills(q)
        BY <2>1 DEF SweepKills
    <2>2. CASE Passes \/ Refresh \/ (\E n \in Nodes : NodeTurns(n))
        BY <2>2 DEF Preempts, Passes, Refresh, NodeTurns
    <2>3. CASE (\E q \in Pods, r \in Reservations : Admit(q, r))
               \/ \E q \in Pods : Bind(q) \/ PodEnds(q) \/ WatchGone(q) \/ NoticeElapses(q)
        BY <2>3 DEF Preempts, Admit, Bind, PodEnds, WatchGone, NoticeElapses
    <2>4. CASE \E w \in Loops : RelinkStep(w)
        BY <2>4, RelinkStepFacts DEF Preempts
    <2>5. CASE TickStarts \/ TickStep
        BY <2>5, TickStepFacts DEF Preempts
    <2>6. CASE \E due \in BOOLEAN : SweepStarts(due)
        BY <2>6 DEF Preempts, SweepStarts, cluster
    <2>7. CASE SweepSkips \/ SweepStep \/ UNCHANGED vars
        <3>1. CASE SweepPlans \/ UNCHANGED vars
            BY <3>1 DEF Preempts, SweepPlans, cluster, vars
        <3> QED BY <2>1, <2>7, <3>1, SweepStepFacts DEF Preempts, SweepStep
    <2> QED BY <2>1, <2>2, <2>3, <2>4, <2>5, <2>6, <2>7 DEF Next
<1> QED BY <1>1, <1>2

\* A pod the pass has not moved is under the reservation the sweep judged it by.
LEMMA PreemptsOver ==
    ASSUME IInv, [Next]_vars, NEW p \in Pods, Preempts(p), p \notin moved
    PROVE  Over(ref[p], loop["sweep"].at, loop["sweep"].at)
<1>1. p \in sweep.kills /\ At("sweep", {"kill"})
    BY PreemptsFacts
<1>2. /\ loop["sweep"].view[p] # None
      /\ Over(loop["sweep"].view[p], loop["sweep"].at, loop["sweep"].at)
    BY <1>1 DEF IInv, KillsInv
<1>3. loop["sweep"].view[p] = ref[p]
    BY <1>1, <1>2 DEF IInv, ViewInv, At
<1> QED BY <1>2, <1>3

\* A pod preempted is past its guarantee under the reservation it has by then
\* (_merge_ondemand_leases, _adopt_running_pods and _preempt_pod under one lock).
THEOREM GuaranteesKept == Spec => GuaranteeKept
<1> DEFINE A == \A p \in Pods : Preempts(p) /\ p \notin moved =>
                   Over(ref[p], loop["sweep"].at, loop["sweep"].at)
<1>1. IInv /\ [Next]_vars => A
    BY PreemptsOver
<1>2. GuaranteeKept <=> [][A]_vars
    BY DEF GuaranteeKept
<1> QED BY <1>1, <1>2, Invariance, PTL DEF Spec

\* A pod that no boundary in scope wants is preempted only when the notice on it
\* has elapsed (eligible_headroom_pods, read under the lock).
THEOREM NoticesGiven == Spec => NoticeGiven
<1> DEFINE A == \A p \in Pods : Preempts(p) /\ sweep.ahead = {} => warn[p] = "elapsed"
<1>1. IInv /\ [Next]_vars => A
    BY PreemptsFacts DEF IInv, KillsInv
<1>2. NoticeGiven <=> [][A]_vars
    BY DEF NoticeGiven
<1> QED BY <1>1, <1>2, Invariance, PTL DEF Spec

\* No boundary is evaluated twice in a phase: a mark goes only when no sweep will
\* have the boundary in scope (prune_preemption_marks, upcoming_boundaries).
THEOREM BoundariesOnce == Spec => OncePerPhase
<1> DEFINE A == \A m \in judged : m \notin fired => m \notin fired'
<1>1. IInv /\ [Next]_vars => A
    <2> SUFFICES ASSUME IInv, [Next]_vars, NEW m \in judged, m \notin fired PROVE m \notin fired'
        OBVIOUS
    <2>1. CASE SweepPlans
        <3>1. PICK b \in sweep.bounds, ph \in {"A", "B"} : fired' = fired \cup {<<b, ph>>}
            BY <2>1, SweepPlansFacts
        <3>2. /\ b > loop["sweep"].at - Lead /\ m[1] <= loop["sweep"].at - Lead
              /\ b \in Nat /\ m[1] \in Nat /\ loop["sweep"].at \in Nat
            BY DEF IInv, MarksInv, Shape, SweepStates, LoopStates, Loops
        <3>3. m # <<b, ph>>
            BY <3>2, ConstantFacts
        <3> QED BY <3>1, <3>3
    <2>2. CASE \E due \in BOOLEAN : SweepStarts(due)
        BY <2>2 DEF SweepStarts, Pruned
    <2>3. CASE Passes \/ Refresh \/ (\E n \in Nodes : NodeTurns(n))
        BY <2>3 DEF Passes, Refresh, NodeTurns, marks
    <2>4. CASE (\E q \in Pods, r \in Reservations : Admit(q, r))
               \/ \E q \in Pods : Bind(q) \/ PodEnds(q) \/ WatchGone(q) \/ NoticeElapses(q)
        BY <2>4 DEF Admit, Bind, PodEnds, WatchGone, NoticeElapses, marks
    <2>5. CASE \E w \in Loops : RelinkStep(w)
        BY <2>5, RelinkStepFacts
    <2>6. CASE TickStarts \/ TickStep
        BY <2>6, TickStepFacts
    <2>7. CASE SweepSkips \/ SweepStep \/ UNCHANGED vars
        <3>1. CASE UNCHANGED vars \/ \E q \in Pods : SweepKills(q)
            BY <3>1 DEF SweepKills, marks, vars
        <3> QED BY <2>1, <2>7, <3>1, SweepStepFacts DEF SweepStep
    <2> QED BY <2>1, <2>2, <2>3, <2>4, <2>5, <2>6, <2>7 DEF Next
<1>2. OncePerPhase <=> [][A]_vars
    BY DEF OncePerPhase
<1> QED BY <1>1, <1>2, Invariance, PTL DEF Spec

\* A lease whose pod was merged is cancelled, being cancelled, or kept for the tick
\* (_cancel_merged_lease, _drain_pending_merge_cancels).
THEOREM MergesAccounted == Spec => []MergedAccounted
<1>1. IInv => MergedAccounted
    BY DEF IInv, MergedInv, MergedAccounted
<1> QED BY <1>1, Invariance, PTL

-----------------------------------------------------------------------------
(* The kinds of value every variable holds *)

\* What IInv leaves out: the records of the cluster and of the app, ...
RecordKinds ==
    /\ occupancy \in [Pods -> Refs] /\ up \subseteq Nodes
    /\ \A r \in listed : row[r] # "absent"
    /\ outstanding \in BOOLEAN /\ faults \in 0..MaxFaults /\ moved \subseteq Pods

\* ... the instants, none later than the clock's bound, ...
TimeKinds == clock <= MaxTime /\ \A w \in Loops : loop[w].at <= MaxTime

\* ... and what a sweep has in scope: boundaries within reach of the clock's bound.
ScopeKinds ==
    /\ sweep.bounds \subseteq 0..MaxTime + Lead
    /\ sweep.ahead \subseteq 0..MaxTime + Lead + WarnLead
    /\ sweep.capacity \in Nat /\ sweep.kills \subseteq sweep.doomed
    /\ \A m \in judged : m[1] <= MaxTime + Lead

Kinds == RecordKinds /\ TimeKinds /\ ScopeKinds

LEMMA BoundFacts ==
    /\ Lead \in Nat /\ WarnLead \in Nat /\ MaxTime \in Nat /\ MaxFaults \in Nat
    /\ NodeGpus \in [Nodes -> Nat] /\ IsFiniteSet(Nodes)
BY ConstantsAssumption

LEMMA KindsInit == Init => Kinds
<1> SUFFICES ASSUME Init PROVE Kinds
    OBVIOUS
<1>1. RecordKinds
    <2>1. occupancy \in [Pods -> Refs] /\ faults \in 0..MaxFaults
        BY NoPlanFacts, BoundFacts DEF Init, Refs
    <2>2. up \subseteq Nodes /\ outstanding \in BOOLEAN /\ moved \subseteq Pods
        BY DEF Init
    <2>3. \A r \in listed : row[r] # "absent"
        BY ConstantFacts DEF Init
    <2> QED BY <2>1, <2>2, <2>3, Zenon DEF RecordKinds
<1>2. TimeKinds
    BY NoPlanFacts, BoundFacts DEF Init, TimeKinds
<1>3. ScopeKinds
    BY BoundFacts DEF Init, ScopeKinds, SweepAtRest
<1> QED BY <1>1, <1>2, <1>3 DEF Kinds

\* The nodes counted have a number of GPUs.
LEMMA ClassCapacityNat ==
    ASSUME NEW S \in SUBSET Nodes PROVE ClassCapacity(S) \in Nat
<1> DEFINE G(n) == {n} \X (1..NodeGpus[n])
           T == {G(n) : n \in S}
           f == [n \in S |-> G(n)]
<1>1. IsFiniteSet(S)
    BY BoundFacts, FS_Subset
<1>2. IsFiniteSet(T)
    <2>1. f \in [S -> T] /\ \A g \in T : \E n \in S : f[n] = g
        BY Zenon
    <2>2. f \in Surjection(S, T)
        BY <2>1, Zenon DEF Surjection
    <2> HIDE DEF f, T
    <2> QED BY <1>1, <2>2, FS_Surjection
<1>3. ASSUME NEW n \in S PROVE IsFiniteSet(G(n))
    <2>1. IsFiniteSet({n})
        BY FS_Singleton
    <2>2. NodeGpus[n] \in Int
        BY BoundFacts
    <2>3. IsFiniteSet(1..NodeGpus[n])
        BY <2>2, FS_Interval
    <2> QED BY <2>1, <2>3, FS_Product
<1>4. \A g \in T : IsFiniteSet(g)
    BY <1>3
<1> HIDE DEF T
<1>5. IsFiniteSet(UNION T)
    BY <1>2, <1>4, FS_UNION
<1>6. Cardinality(UNION T) \in Nat
    BY <1>5, FS_CardinalityType
<1> QED BY <1>6 DEF ClassCapacity, T

\* The users, the cluster and the list.
LEMMA RecordsOutside ==
    ASSUME IInv, RecordKinds,
           \/ Passes \/ Refresh
           \/ \E p \in Pods, r \in Reservations : Admit(p, r)
           \/ \E p \in Pods : Bind(p) \/ PodEnds(p) \/ WatchGone(p) \/ NoticeElapses(p)
           \/ \E n \in Nodes : NodeTurns(n)
           \/ UNCHANGED vars
    PROVE  RecordKinds'
<1>1. CASE UNCHANGED <<row, listed, occupancy, up, outstanding, faults, moved>>
    BY <1>1 DEF RecordKinds
<1>2. CASE Refresh
    <2>1. UNCHANGED <<row, occupancy, up, outstanding, faults, moved>>
        BY <1>2 DEF Refresh, cluster, marks, history
    <2>2. \A r \in listed' : row'[r] # "absent"
        BY <1>2, <2>1 DEF Refresh
    <2> QED BY <2>1, <2>2 DEF RecordKinds
<1>3. ASSUME NEW p \in Pods, NEW r \in Reservations, Admit(p, r) PROVE RecordKinds'
    <2>1. occupancy' \in [Pods -> Refs]
        BY <1>3 DEF Admit, RecordKinds, Refs
    <2>2. \A s \in listed' : row'[s] # "absent"
        BY <1>3, ConstantFacts DEF Admit, RecordKinds, IInv, Shape
    <2>3. UNCHANGED <<up, outstanding, faults, moved>>
        BY <1>3 DEF Admit, marks, history
    <2> QED BY <2>1, <2>2, <2>3 DEF RecordKinds
<1>4. ASSUME NEW p \in Pods, WatchGone(p) PROVE RecordKinds'
    <2>1. occupancy' \in [Pods -> Refs]
        BY <1>4 DEF WatchGone, RecordKinds, Refs
    <2> QED BY <1>4, <2>1 DEF WatchGone, RecordKinds, cluster, marks, history
<1>5. ASSUME NEW n \in Nodes, NodeTurns(n) PROVE RecordKinds'
    <2>1. faults' \in 0..MaxFaults
        BY <1>5, BoundFacts DEF NodeTurns, Fault, RecordKinds
    <2>2. up' \subseteq Nodes
        BY <1>5 DEF NodeTurns, RecordKinds
    <2> QED BY <1>5, <2>1, <2>2 DEF NodeTurns, RecordKinds, marks, history
<1>6. CASE Passes \/ \E p \in Pods : Bind(p) \/ PodEnds(p) \/ NoticeElapses(p)
    BY <1>1, <1>6 DEF Passes, Bind, PodEnds, NoticeElapses, cluster, marks, history
<1>7. CASE UNCHANGED vars
    BY <1>1, <1>7 DEF vars, cluster, marks, history
<1> QED BY <1>2, <1>3, <1>4, <1>5, <1>6, <1>7

\* A failed call, as far as its count goes.
LEMMA FaultKind ==
    ASSUME RecordKinds, Fault \/ faults' = faults PROVE faults' \in 0..MaxFaults
BY BoundFacts DEF RecordKinds, Fault

\* A lease cancelled leaves the list with its row in the app.
LEMMA RecordsCancel ==
    ASSUME IInv, RecordKinds, NEW l \in Leases, CancelLease(l),
           UNCHANGED <<occupancy, up, outstanding, moved>>
    PROVE  RecordKinds'
<1>1. faults' \in 0..MaxFaults
    BY FaultKind DEF CancelLease
<1>2. listed' \subseteq listed
    BY DEF CancelLease
<1>3. \A r \in Reservations : row'[r] \in {row[r], "cancelled"}
    BY CancelFacts
<1>4. \A r \in listed' : row'[r] # "absent"
    BY <1>2, <1>3 DEF RecordKinds, IInv, Shape
<1> QED BY <1>1, <1>4 DEF RecordKinds

\* The tick, and what both loops do under the lock.
LEMMA RecordsRelink ==
    ASSUME IInv, RecordKinds, NEW w \in Loops, RelinkStep(w) PROVE RecordKinds'
<1>1. ASSUME NEW p \in Pods, Relinks(w, p) PROVE RecordKinds'
    <2>1. faults' \in 0..MaxFaults
        BY <1>1, FaultKind DEF Relinks
    <2>2. loop[w].plan[p] \in Refs
        BY <1>1, RelinksOK, ConstantFacts DEF Refs
    <2>3. occupancy' \in [Pods -> Refs]
        BY <1>1, <2>2 DEF Relinks, RecordKinds
    <2>4. moved' \subseteq Pods
        BY <1>1 DEF Relinks, RecordKinds
    <2>5. UNCHANGED <<row, up, listed, outstanding>>
        BY <1>1 DEF Relinks, marks
    <2> QED BY <2>1, <2>3, <2>4, <2>5 DEF RecordKinds
<1>2. CASE RetiresLease(w)
    <2>1. loop[w].lease \in Leases
        BY <1>2 DEF RetiresLease, IInv, Shape, LoopStates
    <2> QED BY <1>2, <2>1, RecordsCancel DEF RetiresLease, cluster, history
<1>3. CASE MergesDone(w) \/ AdoptionsDone(w)
    BY <1>3 DEF MergesDone, AdoptionsDone, RecordKinds, cluster, marks, history
<1> QED BY <1>1, <1>2, <1>3 DEF RelinkStep

LEMMA RecordsTick ==
    ASSUME IInv, RecordKinds, TickStarts \/ TickStep PROVE RecordKinds'
<1>1. CASE TickStarts \/ TickLocks \/ TickRetries
    BY <1>1 DEF TickStarts, TickLocks, TickRetries, RecordKinds, cluster, marks, history
<1>2. CASE TickLists
    <2>1. faults' \in 0..MaxFaults
        BY <1>2, FaultKind DEF TickLists
    <2> QED BY <1>2, <2>1 DEF TickLists, RecordKinds, cluster, marks, history
<1>3. CASE TickRebuilds
    <2>1. occupancy' \in [Pods -> Refs]
        BY <1>3 DEF TickRebuilds, IInv, Shape, LoopStates, Loops
    <2> QED BY <1>3, <2>1 DEF TickRebuilds, RecordKinds, cluster, marks, history
<1>4. CASE TickDrains
    <2>1. PICK l \in loop["tick"].todo : CancelLease(l)
        BY <1>4 DEF TickDrains
    <2>2. l \in Leases
        BY <2>1 DEF IInv, Shape, LoopStates, Loops
    <2>3. UNCHANGED <<occupancy, up, outstanding, moved>>
        BY <1>4 DEF TickDrains, cluster, history
    <2> QED BY <2>1, <2>2, <2>3, RecordsCancel
<1> QED BY <1>1, <1>2, <1>3, <1>4 DEF TickStep

\* The sweep.
LEMMA RecordsSweep ==
    ASSUME IInv, RecordKinds,
           SweepSkips \/ SweepStep \/ \E due \in BOOLEAN : SweepStarts(due)
    PROVE  RecordKinds'
<1>1. CASE SweepSkips
    <2>1. faults' \in 0..MaxFaults
        BY <1>1, FaultKind DEF SweepSkips
    <2> QED BY <1>1, <2>1 DEF SweepSkips, RecordKinds, cluster, marks, history
<1>2. CASE SweepListsPods \/ SweepListsNodes
    BY <1>2 DEF SweepListsPods, SweepListsNodes, RecordKinds, cluster, marks, history
<1>3. CASE SweepPlans
    BY <1>3 DEF SweepPlans, RecordKinds, cluster
<1>4. CASE SweepReclaims
    <2>1. UNCHANGED <<row, cluster, listed, occupancy, marks, faults, history>>
        BY <1>4, Zenon DEF SweepReclaims
    <2> QED BY <2>1 DEF RecordKinds, cluster, marks, history
<1>5. ASSUME NEW p \in Pods, SweepKills(p) PROVE RecordKinds'
    <2>1. faults' \in 0..MaxFaults
        BY <1>5, FaultKind DEF SweepKills
    <2>2. occupancy' \in [Pods -> Refs]
        BY <1>5 DEF SweepKills, RecordKinds, Refs
    <2> QED BY <1>5, <2>1, <2>2 DEF SweepKills, RecordKinds, marks, history
<1>6. CASE SweepWarns
    <2>1. Fault \/ faults' = faults
        BY <1>6, Zenon DEF SweepWarns
    <2>2. faults' \in 0..MaxFaults
        BY <2>1, FaultKind
    <2>3. \E S, tried : outstanding' = Outstanding(S, tried)
        BY <1>6, Zenon DEF SweepWarns
    <2>4. outstanding' \in BOOLEAN
        BY <2>3, Zenon DEF Outstanding
    <2>5. UNCHANGED <<row, up, listed, occupancy, history>>
        BY <1>6, Zenon DEF SweepWarns
    <2> QED BY <2>2, <2>4, <2>5 DEF RecordKinds, history
<1>7. ASSUME NEW due \in BOOLEAN, SweepStarts(due) PROVE RecordKinds'
    BY <1>7 DEF SweepStarts, RecordKinds, cluster
<1> QED BY <1>1, <1>2, <1>3, <1>4, <1>5, <1>6, <1>7 DEF SweepStep

LEMMA RecordsStep == ASSUME IInv, RecordKinds, [Next]_vars PROVE RecordKinds'
BY RecordsOutside, RecordsRelink, RecordsTick, RecordsSweep DEF Next

-----------------------------------------------------------------------------
\* A loop keeps the time it began, or begins at the clock's, or rests.
LEMMA TimesKept ==
    ASSUME IInv, TimeKinds, NEW w \in Loops, NEW x \in LoopStates,
           loop' = [loop EXCEPT ![w] = x], x.at \in {loop[w].at, clock, 0}, clock' = clock
    PROVE  TimeKinds'
<1>1. x.at <= MaxTime
    BY BoundFacts DEF TimeKinds
<1>2. \A u \in Loops : loop'[u].at <= MaxTime
    BY <1>1 DEF TimeKinds, IInv, Shape
<1> QED BY <1>2 DEF TimeKinds

\* Both loops, relinking.
LEMMA TimesRelink ==
    ASSUME IInv, TimeKinds, NEW w \in Loops, RelinkStep(w) PROVE TimeKinds'
<1>0. loop[w] \in LoopStates /\ loop \in [Loops -> LoopStates]
    BY DEF IInv, Shape
<1>1. ASSUME NEW p \in Pods, Relinks(w, p) PROVE TimeKinds'
    <2>1. PICK x : RelinkedTo(w, p, x)
        BY <1>1, RelinksOK
    <2> QED BY <2>1, TimesKept DEF RelinkedTo
<1>2. CASE RetiresLease(w)
    <2> DEFINE x == [loop[w] EXCEPT !.lease = None]
    <2>1. x \in LoopStates /\ x.at = loop[w].at
        BY <1>0 DEF LoopStates
    <2>2. loop' = [loop EXCEPT ![w] = x] /\ clock' = clock
        BY <1>0, <1>2 DEF RetiresLease
    <2> HIDE DEF x
    <2> QED BY <2>1, <2>2, TimesKept
<1>3. CASE MergesDone(w)
    <2>1. PICK a \in AdoptPlans(loop[w]) :
              loop' = [loop EXCEPT ![w].pc = "adopt", ![w].plan = a]
        BY <1>3 DEF MergesDone
    <2> DEFINE x == [loop[w] EXCEPT !.pc = "adopt", !.plan = a]
    <2>2. a \in [Pods -> Bookings \cup {None}]
        BY PlanFacts
    <2>3. x \in LoopStates /\ x.at = loop[w].at
        BY <1>0, <2>2 DEF LoopStates, LockPcs
    <2>4. loop' = [loop EXCEPT ![w] = x] /\ clock' = clock
        BY <1>0, <1>3, <2>1 DEF MergesDone
    <2> HIDE DEF x
    <2> QED BY <2>3, <2>4, TimesKept
<1>4. CASE AdoptionsDone(w)
    <2>1. clock' = clock
        BY <1>4 DEF AdoptionsDone
    <2>2. CASE w = "sweep"
        <3>1. PICK x \in LoopStates : loop' = [loop EXCEPT !["sweep"] = x] /\ x.at = loop["sweep"].at
            BY <1>4, <2>2, GoesFacts DEF AdoptionsDone, Loops
        <3> QED BY <2>1, <2>2, <3>1, TimesKept
    <2>3. CASE w # "sweep"
        <3> DEFINE x == [AtRest EXCEPT !.pc = "retry"]
        <3>1. x \in LoopStates /\ x.at = 0
            BY NoPlanFacts DEF LoopStates
        <3>2. loop' = [loop EXCEPT !["tick"] = x]
            BY <1>4, <2>3 DEF AdoptionsDone
        <3> HIDE DEF x
        <3> QED BY <2>1, <3>1, <3>2, TimesKept DEF Loops
    <2> QED BY <2>2, <2>3
<1> QED BY <1>1, <1>2, <1>3, <1>4 DEF RelinkStep

LEMMA TimesTick ==
    ASSUME IInv, TimeKinds, TickStarts \/ TickStep PROVE TimeKinds'
<1>0. /\ loop["tick"] \in LoopStates /\ loop \in [Loops -> LoopStates] /\ "tick" \in Loops
      /\ clock \in Nat /\ pending \subseteq Leases
    BY DEF IInv, Shape, Loops
<1>1. clock' = clock
    BY DEF TickStarts, TickStep, TickLists, TickRebuilds, TickLocks, TickRetries, TickDrains
<1> SUFFICES \E x \in LoopStates : /\ loop' = [loop EXCEPT !["tick"] = x]
                                   /\ x.at \in {loop["tick"].at, clock, 0}
    BY <1>0, <1>1, TimesKept
<1>2. CASE TickStarts
    <2> DEFINE x == [AtRest EXCEPT !.pc = "pods", !.at = clock]
    <2>1. x \in LoopStates /\ x.at = clock
        BY <1>0, NoPlanFacts DEF LoopStates
    <2>2. loop' = [loop EXCEPT !["tick"] = x]
        BY <1>2 DEF TickStarts
    <2> HIDE DEF x
    <2> QED BY <2>1, <2>2
<1>3. CASE TickLists
    BY <1>0, <1>3, ListingFacts, GoesFacts DEF TickLists
<1>4. CASE TickRebuilds
    BY <1>0, <1>4, GoesFacts DEF TickRebuilds
<1>5. CASE TickLocks
    <2>1. loop["tick"].lease = None
        BY <1>0, <1>5 DEF TickLocks, At, IInv, LoopInv, Sound
    <2> QED BY <1>0, <1>5, <2>1, TakesLockFacts DEF TickLocks
<1>6. CASE TickRetries
    <2>1. CASE loop' = [loop EXCEPT !["tick"] = AtRest]
        BY <2>1, NoPlanFacts
    <2>2. CASE loop' = [loop EXCEPT !["tick"].pc = "drain", !["tick"].todo = pending]
        <3> DEFINE x == [loop["tick"] EXCEPT !.pc = "drain", !.todo = pending]
        <3>1. x \in LoopStates /\ x.at = loop["tick"].at
            BY <1>0 DEF LoopStates, LockPcs
        <3>2. loop' = [loop EXCEPT !["tick"] = x]
            BY <1>0, <2>2
        <3> HIDE DEF x
        <3> QED BY <3>1, <3>2
    <2> QED BY <1>6, <2>1, <2>2 DEF TickRetries
<1>7. CASE TickDrains
    <2>1. PICK l \in loop["tick"].todo :
              loop' = [loop EXCEPT !["tick"] = IF loop["tick"].todo = {l} THEN AtRest
                                               ELSE [loop["tick"] EXCEPT !.todo = @ \ {l}]]
        BY <1>7 DEF TickDrains
    <2>2. CASE loop' = [loop EXCEPT !["tick"] = AtRest]
        BY <2>2, NoPlanFacts
    <2>3. CASE loop' = [loop EXCEPT !["tick"] = [loop["tick"] EXCEPT !.todo = @ \ {l}]]
        <3> DEFINE x == [loop["tick"] EXCEPT !.todo = @ \ {l}]
        <3>1. x \in LoopStates /\ x.at = loop["tick"].at
            BY <1>0 DEF LoopStates
        <3> HIDE DEF x
        <3> QED BY <2>3, <3>1 DEF x
    <2> QED BY <2>1, <2>2, <2>3
<1> QED BY <1>2, <1>3, <1>4, <1>5, <1>6, <1>7 DEF TickStep

LEMMA TimesSweep ==
    ASSUME IInv, TimeKinds,
           SweepSkips \/ SweepStep \/ \E due \in BOOLEAN : SweepStarts(due)
    PROVE  TimeKinds'
<1>0. /\ loop["sweep"] \in LoopStates /\ loop \in [Loops -> LoopStates] /\ "sweep" \in Loops
      /\ clock \in Nat
    BY DEF IInv, Shape, Loops
<1>1. CASE UNCHANGED <<clock, loop>>
    BY <1>1 DEF TimeKinds
<1>2. CASE \/ SweepSkips \/ SweepListsPods \/ SweepListsNodes \/ SweepReclaims \/ SweepWarns
           \/ \E due \in BOOLEAN : SweepStarts(due)
    <2>1. clock' = clock
        BY <1>2, Zenon DEF SweepSkips, SweepListsPods, SweepListsNodes, SweepReclaims, SweepWarns,
                           SweepStarts
    <2> SUFFICES \E x \in LoopStates : /\ loop' = [loop EXCEPT !["sweep"] = x]
                                       /\ x.at \in {loop["sweep"].at, clock, 0}
        BY <1>0, <2>1, TimesKept
    <2>2. CASE SweepSkips \/ SweepWarns
        <3>1. Goes("sweep", "idle")
            BY <2>2, Zenon DEF SweepSkips, SweepWarns
        <3> QED BY <1>0, <3>1, GoesFacts
    <2>3. CASE SweepListsPods
        BY <1>0, <2>3, ListingFacts DEF SweepListsPods
    <2>4. CASE SweepListsNodes
        <3>1. loop["sweep"].lease = None
            BY <1>0, <2>4 DEF SweepListsNodes, At, IInv, LoopInv, Sound
        <3> QED BY <1>0, <2>4, <3>1, TakesLockFacts DEF SweepListsNodes
    <2>5. CASE SweepReclaims
        <3> DEFINE x == [loop["sweep"] EXCEPT !.pc = "kill", !.resident = {}]
        <3>1. x \in LoopStates /\ x.at = loop["sweep"].at
            BY <1>0 DEF LoopStates, LockPcs
        <3>2. loop' = [loop EXCEPT !["sweep"].pc = "kill", !["sweep"].resident = {}]
            BY <2>5, Zenon DEF SweepReclaims
        <3>3. loop' = [loop EXCEPT !["sweep"] = x]
            BY <1>0, <3>2
        <3> HIDE DEF x
        <3> QED BY <3>1, <3>3
    <2>6. ASSUME NEW due \in BOOLEAN, SweepStarts(due)
          PROVE  \E x \in LoopStates : /\ loop' = [loop EXCEPT !["sweep"] = x]
                                       /\ x.at \in {loop["sweep"].at, clock, 0}
        <3> DEFINE x == [AtRest EXCEPT !.pc = "pods", !.at = clock]
        <3>1. x \in LoopStates /\ x.at = clock
            BY <1>0, NoPlanFacts DEF LoopStates
        <3>2. loop' = [loop EXCEPT !["sweep"] = x]
            BY <2>6 DEF SweepStarts
        <3> HIDE DEF x
        <3> QED BY <3>1, <3>2
    <2> QED BY <1>2, <2>2, <2>3, <2>4, <2>5, <2>6
<1>3. CASE SweepPlans \/ \E p \in Pods : SweepKills(p)
    BY <1>1, <1>3 DEF SweepPlans, SweepKills
<1> QED BY <1>2, <1>3 DEF SweepStep

LEMMA TimesStep == ASSUME IInv, TimeKinds, [Next]_vars PROVE TimeKinds'
<1>1. CASE Passes
    BY <1>1, BoundFacts DEF Passes, TimeKinds, IInv, Shape
<1>2. CASE \/ Refresh \/ (\E n \in Nodes : NodeTurns(n)) \/ UNCHANGED vars
           \/ \E p \in Pods, r \in Reservations : Admit(p, r)
           \/ \E p \in Pods : Bind(p) \/ PodEnds(p) \/ WatchGone(p) \/ NoticeElapses(p)
    <2>1. UNCHANGED <<clock, loop>>
        BY <1>2 DEF Refresh, NodeTurns, Admit, Bind, PodEnds, WatchGone, NoticeElapses, vars
    <2> QED BY <2>1 DEF TimeKinds
<1> QED BY <1>1, <1>2, TimesRelink, TimesTick, TimesSweep DEF Next

-----------------------------------------------------------------------------
\* The boundaries a sweep starts with are no further off than it looks.
LEMMA StartsWithin ==
    ASSUME NEW from \in Int, NEW to \in Int, NEW top \in Nat, to <= top
    PROVE  Starts(from, to) \subseteq 0..top
BY ConstantFacts DEF Starts, Chainable

LEMMA ScopeStarts ==
    ASSUME IInv, Kinds, NEW due \in BOOLEAN, SweepStarts(due) PROVE ScopeKinds'
<1> DEFINE bounds == Starts(clock - Lead, clock + Lead)
           later == Starts(clock, clock + WarnLead)
<1>1. clock \in Nat /\ clock <= MaxTime
    BY DEF IInv, Shape, Kinds, TimeKinds
<1>2. bounds \subseteq 0..MaxTime + Lead
    BY <1>1, BoundFacts, StartsWithin
<1>3. later \subseteq 0..MaxTime + WarnLead
    BY <1>1, BoundFacts, StartsWithin
<1>4. sweep' = [SweepAtRest EXCEPT !.bounds = bounds, !.ahead = bounds \cup later, !.due = due]
      /\ judged' = judged
    BY DEF SweepStarts
<1> HIDE DEF bounds, later
<1>5. bounds \cup later \subseteq 0..MaxTime + Lead + WarnLead
    BY <1>2, <1>3, BoundFacts
<1>6. /\ sweep'.bounds = bounds /\ sweep'.ahead = bounds \cup later
      /\ sweep'.capacity = 0 /\ sweep'.kills = {}
    BY <1>4 DEF SweepAtRest
<1> QED BY <1>2, <1>4, <1>5, <1>6 DEF ScopeKinds, Kinds

\* Capacity is counted over the nodes that are up.
LEMMA ScopeListsNodes ==
    ASSUME IInv, Kinds, SweepListsNodes PROVE ScopeKinds'
<1> DEFINE c == ClassCapacity(up)
<1>1. c \in Nat
    BY ClassCapacityNat DEF Kinds, RecordKinds
<1>2. /\ sweep' = [sweep EXCEPT !.capacity = c, !.counted = {p \in Pods : NodeOf[p] \in up}]
      /\ judged' = judged
    BY DEF SweepListsNodes, history
<1> HIDE DEF c
<1>3. /\ sweep'.capacity = c /\ sweep'.bounds = sweep.bounds /\ sweep'.ahead = sweep.ahead
      /\ sweep'.kills = sweep.kills /\ sweep'.doomed = sweep.doomed
    BY <1>2 DEF IInv, Shape, SweepStates
<1> QED BY <1>1, <1>2, <1>3 DEF ScopeKinds, Kinds

\* What is doomed is to be deleted, and the other way round.
LEMMA DoomScope ==
    ASSUME IInv, ScopeKinds, NEW S
    PROVE  /\ Doom(S).kills \subseteq Doom(S).doomed /\ Doom(S).bounds = sweep.bounds
           /\ Doom(S).ahead = sweep.ahead /\ Doom(S).capacity = sweep.capacity
BY DEF Doom, ScopeKinds, IInv, Shape, SweepStates

LEMMA ScopePlans ==
    ASSUME IInv, Kinds, SweepPlans PROVE ScopeKinds'
<1>0. ScopeKinds
    BY DEF Kinds
<1>1. PICK b \in sweep.bounds, ph \in {"A", "B"} :
          \/ /\ judged' = judged
             /\ sweep' = [sweep EXCEPT !.bounds = @ \ {b}]
          \/ /\ judged' = judged \cup {<<b, ph>>}
             /\ \E S \in SUBSET Pool(Remaining, loop["sweep"], loop["sweep"].at) :
                   sweep' = [Doom(S) EXCEPT !.bounds = @ \ {b}]
    BY SweepPlansFacts
<1>2. \A m \in judged' : m[1] <= MaxTime + Lead
    BY <1>0, <1>1, BoundFacts DEF ScopeKinds
<1>3. CASE sweep' = [sweep EXCEPT !.bounds = @ \ {b}]
    <2>1. /\ sweep'.bounds \subseteq sweep.bounds /\ sweep'.ahead = sweep.ahead
          /\ sweep'.capacity = sweep.capacity /\ sweep'.kills = sweep.kills
          /\ sweep'.doomed = sweep.doomed
        BY <1>3 DEF IInv, Shape, SweepStates
    <2> QED BY <1>0, <1>2, <2>1 DEF ScopeKinds
<1>4. ASSUME NEW S \in SUBSET Pool(Remaining, loop["sweep"], loop["sweep"].at),
             sweep' = [Doom(S) EXCEPT !.bounds = @ \ {b}]
      PROVE  ScopeKinds'
    <2>1. S \in SUBSET Pods
        BY PoolFacts
    <2>2. Doom(S) \in SweepStates(sweep.capacity)
        BY <2>1, DoomFacts
    <2>3. /\ sweep'.bounds \subseteq Doom(S).bounds /\ sweep'.ahead = Doom(S).ahead
          /\ sweep'.capacity = Doom(S).capacity /\ sweep'.kills = Doom(S).kills
          /\ sweep'.doomed = Doom(S).doomed
        BY <1>4, <2>2 DEF SweepStates
    <2> QED BY <1>0, <1>2, <2>3, DoomScope DEF ScopeKinds
<1> QED BY <1>1, <1>3, <1>4

LEMMA ScopeReclaims ==
    ASSUME IInv, Kinds, SweepReclaims PROVE ScopeKinds'
<1>0. ScopeKinds
    BY DEF Kinds
<1>1. PICK S \in Victims(IF sweep.due THEN Shortfall(Remaining) ELSE 0,
                         HeadroomPool(Remaining, loop["sweep"])) :
          sweep' = [Doom(S) EXCEPT
                      !.want = [p \in Pods |-> Wanted(p, Remaining \ S, loop["sweep"])],
                      !.capacity = 0, !.counted = {}]
    BY Zenon DEF SweepReclaims
<1>2. S \subseteq HeadroomPool(Remaining, loop["sweep"])
    BY <1>1, VictimsFacts
<1>3. S \in SUBSET Pods
    BY <1>2, PoolFacts DEF HeadroomPool
<1>4. Doom(S) \in SweepStates(sweep.capacity)
    BY <1>3, DoomFacts
<1>5. /\ sweep'.bounds = Doom(S).bounds /\ sweep'.ahead = Doom(S).ahead
      /\ sweep'.capacity = 0 /\ sweep'.kills = Doom(S).kills /\ sweep'.doomed = Doom(S).doomed
    BY <1>1, <1>4 DEF SweepStates
<1>6. judged' = judged
    <2>1. UNCHANGED history
        BY Zenon DEF SweepReclaims
    <2> QED BY <2>1 DEF history
<1> QED BY <1>0, <1>5, <1>6, DoomScope DEF ScopeKinds

\* No other step has anything to do with what a sweep has in scope.
LEMMA ScopeStep == ASSUME IInv, Kinds, [Next]_vars PROVE ScopeKinds'
<1>0. ScopeKinds
    BY DEF Kinds
<1>1. CASE UNCHANGED <<sweep, judged>>
    BY <1>0, <1>1 DEF ScopeKinds
<1>2. CASE \/ Passes \/ Refresh \/ (\E n \in Nodes : NodeTurns(n)) \/ UNCHANGED vars
           \/ \E p \in Pods, r \in Reservations : Admit(p, r)
           \/ \E p \in Pods : Bind(p) \/ PodEnds(p) \/ WatchGone(p) \/ NoticeElapses(p)
    <2>1. UNCHANGED <<sweep, judged>>
        BY <1>2 DEF Passes, Refresh, NodeTurns, Admit, Bind, PodEnds, WatchGone, NoticeElapses,
                    vars, history
    <2> QED BY <1>1, <2>1
<1>3. CASE (\E w \in Loops : RelinkStep(w)) \/ TickStarts \/ TickStep
    BY <1>1, <1>3, RelinkStepFacts, TickStepFacts
<1>4. CASE SweepListsPods
    BY <1>1, <1>4 DEF SweepListsPods, history
<1>5. CASE SweepSkips \/ SweepWarns
    <2>1. sweep' = SweepAtRest /\ UNCHANGED history
        BY <1>5, Zenon DEF SweepSkips, SweepWarns
    <2>2. /\ SweepAtRest.bounds = {} /\ SweepAtRest.ahead = {} /\ SweepAtRest.kills = {}
          /\ SweepAtRest.capacity = 0
        BY DEF SweepAtRest
    <2> QED BY <1>0, <2>1, <2>2 DEF ScopeKinds, history
<1>6. ASSUME NEW p \in Pods, SweepKills(p) PROVE ScopeKinds'
    <2>1. sweep' = [sweep EXCEPT !.kills = @ \ {p}] /\ judged' = judged
        BY <1>6 DEF SweepKills, history
    <2>2. /\ sweep'.bounds = sweep.bounds /\ sweep'.ahead = sweep.ahead
          /\ sweep'.capacity = sweep.capacity /\ sweep'.kills \subseteq sweep.kills
          /\ sweep'.doomed = sweep.doomed
        BY <2>1 DEF IInv, Shape, SweepStates
    <2> QED BY <1>0, <2>1, <2>2 DEF ScopeKinds
<1> QED BY <1>2, <1>3, <1>4, <1>5, <1>6, ScopeStarts, ScopeListsNodes, ScopePlans, ScopeReclaims
        DEF Next, SweepStep

-----------------------------------------------------------------------------
LEMMA KindsInvariance == Spec => [](IInv /\ Kinds)
<1>1. Init => IInv /\ Kinds
    BY InitInv, KindsInit
<1>2. ASSUME IInv, Kinds, [Next]_vars PROVE IInv' /\ Kinds'
    BY <1>2, NextInv, RecordsStep, TimesStep, ScopeStep DEF Kinds
<1> QED BY <1>1, <1>2, PTL DEF Spec

\* Every variable keeps to its kind; among others: the boundaries in scope are
\* within the lead of a time the clock had (upcoming_boundaries), a pod to be
\* deleted is one the sweep has doomed (to_kill and doomed), and the list shows
\* only reservations that the app has had.
THEOREM TypeCorrect == Spec => []TypeOK
<1> DEFINE Marks == (0..MaxTime + Lead) \X {"A", "B"}
           LoopKinds == [
              pc : {"idle", "pods", "nodes", "rebuild", "lock", "merge", "adopt", "plan", "kill",
                    "retry", "drain"},
              at : 0..MaxTime, view : [Pods -> Refs], resident : SUBSET Pods,
              plan : [Pods -> Bookings \cup {None}], lease : Leases \cup {None},
              todo : SUBSET Leases]
           Sweeps == [bounds : SUBSET (0..MaxTime + Lead),
                      ahead : SUBSET (0..MaxTime + Lead + WarnLead),
                      due : BOOLEAN, capacity : Nat, counted : SUBSET Pods, doomed : SUBSET Pods,
                      kills : SUBSET Pods, want : [Pods -> {"none", "given", "elapsed"}]]
<1>1. ASSUME IInv, Kinds PROVE TypeOK
    <2> USE <1>1
    <2>1. /\ clock \in 0..MaxTime /\ pending \subseteq Leases /\ merged \subseteq Leases
          /\ listed \subseteq {r \in Reservations : row[r] # "absent"}
        BY BoundFacts DEF IInv, Shape, MergedInv, Kinds, TimeKinds, RecordKinds
    <2>2. loop \in [Loops -> LoopKinds]
        <3>1. ASSUME NEW w \in Loops PROVE loop[w] \in LoopKinds
            <4>1. loop[w] \in LoopStates /\ loop[w].at <= MaxTime
                BY DEF IInv, Shape, Kinds, TimeKinds
            <4>2. loop[w].at \in 0..MaxTime
                BY <4>1, BoundFacts DEF LoopStates
            <4> QED BY <4>1, <4>2 DEF LoopStates, LockPcs
        <3> HIDE DEF LoopKinds
        <3> QED BY <3>1 DEF IInv, Shape
    <2>3. sweep \in Sweeps
        BY DEF IInv, Shape, SweepStates, Kinds, ScopeKinds
    <2>4. judged \subseteq Marks /\ fired \subseteq Marks
        <3>1. \A m \in judged : m \in Nat \X {"A", "B"} /\ m[1] <= MaxTime + Lead
            BY DEF IInv, MarksInv, Kinds, ScopeKinds
        <3>2. \A m \in judged : m \in Marks
            BY <3>1, BoundFacts
        <3> HIDE DEF Marks
        <3> QED BY <3>2 DEF IInv, MarksInv
    <2>5. /\ row \in [Reservations -> {"absent", "active", "cancelled"}]
          /\ pod \in [Pods -> {"absent", "waiting", "running", "leaving", "gone"}]
          /\ ref \in [Pods -> Refs] /\ warn \in [Pods -> {"none", "given", "elapsed"}]
        BY DEF IInv, Shape
    <2>6. /\ occupancy \in [Pods -> Refs] /\ up \subseteq Nodes /\ outstanding \in BOOLEAN
          /\ faults \in 0..MaxFaults /\ moved \subseteq Pods
          /\ sweep.kills \subseteq sweep.doomed
        BY DEF Kinds, RecordKinds, ScopeKinds
    <2> QED BY <2>1, <2>2, <2>3, <2>4, <2>5, <2>6, Zenon DEF TypeOK, Refs
<1>2. IInv /\ Kinds => TypeOK
    BY <1>1
<1> QED BY <1>2, KindsInvariance, PTL

-----------------------------------------------------------------------------
(* Chains.  The recursion of Chain is unfolded here without the induction  *)
(* theorems: of the numbers that would refute a claim there is a least one *)
(* (LeastExists), and the one before it does not.                          *)

\* The one that continues s, and the bookings S with those that continue them.
Longest(L, t, s) == CHOOSE x \in Abutting(L, s, t) : \A y \in Abutting(L, s, t) : End[x] >= End[y]
Grow(L, t, S) == S \cup {Longest(L, t, s) : s \in {x \in S : Abutting(L, x, t) # {}}}

\* The first n steps of the recursion, as a function of their own.
Run(L, r, t, n, g) == g = [k \in 0..n |-> IF k = 0 THEN {r} ELSE Grow(L, t, g[k - 1])]

LEMMA RunFacts ==
    ASSUME NEW L, NEW r, NEW t, NEW n \in Nat, NEW g, Run(L, r, t, n, g)
    PROVE  g[0] = {r} /\ \A k \in 1..n : g[k] = Grow(L, t, g[k - 1])
<1> DEFINE G(S) == Grow(L, t, S)
<1>1. g = [k \in 0..n |-> IF k = 0 THEN {r} ELSE G(g[k - 1])]
    BY DEF Run
<1> HIDE DEF G
<1>2. g[0] = {r}
    BY <1>1
<1>3. ASSUME NEW k \in 1..n PROVE g[k] = G(g[k - 1])
    <2>1. k \in 0..n /\ k # 0
        OBVIOUS
    <2>2. g[k] = IF k = 0 THEN {r} ELSE G(g[k - 1])
        BY <1>1, <2>1, Zenon
    <2> QED BY <2>1, <2>2, Zenon
<1> QED BY <1>2, <1>3 DEF G

\* Any number of steps can be taken ...
LEMMA RunExists ==
    ASSUME NEW L, NEW r, NEW t PROVE \A n \in Nat : \E g : Run(L, r, t, n, g)
<1> DEFINE G(S) == Grow(L, t, S)
           T == {n \in Nat : ~ \E g : Run(L, r, t, n, g)}
<1> SUFFICES ASSUME T # {} PROVE FALSE
    OBVIOUS
<1>1. T \in SUBSET Nat
    OBVIOUS
<1>2. PICK n \in T : \A m \in T : n <= m
    BY <1>1, LeastExists, Zenon
<1>3. n \in Nat /\ ~ \E g : Run(L, r, t, n, g)
    OBVIOUS
<1>4. CASE n = 0
    <2> DEFINE g == [k \in 0..0 |-> {r}]
    <2>1. g = [k \in 0..0 |-> IF k = 0 THEN {r} ELSE G(g[k - 1])]
        <3>1. \A k \in 0..0 : k = 0
            OBVIOUS
        <3> HIDE DEF G
        <3> QED BY <3>1
    <2> QED BY <1>3, <1>4, <2>1 DEF Run
<1>5. CASE n # 0
    <2>1. n - 1 \in Nat /\ n - 1 \notin T
        BY <1>2, <1>3, <1>5
    <2>2. PICK g : Run(L, r, t, n - 1, g)
        BY <2>1
    <2>3. g[0] = {r} /\ \A k \in 1..n - 1 : g[k] = G(g[k - 1])
        BY <2>1, <2>2, RunFacts
    <2> DEFINE h == [k \in 0..n |-> IF k < n THEN g[k] ELSE G(g[n - 1])]
    <2> HIDE DEF G, T
    <2>4. \A k \in 0..n : h[k] = IF k = 0 THEN {r} ELSE G(h[k - 1])
        <3>1. h[0] = {r}
            BY <1>3, <1>5, <2>3
        <3>2. ASSUME NEW k \in 1..n PROVE h[k] = G(h[k - 1])
            <4>1. h[k - 1] = g[k - 1]
                BY <1>3
            <4>2. CASE k < n
                <5>1. h[k] = g[k] /\ k \in 1..n - 1
                    BY <1>3, <4>2
                <5> QED BY <2>3, <4>1, <5>1
            <4>3. CASE k = n
                BY <1>3, <4>1, <4>3
            <4> QED BY <1>3, <4>2, <4>3
        <3> HIDE DEF h
        <3> QED BY <1>3, <3>1, <3>2
    <2>5. h = [k \in 0..n |-> IF k = 0 THEN {r} ELSE G(h[k - 1])]
        <3>1. h = [k \in 0..n |-> h[k]]
            OBVIOUS
        <3> HIDE DEF h
        <3> QED BY <2>4, <3>1
    <2> HIDE DEF h
    <2>6. Run(L, r, t, n, h)
        BY <2>5 DEF Run, G
    <2> QED BY <1>3, <2>6
<1> QED BY <1>4, <1>5

\* ... in one way.
LEMMA RunsAgree ==
    ASSUME NEW L, NEW r, NEW t, NEW n \in Nat, NEW m \in Nat, NEW g, NEW h,
           Run(L, r, t, n, g), Run(L, r, t, m, h), n <= m
    PROVE  \A k \in 0..n : g[k] = h[k]
<1> DEFINE T == {k \in 0..n : g[k] # h[k]}
<1> SUFFICES ASSUME T # {} PROVE FALSE
    OBVIOUS
<1>1. T \in SUBSET Nat
    OBVIOUS
<1>2. PICK k \in T : \A j \in T : k <= j
    BY <1>1, LeastExists, Zenon
<1>3. k \in 0..n /\ g[k] # h[k]
    OBVIOUS
<1>4. /\ g[0] = {r} /\ \A j \in 1..n : g[j] = Grow(L, t, g[j - 1])
      /\ h[0] = {r} /\ \A j \in 1..m : h[j] = Grow(L, t, h[j - 1])
    BY RunFacts
<1>5. k # 0
    BY <1>3, <1>4
<1>6. k - 1 \in 0..n /\ k - 1 \notin T /\ k \in 1..n /\ k \in 1..m
    BY <1>2, <1>3, <1>5
<1>7. g[k - 1] = h[k - 1]
    BY <1>6
<1> HIDE DEF T
<1> QED BY <1>3, <1>4, <1>6, <1>7

\* The chain of r is what f, the steps of the recursion, has come to.
Unfolds(L, r, t, f) ==
    /\ f[0] = {r} /\ \A k \in Nat : f[k + 1] = Grow(L, t, f[k])
    /\ Chain(L, r, t) = f[Cardinality(L)]

\* The function that Chain names does what it says.
LEMMA ChainUnfolds ==
    ASSUME NEW L, NEW r, NEW t PROVE \E f : Unfolds(L, r, t, f)
<1> DEFINE G(S) == Grow(L, t, S)
           D(f) == f = [k \in Nat |-> IF k = 0 THEN {r} ELSE G(f[k - 1])]
           R(k) == CHOOSE g : Run(L, r, t, k, g)
           e == [k \in Nat |-> R(k)[k]]
<1>1. \A k \in Nat : Run(L, r, t, k, R(k))
    BY RunExists
<1>2. \A k \in Nat : k # 0 => R(k)[k - 1] = R(k - 1)[k - 1]
    <2> SUFFICES ASSUME NEW k \in Nat, k # 0 PROVE R(k)[k - 1] = R(k - 1)[k - 1]
        OBVIOUS
    <2>1. k - 1 \in Nat /\ k - 1 <= k /\ k - 1 \in 0..k - 1
        OBVIOUS
    <2>2. Run(L, r, t, k, R(k)) /\ Run(L, r, t, k - 1, R(k - 1))
        BY <1>1, <2>1
    <2> HIDE DEF R
    <2> QED BY <2>1, <2>2, RunsAgree
<1>3. \A k \in Nat : R(k)[0] = {r} /\ (k # 0 => R(k)[k] = G(R(k)[k - 1]))
    <2> SUFFICES ASSUME NEW k \in Nat PROVE R(k)[0] = {r} /\ (k # 0 => R(k)[k] = G(R(k)[k - 1]))
        OBVIOUS
    <2>1. Run(L, r, t, k, R(k))
        BY <1>1
    <2> HIDE DEF R
    <2>2. R(k)[0] = {r} /\ \A j \in 1..k : R(k)[j] = Grow(L, t, R(k)[j - 1])
        BY <2>1, RunFacts
    <2> QED BY <2>2
<1> HIDE DEF R, G
<1>4. \A k \in Nat : e[k] = IF k = 0 THEN {r} ELSE G(e[k - 1])
    <2> SUFFICES ASSUME NEW k \in Nat PROVE e[k] = IF k = 0 THEN {r} ELSE G(e[k - 1])
        OBVIOUS
    <2>1. \A j \in Nat : e[j] = R(j)[j]
        OBVIOUS
    <2> HIDE DEF e
    <2>2. CASE k = 0
        BY <1>3, <2>1, <2>2, Zenon
    <2>3. CASE k # 0
        <3>1. k - 1 \in Nat
            BY <2>3
        <3>2. e[k] = G(R(k)[k - 1])
            BY <1>3, <2>1, <2>3, Zenon
        <3>3. R(k)[k - 1] = e[k - 1]
            BY <1>2, <2>1, <2>3, <3>1, Zenon
        <3> QED BY <2>3, <3>2, <3>3, Zenon
    <2> QED BY <2>2, <2>3
<1>5. e = [k \in Nat |-> IF k = 0 THEN {r} ELSE G(e[k - 1])]
    <2>1. e = [k \in Nat |-> e[k]]
        OBVIOUS
    <2> HIDE DEF e
    <2> QED BY <1>4, <2>1
<1> HIDE DEF e
<1> DEFINE f == CHOOSE x : D(x)
<1>6. D(f)
    BY <1>5
<1>7. Chain(L, r, t) = f[Cardinality(L)]
    BY Zenon DEF Chain, Longest, Grow, G
<1> HIDE DEF f
<1>8. f[0] = {r} /\ \A k \in Nat : f[k + 1] = G(f[k])
    <2>1. \A k \in Nat : f[k] = IF k = 0 THEN {r} ELSE G(f[k - 1])
        BY <1>6
    <2>2. f[0] = {r}
        <3>1. f[0] = IF 0 = 0 THEN {r} ELSE G(f[0 - 1])
            BY <2>1
        <3> QED BY <3>1, Zenon
    <2>3. ASSUME NEW k \in Nat PROVE f[k + 1] = G(f[k])
        <3>1. k + 1 \in Nat /\ k + 1 # 0 /\ k + 1 - 1 = k
            OBVIOUS
        <3>2. \A j \in Nat : j # 0 => f[j] = G(f[j - 1])
            BY <2>1, Zenon
        <3>3. f[k + 1] = G(f[k + 1 - 1])
            BY <3>1, <3>2
        <3> QED BY <3>1, <3>3
    <2> QED BY <2>2, <2>3
<1> QED BY <1>7, <1>8 DEF G, Unfolds

\* Of some reservations, one ends last.
LEMMA LatestExists ==
    ASSUME NEW S \in SUBSET Reservations, S # {}
    PROVE  \E x \in S : \A y \in S : End[x] >= End[y]
<1> DEFINE Latest(Q, x) == \A y \in Q : End[x] >= End[y]
           C == {Q \in SUBSET Reservations : Q # {} /\ ~ \E x \in Q : Latest(Q, x)}
           T == {n \in Nat : \E Q \in C : Cardinality(Q) = n}
<1> SUFFICES ASSUME C # {} PROVE FALSE
    OBVIOUS
<1>1. \A Q \in SUBSET Reservations : IsFiniteSet(Q) /\ Cardinality(Q) \in Nat
    BY ConstantsAssumption, FS_Subset, FS_CardinalityType
<1>2. T \in SUBSET Nat /\ T # {}
    <2>1. PICK Q : Q \in C
        OBVIOUS
    <2>2. Cardinality(Q) \in Nat
        BY <1>1, <2>1
    <2> HIDE DEF C
    <2>3. Cardinality(Q) \in T
        BY <2>1, <2>2
    <2> QED BY <2>3
<1>3. PICK n \in T : \A m \in T : n <= m
    BY <1>2, LeastExists, Zenon
<1>4. PICK Q \in C : Cardinality(Q) = n
    OBVIOUS
<1>5. Q \in SUBSET Reservations /\ Q # {} /\ ~ \E x \in Q : Latest(Q, x)
    OBVIOUS
<1>6. PICK z \in Q : TRUE
    BY <1>5
<1>7. /\ Q \ {z} \in SUBSET Reservations /\ IsFiniteSet(Q)
      /\ Cardinality(Q \ {z}) = n - 1 /\ n \in Nat /\ Cardinality(Q \ {z}) \in Nat
    BY <1>1, <1>4, <1>5, <1>6, FS_RemoveElement
<1>8. Q \ {z} \notin C
    <2>1. ~ n <= n - 1
        BY <1>7
    <2>2. n - 1 \notin T
        BY <1>3, <2>1
    <2> HIDE DEF C
    <2> QED BY <1>7, <2>2
<1>9. \A x \in Q : End[x] \in Nat
    BY <1>5, ConstantsAssumption
<1>10. CASE Q \ {z} = {}
    <2>1. Latest(Q, z)
        BY <1>6, <1>9, <1>10
    <2> QED BY <1>5, <1>6, <2>1
<1>11. CASE Q \ {z} # {}
    <2>1. PICK x \in Q \ {z} : Latest(Q \ {z}, x)
        BY <1>7, <1>8, <1>11
    <2>2. Latest(Q, x) \/ Latest(Q, z)
        BY <1>6, <1>9, <2>1
    <2> HIDE DEF Latest
    <2> QED BY <1>5, <1>6, <2>1, <2>2
<1> QED BY <1>10, <1>11

\* What continues a booking is one of those that may, and none of them ends later.
LEMMA LongestFacts ==
    ASSUME NEW L \in SUBSET Reservations, NEW t, NEW s, Abutting(L, s, t) # {}
    PROVE  /\ Longest(L, t, s) \in Abutting(L, s, t)
           /\ \A y \in Abutting(L, s, t) : End[Longest(L, t, s)] >= End[y]
<1>1. Abutting(L, s, t) \in SUBSET Reservations
    BY DEF Abutting
<1>2. \E x \in Abutting(L, s, t) : \A y \in Abutting(L, s, t) : End[x] >= End[y]
    BY <1>1, LatestExists
<1> QED BY <1>2, Zenon DEF Longest

\* One more step adds only bookings that continue what is there.
LEMMA GrowFacts ==
    ASSUME NEW L \in SUBSET Reservations, NEW t, NEW S
    PROVE  /\ S \subseteq Grow(L, t, S) /\ Grow(L, t, S) \subseteq S \cup L
           /\ \A s \in Grow(L, t, S) \ S : \E x \in S : s \in Abutting(L, x, t)
           /\ \A x \in S : Abutting(L, x, t) # {} => Longest(L, t, x) \in Grow(L, t, S)
<1>1. \A s \in Grow(L, t, S) \ S : \E x \in S : s \in Abutting(L, x, t)
    BY LongestFacts DEF Grow
<1>2. \A x : Abutting(L, x, t) \subseteq L
    BY DEF Abutting
<1>3. S \subseteq Grow(L, t, S) /\ \A x \in S : Abutting(L, x, t) # {} => Longest(L, t, x) \in Grow(L, t, S)
    BY DEF Grow
<1> QED BY <1>1, <1>2, <1>3

\* The bookings S are linked to r: each is of the same owner and size as r and
\* starts when another of them ends.
Linked(L, r, t, S) ==
    r \in S /\ \A s \in S \ {r} : /\ s \in L /\ Owner[s] = Owner[r] /\ Size[s] = Size[r]
                                  /\ \E x \in S : s \in Abutting(L, x, t)

LEMMA LinkedGrows ==
    ASSUME NEW L \in SUBSET Reservations, NEW r, NEW t, NEW S, Linked(L, r, t, S)
    PROVE  Linked(L, r, t, Grow(L, t, S))
<1> DEFINE G == Grow(L, t, S)
<1>1. S \subseteq G /\ \A s \in G \ S : \E x \in S : s \in Abutting(L, x, t)
    BY GrowFacts
<1> HIDE DEF G
<1>2. \A x \in S : Owner[x] = Owner[r] /\ Size[x] = Size[r]
    BY DEF Linked
<1>3. \A x, s : s \in Abutting(L, x, t) => s \in L /\ Owner[s] = Owner[x] /\ Size[s] = Size[x]
    BY DEF Abutting
<1>4. ASSUME NEW s \in G \ {r}
      PROVE  /\ s \in L /\ Owner[s] = Owner[r] /\ Size[s] = Size[r]
             /\ \E x \in G : s \in Abutting(L, x, t)
    <2>1. CASE s \in S
        BY <1>1, <1>4, <2>1 DEF Linked
    <2>2. CASE s \notin S
        <3>1. PICK x \in S : s \in Abutting(L, x, t)
            BY <1>1, <1>4, <2>2
        <3>2. s \in L /\ Owner[s] = Owner[x] /\ Size[s] = Size[x]
            BY <1>3, <3>1, Zenon
        <3> QED BY <1>1, <1>2, <3>1, <3>2
    <2> QED BY <2>1, <2>2
<1>5. r \in G
    BY <1>1, Zenon DEF Linked
<1>6. Linked(L, r, t, G)
    BY <1>4, <1>5, Zenon DEF Linked
<1> QED BY <1>6, Zenon DEF G

\* A chain is one owner's, of one size and without a gap (ControllerState._chain_for).
THEOREM ChainsLinked ==
    ASSUME NEW L \in SUBSET Reservations, NEW r \in Reservations, NEW t
    PROVE  Linked(L, r, t, Chain(L, r, t))
<1>0. PICK f : Unfolds(L, r, t, f)
    BY ChainUnfolds
<1>1. /\ f[0] = {r} /\ \A k \in Nat : f[k + 1] = Grow(L, t, f[k])
      /\ Chain(L, r, t) = f[Cardinality(L)]
    BY <1>0 DEF Unfolds
<1> DEFINE T == {k \in Nat : ~ Linked(L, r, t, f[k])}
<1>2. T = {}
    <2> SUFFICES ASSUME T # {} PROVE FALSE
        OBVIOUS
    <2>1. T \in SUBSET Nat
        OBVIOUS
    <2>2. PICK k \in T : \A j \in T : k <= j
        BY <2>1, LeastExists, Zenon
    <2>3. k # 0
        <3>1. Linked(L, r, t, {r})
            BY DEF Linked
        <3> QED BY <1>1, <3>1
    <2>4. k - 1 \in Nat /\ k - 1 \notin T /\ k - 1 + 1 = k
        BY <2>2, <2>3
    <2>5. f[k] = Grow(L, t, f[k - 1])
        BY <1>1, <2>4
    <2>6. Linked(L, r, t, f[k - 1])
        BY <2>4
    <2>7. Linked(L, r, t, f[k])
        BY <2>5, <2>6, LinkedGrows
    <2> QED BY <2>7
<1>3. Cardinality(L) \in Nat
    BY ConstantsAssumption, FS_Subset, FS_CardinalityType
<1> QED BY <1>1, <1>2, <1>3

\* A chain is complete: a booking in it that another continues is continued by
\* the one that ends last, however long the chain is (guarantee_end).
THEOREM ChainsComplete ==
    ASSUME NEW L \in SUBSET Reservations, NEW r \in Reservations, NEW t,
           NEW s \in Chain(L, r, t), Abutting(L, s, t) # {}
    PROVE  \E x \in Chain(L, r, t) \cap Abutting(L, s, t) :
              \A y \in Abutting(L, s, t) : End[x] >= End[y]
<1>0. PICK f : Unfolds(L, r, t, f)
    BY ChainUnfolds
<1>1. /\ f[0] = {r} /\ \A k \in Nat : f[k + 1] = Grow(L, t, f[k])
      /\ Chain(L, r, t) = f[Cardinality(L)]
    BY <1>0 DEF Unfolds
<1>2. IsFiniteSet(L) /\ Cardinality(L) \in Nat
    BY ConstantsAssumption, FS_Subset, FS_CardinalityType
<1>3. IsFiniteSet(L \cup {r}) /\ Cardinality(L \cup {r}) <= Cardinality(L) + 1
    BY <1>2, FS_AddElement
<1> DEFINE Within(k) == f[k] \subseteq L \cup {r}
           Settles(k) == Grow(L, t, f[k]) = f[k] \/ Cardinality(f[k]) >= k + 1
           T == {k \in Nat : ~ (Within(k) /\ Settles(k))}
<1>4. T = {}
    <2> SUFFICES ASSUME T # {} PROVE FALSE
        OBVIOUS
    <2>1. T \in SUBSET Nat
        OBVIOUS
    <2>2. PICK k \in T : \A j \in T : k <= j
        BY <2>1, LeastExists, Zenon
    <2>3. k # 0
        <3>1. Cardinality({r}) = 1
            BY FS_Singleton
        <3> QED BY <1>1, <3>1
    <2>4. k - 1 \in Nat /\ k - 1 \notin T /\ k - 1 + 1 = k
        BY <2>2, <2>3
    <2>5. f[k] = Grow(L, t, f[k - 1])
        BY <1>1, <2>4
    <2>6. f[k - 1] \subseteq L \cup {r}
        BY <2>4
    <2>7. f[k - 1] \subseteq f[k] /\ f[k] \subseteq L \cup {r}
        BY <2>5, <2>6, GrowFacts
    <2>8. IsFiniteSet(f[k])
        BY <1>3, <2>7, FS_Subset
    <2>9. CASE f[k] = f[k - 1]
        BY <2>5, <2>7, <2>9
    <2>10. CASE f[k] # f[k - 1]
        <3>1. Cardinality(f[k - 1]) >= k
            BY <2>4, <2>5, <2>10
        <3>2. /\ Cardinality(f[k - 1]) <= Cardinality(f[k])
              /\ Cardinality(f[k - 1]) # Cardinality(f[k])
            BY <2>7, <2>8, <2>10, FS_Subset
        <3>3. Cardinality(f[k]) \in Nat /\ Cardinality(f[k - 1]) \in Nat
            BY <2>7, <2>8, FS_Subset, FS_CardinalityType
        <3>4. Cardinality(f[k]) >= k + 1
            BY <2>4, <3>1, <3>2, <3>3
        <3> QED BY <2>7, <3>4
    <2> QED BY <2>9, <2>10
<1> DEFINE N == Cardinality(L)
<1>5. f[N] \subseteq L \cup {r} /\ (Grow(L, t, f[N]) = f[N] \/ Cardinality(f[N]) >= N + 1)
    BY <1>2, <1>4
<1> HIDE DEF T
<1>6. Grow(L, t, f[N]) = f[N]
    <2>1. CASE Cardinality(f[N]) >= N + 1
        <3>1. Cardinality(f[N]) <= Cardinality(L \cup {r})
            BY <1>3, <1>5, FS_Subset
        <3>2. Cardinality(f[N]) \in Nat /\ Cardinality(L \cup {r}) \in Nat
            BY <1>3, <1>5, FS_Subset, FS_CardinalityType
        <3>3. Cardinality(f[N]) = Cardinality(L \cup {r})
            BY <1>2, <1>3, <2>1, <3>1, <3>2
        <3>4. f[N] = L \cup {r}
            BY <1>3, <1>5, <3>3, FS_Subset
        <3> QED BY <3>4, GrowFacts
    <2> QED BY <1>5, <2>1
<1>7. s \in f[N] /\ Longest(L, t, s) \in f[N]
    BY <1>1, <1>6, GrowFacts
<1> QED BY <1>1, <1>7, LongestFacts

\* A guarantee that is over leaves nothing of the chain, and nothing that would
\* continue it.
LEMMA OverFacts ==
    ASSUME NEW L \in SUBSET Reservations, NEW r \in Reservations, NEW t, NEW at \in Int,
           OverBy(L, r, t, at)
    PROVE  End[r] <= at /\ \A s \in Chain(L, r, t) : \A y \in Abutting(L, s, t) : End[y] <= at
<1>1. r \in Chain(L, r, t)
    BY ChainsLinked DEF Linked
<1>2. ASSUME NEW s \in Chain(L, r, t), NEW y \in Abutting(L, s, t) PROVE End[y] <= at
    <2>1. PICK x \in Chain(L, r, t) \cap Abutting(L, s, t) : End[x] >= End[y]
        BY ChainsComplete
    <2>2. End[x] <= at
        BY <2>1 DEF OverBy
    <2>3. End[x] \in Nat /\ End[y] \in Nat
        BY ConstantsAssumption DEF Abutting
    <2> QED BY <2>1, <2>2, <2>3
<1> QED BY <1>1, <1>2 DEF OverBy

\* GuaranteeKept without the recursion: when a pod the tick has not moved since the
\* list is preempted under a listed booking, that window has ended, and no booking
\* of the same owner and size that may be chained continues it.
NothingContinues ==
    [][\A p \in Pods : Preempts(p) /\ p \notin moved /\ ref[p] \in listed =>
          /\ End[ref[p]] <= loop["sweep"].at
          /\ Abutting(Chainable, ref[p], loop["sweep"].at) = {}]_vars

\* A pod preempted under a listed booking that the tick has not moved is outside
\* its window, and its owner has not booked the time that follows (past_guarantee,
\* _chain_for), whatever chains the bookings form.
THEOREM GuaranteesSpent == Spec => NothingContinues
<1> DEFINE t == loop["sweep"].at
           B == \A p \in Pods : Preempts(p) /\ p \notin moved /\ ref[p] \in listed =>
                   /\ End[ref[p]] <= t
                   /\ Abutting(Chainable, ref[p], t) = {}
<1>1. IInv /\ [Next]_vars => B
    <2> SUFFICES ASSUME IInv, [Next]_vars, NEW p \in Pods, Preempts(p), p \notin moved,
                        ref[p] \in listed
                 PROVE  End[ref[p]] <= t /\ Abutting(Chainable, ref[p], t) = {}
        OBVIOUS
    <2>1. ref[p] \in Reservations /\ Chainable \in SUBSET Reservations /\ t \in Int
        BY ConstantFacts DEF IInv, Shape, LoopStates, Loops, Chainable
    <2>2. OverBy(Chainable, ref[p], t, t)
        BY PreemptsOver DEF Over
    <2> HIDE DEF t
    <2>3. End[ref[p]] <= t /\ \A y \in Abutting(Chainable, ref[p], t) : End[y] <= t
        BY <2>1, <2>2, OverFacts, ChainsLinked DEF Linked
    <2>4. \A y \in Abutting(Chainable, ref[p], t) : End[y] \in Nat /\ End[y] > t
        BY <2>1, ConstantsAssumption DEF Abutting
    <2>5. \A y \in Abutting(Chainable, ref[p], t) : FALSE
        BY <2>1, <2>3, <2>4
    <2> QED BY <2>3, <2>5
<1>2. NothingContinues <=> [][B]_vars
    BY DEF NothingContinues
<1> QED BY <1>1, <1>2, Invariance, PTL DEF Spec

=============================================================================
