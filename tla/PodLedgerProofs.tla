-------------------------- MODULE PodLedgerProofs --------------------------
(* Proofs about PodLedger. *)
EXTENDS PodLedger, SequenceTheorems, FiniteSetTheorems, TLAPS

(***************************************************************************)
(* The inductive invariant.  Whatever the controller is told of a pod, it  *)
(* was so once: no event, list or record is ahead of the pod.  A rebuild   *)
(* takes the pods not changed since the tick took its time from its list,  *)
(* which is no older than their records.                                   *)
(***************************************************************************)

Kinds == Stages \ {"absent"}

\* What has been true of a pod.
Past == {e \in Pods \X Kinds : Rank(e[2]) <= Rank(pod[e[1]])}

Behind ==
    /\ stream \in Seq(Past) /\ queue \in Seq(Past)
    /\ \A p \in Pods : /\ Rank(gpu_pods[p]) <= Rank(pod[p])
                       /\ attempt[p] # "none" => 2 <= Rank(pod[p])

\* Nothing has come before the watch starts.
Quiet == thread = "off" => queue = <<>> /\ routed = {} /\ occupied = {}

Listed ==
    tick.pc \in {"listed", "nodes"} =>
        \A p \in Pods : /\ Rank(tick.list[p]) <= Rank(pod[p])
                        /\ p \notin fresh => Rank(gpu_pods[p]) <= Rank(tick.list[p])

\* A pod recorded as occupying has not gone, as far as the ledger knows or will
\* know; excepted are those a list has brought back.
Ghosts ==
    \A p \in occupied \ relisted :
        /\ gpu_pods[p] # "gone"
        /\ tick.pc = "nodes" /\ p \notin fresh => tick.list[p] # "gone"

IInv == TypeOK /\ FreeAgrees /\ Behind /\ Quiet /\ Listed /\ Ghosts
-----------------------------------------------------------------------------
(* Stages, events and the queue *)

LEMMA Ranks ==
    /\ Rank("absent") = 0 /\ Rank("waiting") = 1 /\ Rank("claim") = 2
    /\ Rank("bound") = 3 /\ Rank("leaving") = 4 /\ Rank("gone") = 5
    /\ \A st \in Stages : Rank(st) \in 0..5 /\ (Rank(st) = 5 => st = "gone")
BY DEF Rank, Stages

LEMMA RankType ==
    ASSUME NEW f \in [Pods -> Stages]
    PROVE  \A p \in Pods : Rank(f[p]) \in Int /\ Rank(f[p]) >= 0 /\ Rank(f[p]) <= 5
BY Ranks

LEMMA FreeDomain == ASSUME NEW N, NEW R PROVE DOMAIN FreeOf(N, R) = Known(N)
BY DEF FreeOf

\* What is free for a class depends on the bound pods of that class only.
LEMMA FreeInSame ==
    ASSUME NEW c, NEW N, NEW R, NEW S,
           \A p \in Pods : Label[p] = c => (R[p] = "bound" <=> S[p] = "bound")
    PROVE  FreeIn(c, N, R) = FreeIn(c, N, S)
<1>1. ASSUME NEW n
      PROVE  {p \in Pods : R[p] = "bound" /\ NodeOf[p] = n /\ Label[p] = c}
             = {p \in Pods : S[p] = "bound" /\ NodeOf[p] = n /\ Label[p] = c}
    OBVIOUS
<1>2. ASSUME NEW n PROVE Taken(c, n, R) = Taken(c, n, S)
    BY <1>1, Zenon DEF Taken
<1> QED BY <1>2 DEF FreeIn

\* Deriving some classes is deriving all when the others are as they were.
LEMMA DerivedAgrees ==
    ASSUME FreeAgrees, NEW C, NEW R,
           \A c \in Known(inventory) \ C : FreeIn(c, inventory, R) = FreeIn(c, inventory, gpu_pods)
    PROVE  Derived(C, R) = FreeOf(inventory, R)
<1> DEFINE T == C \cap Known(inventory)
<1>1. /\ free = FreeOf(inventory, gpu_pods) /\ DOMAIN free = Known(inventory)
      /\ DOMAIN free \cup T = Known(inventory)
    BY FreeDomain DEF FreeAgrees
<1>2. \A c \in Known(inventory) : free[c] = FreeIn(c, inventory, gpu_pods)
    BY <1>1 DEF FreeOf
<1>3. \A c \in Known(inventory) :
          (IF c \in T THEN FreeIn(c, inventory, R) ELSE free[c]) = FreeIn(c, inventory, R)
    BY <1>2
<1>4. Derived(C, R) = [c \in Known(inventory) |->
                          IF c \in T THEN FreeIn(c, inventory, R) ELSE free[c]]
    BY <1>1, Zenon DEF Derived
<1> QED BY <1>3, <1>4 DEF FreeOf

\* The classes a change of record touches are enough.
LEMMA TouchedEnough ==
    ASSUME TypeOK, FreeAgrees, NEW p \in Pods, NEW st
    PROVE  Derived(Touched(p, st), [gpu_pods EXCEPT ![p] = st])
           = FreeOf(inventory, [gpu_pods EXCEPT ![p] = st])
<1> DEFINE R == [gpu_pods EXCEPT ![p] = st]
<1>1. R[p] = st /\ \A q \in Pods \ {p} : R[q] = gpu_pods[q]
    BY DEF TypeOK
<1> HIDE DEF R
<1>2. ASSUME NEW c, c \notin Touched(p, st)
      PROVE  FreeIn(c, inventory, R) = FreeIn(c, inventory, gpu_pods)
    <2>1. Label[p] = c => (st = "bound" <=> gpu_pods[p] = "bound")
        BY <1>2 DEF Touched, Record, Holds
    <2>2. \A q \in Pods : Label[q] = c => (R[q] = "bound" <=> gpu_pods[q] = "bound")
        BY <1>1, <2>1
    <2> QED BY <2>2, FreeInSame
<1>3. Derived(Touched(p, st), R) = FreeOf(inventory, R)
    BY <1>2, DerivedAgrees
<1> QED BY <1>3 DEF R

LEMMA OfferType ==
    ASSUME NEW S, NEW q \in Seq(S), NEW es \in Seq(S)
    PROVE  Offer(q, es) \in Seq(S) /\ Len(Offer(q, es)) <= QueueCap
<1> DEFINE all == q \o es
<1>1. all \in Seq(S) /\ Len(all) \in Nat
    BY ConcatProperties, LenProperties
<1>2. CASE Len(all) <= QueueCap
    BY <1>1, <1>2 DEF Offer
<1>3. CASE ~ (Len(all) <= QueueCap)
    <2>1. \A i \in Len(all) - QueueCap + 1 .. Len(all) : all[i] \in S
        BY <1>1, <1>3, ConstantsAssumption, ElementOfSeq
    <2>2. /\ SubSeq(all, Len(all) - QueueCap + 1, Len(all)) \in Seq(S)
          /\ Len(SubSeq(all, Len(all) - QueueCap + 1, Len(all))) = QueueCap
        BY <1>1, <1>3, <2>1, ConstantsAssumption, SubSeqProperties
    <2> QED BY <1>3, <2>2, ConstantsAssumption DEF Offer
<1> QED BY <1>2, <1>3

\* Events of the past are events.
LEMMA PastEvents ==
    ASSUME NEW q \in Seq(Past)
    PROVE  q \in Seq(Pods \X (Stages \ {"absent"}))
BY SeqMonotonic DEF Past, Kinds

\* What has been true stays so while no pod goes back.
LEMMA PastGrows ==
    ASSUME TypeOK, pod' \in [Pods -> Stages], \A p \in Pods : Rank(pod[p]) <= Rank(pod'[p])
    PROVE  \A q : q \in Seq(Past) => q \in Seq(Past')
<1>1. ASSUME NEW p \in Pods, NEW st \in Kinds, Rank(st) <= Rank(pod[p])
      PROVE  Rank(st) <= Rank(pod'[p])
    <2>1. Rank(pod[p]) \in Int /\ Rank(pod'[p]) \in Int
        BY RankType DEF TypeOK
    <2>2. Rank(st) \in Int
        BY Ranks DEF Kinds
    <2> QED BY <1>1, <2>1, <2>2
<1>2. Past \subseteq Past'
    BY <1>1 DEF Past
<1> QED BY <1>2, SeqMonotonic

\* A pod that changes: what had been true stays so, and so does what is sent.
LEMMA BecomesLater ==
    ASSUME TypeOK, Behind, NEW p \in Pods, NEW st \in Kinds, Rank(pod[p]) <= Rank(st),
           Becomes(p, st)
    PROVE  /\ pod' \in [Pods -> Stages] /\ \A q \in Pods : Rank(pod[q]) <= Rank(pod'[q])
           /\ stream' \in Seq(Past') /\ queue \in Seq(Past')
<1>1. pod' \in [Pods -> Stages] /\ pod'[p] = st /\ \A q \in Pods \ {p} : pod'[q] = pod[q]
    BY DEF Becomes, TypeOK, Kinds
<1>2. \A q \in Pods : Rank(pod[q]) <= Rank(pod'[q])
    <2>1. \A q \in Pods : Rank(pod[q]) \in Int
        BY RankType DEF TypeOK
    <2> QED BY <1>1, <2>1
<1>3. stream \in Seq(Past') /\ queue \in Seq(Past')
    BY <1>1, <1>2, PastGrows DEF Behind
<1>4. <<p, st>> \in Past'
    BY <1>1, Ranks DEF Past, Kinds
<1>5. Append(stream, <<p, st>>) \in Seq(Past')
    BY <1>3, <1>4, AppendProperties
<1> QED BY <1>1, <1>2, <1>3, <1>5 DEF Becomes

-----------------------------------------------------------------------------
(* Each action preserves the invariant *)

LEMMA StartsInv ==
    ASSUME pod \in [Pods -> Stages], Starts, UNCHANGED pod
    PROVE  /\ FreeAgrees' /\ Behind' /\ Quiet' /\ Listed' /\ Ghosts'
           /\ stream' = <<>> /\ queue' = <<>>
           /\ gpu_pods' = Nothing /\ Nothing \in [Pods -> Stages]
           /\ tick' = [pc |-> "pods", list |-> Nothing]
           /\ DOMAIN free' = Known({}) /\ inventory' = {}
<1>1. Nothing \in [Pods -> Stages] /\ \A p \in Pods : Nothing[p] = "absent"
    BY DEF Nothing, Stages
<1>2. <<>> \in Seq(Past')
    BY EmptySeq
<1> QED BY <1>1, <1>2, Ranks, FreeDomain
        DEF Starts, FreeAgrees, Behind, Quiet, Listed, Ghosts

LEMMA InitInv == Init => IInv
<1> SUFFICES ASSUME Init PROVE IInv
    OBVIOUS
<1>1. Nothing \in [Pods -> Stages] /\ \A p \in Pods : Nothing[p] = "absent"
    BY DEF Nothing, Stages
<1>2. <<>> \in Seq(Past) /\ <<>> \in Seq(Pods \X (Stages \ {"absent"})) /\ Len(<<>>) = 0
    BY EmptySeq
<1>3. pod \in [Pods -> Stages]
    BY DEF Init, Stages
<1> QED BY <1>1, <1>2, <1>3, Ranks, FreeDomain, ConstantsAssumption
        DEF Init, IInv, TypeOK, FreeAgrees, Behind, Quiet, Listed, Ghosts

LEMMA RestartInv == ASSUME IInv, Restart PROVE IInv'
<1>1. /\ FreeAgrees' /\ Behind' /\ Quiet' /\ Listed' /\ Ghosts'
      /\ stream' = <<>> /\ queue' = <<>>
      /\ gpu_pods' = Nothing /\ Nothing \in [Pods -> Stages]
      /\ tick' = [pc |-> "pods", list |-> Nothing]
      /\ DOMAIN free' = Known({}) /\ inventory' = {}
    BY StartsInv DEF Restart, IInv, TypeOK
<1>2. <<>> \in Seq(Pods \X (Stages \ {"absent"})) /\ Len(<<>>) = 0
    BY EmptySeq
<1>3. faults' \in 0..MaxFaults
    BY ConstantsAssumption DEF Restart, Fault, IInv, TypeOK
<1> QED BY <1>1, <1>2, <1>3, ConstantsAssumption DEF Restart, Starts, IInv, TypeOK

\* What is known of the pods stays behind them while no pod goes back.
LEMMA BehindLater ==
    ASSUME IInv, pod' \in [Pods -> Stages], \A q \in Pods : Rank(pod[q]) <= Rank(pod'[q]),
           stream' \in Seq(Past'), queue \in Seq(Past'),
           \A q \in Pods : attempt'[q] # "none" => attempt[q] # "none" \/ 2 <= Rank(pod'[q]),
           UNCHANGED <<queue, ledger, tick>>
    PROVE  Behind' /\ Listed'
<1>1. \A q \in Pods : /\ Rank(pod[q]) \in Int /\ Rank(pod'[q]) \in Int
                      /\ Rank(gpu_pods[q]) \in Int /\ Rank(tick.list[q]) \in Int
    <2>1. gpu_pods \in [Pods -> Stages] /\ tick.list \in [Pods -> Stages] /\ pod \in [Pods -> Stages]
        BY DEF IInv, TypeOK
    <2> QED BY <2>1, RankType
<1>2. UNCHANGED <<gpu_pods, fresh>>
    BY DEF ledger
<1>3. \A q \in Pods : /\ Rank(gpu_pods[q]) <= Rank(pod'[q])
                      /\ attempt[q] # "none" => 2 <= Rank(pod'[q])
    BY <1>1 DEF IInv, Behind
<1>4. tick.pc \in {"listed", "nodes"} => \A q \in Pods : Rank(tick.list[q]) <= Rank(pod'[q])
    BY <1>1 DEF IInv, Listed
<1>5. Behind'
    BY <1>2, <1>3 DEF Behind
<1>6. Listed'
    BY <1>2, <1>4 DEF IInv, Listed
<1> QED BY <1>5, <1>6

\* A pod that changes leaves all that is known of it behind.
LEMMA ChangeInv ==
    ASSUME IInv, NEW p \in Pods, NEW st \in Kinds, Rank(pod[p]) <= Rank(st), Becomes(p, st),
           UNCHANGED <<up, thread, queue, loopvars, ledger, tick, faults, relisted>>
    PROVE  IInv'
<1>0. UNCHANGED <<queue, ledger, tick>> /\ attempt' = attempt
    BY DEF loopvars
<1>1. /\ pod' \in [Pods -> Stages] /\ \A q \in Pods : Rank(pod[q]) <= Rank(pod'[q])
      /\ stream' \in Seq(Past') /\ queue \in Seq(Past')
    BY BecomesLater DEF IInv
<1>2. stream' \in Seq(Pods \X (Stages \ {"absent"}))
    BY <1>1, SeqMonotonic DEF Past, Kinds
<1>3. TypeOK'
    BY <1>1, <1>2 DEF IInv, TypeOK, loopvars, ledger
<1>4. Behind' /\ Listed'
    BY <1>0, <1>1, BehindLater
<1> QED BY <1>3, <1>4 DEF IInv, FreeAgrees, Quiet, Ghosts, loopvars, ledger

LEMMA CreatePodInv == ASSUME IInv, NEW p \in Pods, CreatePod(p) PROVE IInv'
BY ChangeInv, Ranks DEF CreatePod, Kinds, Stages

LEMMA BindInv == ASSUME IInv, NEW p \in Pods, Bind(p) PROVE IInv'
BY ChangeInv, Ranks DEF Bind, Kinds, Stages

LEMMA EndPodInv == ASSUME IInv, NEW p \in Pods, EndPod(p) PROVE IInv'
<1>1. CASE pod[p] = "bound"
    BY <1>1, ChangeInv, Ranks DEF EndPod, Kinds, Stages
<1>2. CASE pod[p] # "bound"
    <2>1. Rank(pod[p]) <= Rank("gone")
        BY Ranks DEF IInv, TypeOK
    <2> QED BY <1>2, <2>1, ChangeInv DEF EndPod, Kinds, Stages
<1> QED BY <1>1, <1>2

LEMMA NodeTurnsInv == ASSUME IInv, NEW n \in Nodes, NodeTurns(n) PROVE IInv'
<1>1. faults' \in 0..MaxFaults
    BY ConstantsAssumption DEF NodeTurns, Fault, IInv, TypeOK
<1>2. Past' = Past
    BY DEF NodeTurns, Past
<1> QED BY <1>1, <1>2
        DEF NodeTurns, IInv, TypeOK, FreeAgrees, Behind, Quiet, Listed, Ghosts,
            watchvars, loopvars, ledger

\* The watch changes what is under way, nothing that is recorded.
LEMMA WatchInv ==
    ASSUME IInv, thread # "off", thread' \in {"list", "stream"},
           stream' \in Seq(Past), queue' \in Seq(Past), Len(queue') <= QueueCap,
           faults' \in 0..MaxFaults,
           UNCHANGED <<pod, up, loopvars, ledger, tick, relisted>>
    PROVE  IInv'
<1>1. Past' = Past
    BY DEF Past
<1>2. /\ stream' \in Seq(Pods \X (Stages \ {"absent"}))
      /\ queue' \in Seq(Pods \X (Stages \ {"absent"}))
    BY PastEvents
<1> QED BY <1>1, <1>2
        DEF IInv, TypeOK, FreeAgrees, Behind, Quiet, Listed, Ghosts, loopvars, ledger

LEMMA WatchListsInv == ASSUME IInv, WatchLists PROVE IInv'
<1> DEFINE L == {p \in Pods : pod[p] \notin {"absent", "gone"}}
<1>1. PICK there \in SetToSeqs(L) :
          queue' = Offer(queue, [i \in DOMAIN there |-> <<there[i], pod[there[i]]>>])
    BY DEF WatchLists
<1>2. Cardinality(L) \in Nat
    BY ConstantsAssumption, FS_Subset, FS_CardinalityType
<1>3. DOMAIN there = 1..Cardinality(L) /\ \A i \in 1..Cardinality(L) : there[i] \in L
    BY DEF SetToSeqs
<1>4. \A p \in L : <<p, pod[p]>> \in Past
    <2>1. \A p \in Pods : Rank(pod[p]) \in Int /\ pod[p] \in Stages
        BY RankType DEF IInv, TypeOK
    <2> QED BY <2>1 DEF Past, Kinds
<1>5. [i \in DOMAIN there |-> <<there[i], pod[there[i]]>>] \in [1..Cardinality(L) -> Past]
    BY <1>3, <1>4
<1>6. [i \in DOMAIN there |-> <<there[i], pod[there[i]]>>] \in Seq(Past)
    <2>1. \A f, n : n \in Nat /\ f \in [1..n -> Past] => f \in Seq(Past)
        BY SeqDef
    <2> QED BY <1>2, <1>5, <2>1, Zenon
<1>7. queue' \in Seq(Past) /\ Len(queue') <= QueueCap
    BY <1>1, <1>6, OfferType DEF IInv, Behind
<1>8. stream' \in Seq(Past)
    BY EmptySeq DEF WatchLists
<1> QED BY <1>7, <1>8, WatchInv DEF WatchLists, IInv, TypeOK

LEMMA WatchReadsInv == ASSUME IInv, WatchReads PROVE IInv'
<1>1. Head(stream) \in Past /\ stream' \in Seq(Past)
    BY HeadTailProperties DEF WatchReads, IInv, Behind
<1>2. <<Head(stream)>> \in Seq(Past)
    BY <1>1, AppendProperties, EmptySeq
<1>3. queue' \in Seq(Past) /\ Len(queue') <= QueueCap
    BY <1>2, OfferType DEF WatchReads, IInv, Behind
<1> QED BY <1>1, <1>3, WatchInv DEF WatchReads, IInv, TypeOK

LEMMA WatchResyncsInv == ASSUME IInv, WatchResyncs PROVE IInv'
<1>1. stream' \in Seq(Past) /\ queue' \in Seq(Past)
    BY EmptySeq DEF WatchResyncs, Relists, IInv, Behind
<1> QED BY <1>1, WatchInv DEF WatchResyncs, Relists, IInv, TypeOK

LEMMA WatchBreaksInv == ASSUME IInv, WatchBreaks PROVE IInv'
<1>1. stream' \in Seq(Past) /\ queue' \in Seq(Past)
    BY EmptySeq DEF WatchBreaks, Relists, IInv, Behind
<1>2. faults' \in 0..MaxFaults
    BY ConstantsAssumption DEF WatchBreaks, Fault, IInv, TypeOK
<1> QED BY <1>1, <1>2, WatchInv DEF WatchBreaks, Relists, IInv, TypeOK

LEMMA WatchFloodsInv == ASSUME IInv, WatchFloods PROVE IInv'
<1>1. PICK k \in 1..Len(queue) : queue' = SubSeq(queue, k + 1, Len(queue))
    BY DEF WatchFloods
<1>2. Len(queue) \in Nat /\ queue \in Seq(Past) /\ Len(queue) <= QueueCap
    BY LenProperties DEF IInv, TypeOK, Behind
<1>3. \A i \in k + 1 .. Len(queue) : queue[i] \in Past
    BY <1>2, ElementOfSeq
<1>4. queue' \in Seq(Past) /\ Len(queue') <= Len(queue)
    BY <1>1, <1>2, <1>3, SubSeqProperties
<1>5. Len(queue') \in Nat
    BY <1>4, LenProperties
<1>6. faults' \in 0..MaxFaults
    BY ConstantsAssumption DEF WatchFloods, Fault, IInv, TypeOK
<1>7. stream' \in Seq(Past) /\ Len(queue') <= QueueCap
    BY <1>2, <1>4, <1>5, ConstantsAssumption DEF WatchFloods, IInv, Behind
<1> QED BY <1>4, <1>6, <1>7, WatchInv DEF WatchFloods, IInv, TypeOK

-----------------------------------------------------------------------------
(* The ledger *)

\* A record made of something that was true.
LEMMA SetGpuPodKeeps ==
    ASSUME IInv, NEW p \in Pods, NEW st \in Stages, Rank(st) <= Rank(pod[p]),
           SetGpuPod(p, st), UNCHANGED tick
    PROVE  /\ gpu_pods' \in [Pods -> Stages] /\ fresh' \subseteq Pods
           /\ gpu_pods'[p] = st /\ \A q \in Pods \ {p} : gpu_pods'[q] = gpu_pods[q]
           /\ fresh \subseteq fresh' /\ (tick.pc # "idle" => p \in fresh')
           /\ inventory' = inventory /\ DOMAIN free' = Known(inventory)
           /\ FreeAgrees'
<1>1. /\ gpu_pods' = [gpu_pods EXCEPT ![p] = st]
      /\ free' = FreeOf(inventory, gpu_pods') /\ inventory' = inventory
    BY TouchedEnough DEF SetGpuPod, IInv
<1> QED BY <1>1, FreeDomain DEF SetGpuPod, IInv, TypeOK, FreeAgrees

LEMMA ReceivesInv == ASSUME IInv, Receives PROVE IInv'
<1> DEFINE p == Head(queue)[1]
           st == Head(queue)[2]
<1>1. Head(queue) \in Past /\ queue' \in Seq(Past) /\ Len(queue') = Len(queue) - 1
    BY HeadTailProperties DEF Receives, IInv, Behind
<1>2. p \in Pods /\ st \in Kinds /\ Rank(st) <= Rank(pod[p])
    BY <1>1 DEF Past
<1>3. thread # "off" /\ UNCHANGED <<pod, up, thread, stream, attempt, tick, faults, relisted>>
    BY DEF Receives, IInv, Quiet
<1>4. Past' = Past
    BY <1>3 DEF Past
<1>5. queue' \in Seq(Pods \X (Stages \ {"absent"})) /\ Len(queue') <= QueueCap
    BY <1>1, PastEvents, LenProperties, ConstantsAssumption DEF IInv, TypeOK
<1>6. routed' \subseteq Pods
    BY <1>2 DEF Receives, IInv, TypeOK
<1>7. CASE st \in Tolerated \cup {"gone"}
    <2>1. SetGpuPod(p, st) /\ occupied' = IF st = "gone" THEN occupied \ {p} ELSE occupied \cup {p}
        BY <1>7 DEF Receives, Tolerated
    <2>2. /\ gpu_pods' \in [Pods -> Stages] /\ fresh' \subseteq Pods
          /\ gpu_pods'[p] = st /\ \A q \in Pods \ {p} : gpu_pods'[q] = gpu_pods[q]
          /\ fresh \subseteq fresh' /\ (tick.pc # "idle" => p \in fresh')
          /\ inventory' = inventory /\ DOMAIN free' = Known(inventory)
          /\ FreeAgrees'
        BY <1>2, <1>3, <2>1, SetGpuPodKeeps DEF Kinds
    <2>3. TypeOK'
        BY <1>2, <1>3, <1>5, <1>6, <2>1, <2>2 DEF IInv, TypeOK
    <2>4. Behind' /\ Listed'
        BY <1>1, <1>2, <1>3, <1>4, <2>2 DEF IInv, Behind, Listed
    <2>5. Ghosts'
        BY <1>2, <1>3, <2>1, <2>2 DEF IInv, TypeOK, Ghosts
    <2> QED BY <1>3, <2>2, <2>3, <2>4, <2>5 DEF IInv, Quiet
<1>8. CASE st \notin Tolerated \cup {"gone"}
    <2>1. occupied' = occupied /\ UNCHANGED ledger
        BY <1>8 DEF Receives
    <2> QED BY <1>1, <1>3, <1>4, <1>5, <1>6, <2>1
            DEF IInv, TypeOK, FreeAgrees, Behind, Quiet, Listed, Ghosts, ledger
<1> QED BY <1>7, <1>8

LEMMA AdmitsInv == ASSUME IInv, NEW p \in Pods, Admits(p) PROVE IInv'
<1> USE DEF IInv
<1>1. /\ thread # "off"
      /\ UNCHANGED <<up, thread, queue, routed, ledger, tick, relisted>>
    BY DEF Admits, Quiet
<1>2. /\ pod' \in [Pods -> Stages] /\ \A q \in Pods : Rank(pod[q]) <= Rank(pod'[q])
      /\ stream' \in Seq(Past') /\ queue \in Seq(Past')
    <2>1. CASE pod[p] = "waiting" /\ Becomes(p, "claim")
        BY <2>1, BecomesLater, Ranks DEF Kinds, Stages
    <2>2. CASE UNCHANGED <<pod, stream>>
        <3>1. Past' = Past
            BY <2>2 DEF Past
        <3>2. \A q \in Pods : Rank(pod[q]) \in Int
            BY RankType DEF TypeOK
        <3> QED BY <2>2, <3>1, <3>2 DEF TypeOK, Behind
    <2> QED BY <2>1, <2>2 DEF Admits
<1>3. stream' \in Seq(Pods \X (Stages \ {"absent"}))
    BY <1>2, SeqMonotonic DEF Past, Kinds
<1>4. /\ attempt' \in [Pods -> {"none", "unbound", "bound"}]
      /\ \A q \in Pods : attempt'[q] # "none" => 2 <= Rank(pod'[q])
    <2>0. \A q \in Pods : /\ Rank(pod[q]) \in Int /\ Rank(pod'[q]) \in Int
                          /\ attempt[q] # "none" => 2 <= Rank(pod'[q])
        <3>1. \A q \in Pods : Rank(pod[q]) \in Int /\ Rank(pod'[q]) \in Int
            BY <1>2, RankType DEF TypeOK
        <3> QED BY <1>2, <3>1 DEF Behind
    <2>1. CASE /\ pod[p] = "waiting" /\ Becomes(p, "claim")
               /\ attempt' = [attempt EXCEPT ![p] = "unbound"]
        <3>1. pod'[p] = "claim"
            BY <2>1 DEF Becomes, TypeOK
        <3>2. 2 <= Rank(pod'[p])
            BY <3>1, Ranks
        <3> QED BY <2>0, <2>1, <3>2 DEF TypeOK
    <2>2. CASE /\ pod[p] \in Tolerated /\ UNCHANGED <<pod, stream>>
               /\ attempt' = [attempt EXCEPT ![p] = IF pod[p] = "claim" THEN "unbound" ELSE "bound"]
        <3>1. 2 <= Rank(pod'[p])
            BY <2>2, Ranks DEF Tolerated
        <3> QED BY <2>0, <2>2, <3>1 DEF TypeOK
    <2>3. CASE attempt' = attempt
        BY <2>0, <2>3 DEF TypeOK
    <2> QED BY <2>1, <2>2, <2>3 DEF Admits
<1>5. /\ occupied' \subseteq occupied \cup {p}
      /\ p \in occupied' => Rank(pod[p]) < 5
    <2>1. CASE pod[p] \in {"waiting"} \cup Tolerated /\ occupied' = occupied \cup {p}
        BY <2>1, Ranks DEF Tolerated
    <2>2. CASE occupied' = occupied \ {p}
        BY <2>2
    <2> QED BY <2>1, <2>2 DEF Admits
<1>6. faults' \in 0..MaxFaults
    BY ConstantsAssumption DEF Admits, Fault, TypeOK
<1>7. TypeOK'
    BY <1>1, <1>2, <1>3, <1>4, <1>5, <1>6 DEF TypeOK, ledger
<1>8. Behind' /\ Listed'
    BY <1>1, <1>2, <1>4, BehindLater
<1>9. Ghosts'
    <2> SUFFICES ASSUME NEW q \in occupied' \ relisted'
                 PROVE  /\ gpu_pods'[q] # "gone"
                        /\ tick'.pc = "nodes" /\ q \notin fresh' => tick'.list[q] # "gone"
        BY DEF Ghosts
    <2>1. CASE q = p
        <3>1. Rank(pod[p]) < 5
            BY <1>5, <2>1
        <3>0. /\ Rank(pod[p]) \in Int /\ Rank(gpu_pods[p]) \in Int /\ Rank(tick.list[p]) \in Int
              /\ Rank("gone") = 5
            <4>1. gpu_pods \in [Pods -> Stages] /\ tick.list \in [Pods -> Stages] /\ pod \in [Pods -> Stages]
                BY DEF TypeOK
            <4> QED BY <4>1, RankType, Ranks
        <3>2. gpu_pods[p] # "gone"
            BY <3>0, <3>1 DEF Behind
        <3>3. tick.pc = "nodes" => tick.list[p] # "gone"
            BY <3>0, <3>1 DEF Listed
        <3> QED BY <1>1, <2>1, <3>2, <3>3 DEF ledger
    <2>2. CASE q # p
        BY <1>1, <1>5, <2>2 DEF Ghosts, ledger
    <2> QED BY <2>1, <2>2
<1> QED BY <1>1, <1>7, <1>8, <1>9 DEF FreeAgrees, Quiet, ledger

LEMMA NotesInv == ASSUME IInv, NEW p \in Pods, Notes(p) PROVE IInv'
<1> USE DEF IInv
<1>1. /\ UNCHANGED <<pod, up, watchvars, occupied, tick, faults, relisted>>
      /\ attempt' = [attempt EXCEPT ![p] = "none"] /\ routed' = routed \ {p}
    BY DEF Notes
<1>2. Past' = Past
    BY <1>1 DEF Past
<1>3. CASE Notable(p)
    <2>1. SetGpuPod(p, "claim") /\ "claim" \in Stages /\ Rank("claim") <= Rank(pod[p])
        BY <1>3, Ranks DEF Notes, Stages, Behind
    <2>2. /\ gpu_pods' \in [Pods -> Stages] /\ fresh' \subseteq Pods
          /\ gpu_pods'[p] = "claim" /\ \A q \in Pods \ {p} : gpu_pods'[q] = gpu_pods[q]
          /\ fresh \subseteq fresh' /\ (tick.pc # "idle" => p \in fresh')
          /\ inventory' = inventory /\ DOMAIN free' = Known(inventory)
          /\ FreeAgrees'
        BY <1>1, <2>1, SetGpuPodKeeps
    <2>3. TypeOK'
        BY <1>1, <2>2 DEF TypeOK, watchvars
    <2>4. Behind' /\ Listed' /\ Quiet'
        BY <1>1, <1>2, <2>1, <2>2 DEF TypeOK, Behind, Listed, Quiet, watchvars
    <2>5. Ghosts'
        BY <1>1, <2>2 DEF TypeOK, Ghosts
    <2> QED BY <2>2, <2>3, <2>4, <2>5
<1>4. CASE ~ Notable(p)
    <2>1. UNCHANGED ledger
        BY <1>4 DEF Notes
    <2> QED BY <1>1, <1>2, <2>1
            DEF TypeOK, FreeAgrees, Behind, Quiet, Listed, Ghosts, watchvars, ledger
<1> QED BY <1>3, <1>4

-----------------------------------------------------------------------------
(* The tick *)

LEMMA TickStartsInv == ASSUME IInv, TickStarts PROVE IInv'
<1>1. Past' = Past
    BY DEF TickStarts, Past
<1>2. tick'.pc = "pods" /\ tick' \in [pc : {"pods"}, list : [Pods -> Stages]]
    BY DEF TickStarts, IInv, TypeOK
<1> QED BY <1>1, <1>2
        DEF TickStarts, IInv, TypeOK, FreeAgrees, Behind, Quiet, Listed, Ghosts, watchvars, loopvars

LEMMA TickListsInv == ASSUME IInv, TickLists PROVE IInv'
<1>1. Past' = Past
    BY DEF TickLists, Past
<1>2. tick'.pc = "listed" /\ tick'.list = pod /\ tick' \in [pc : {"listed"}, list : [Pods -> Stages]]
    BY DEF TickLists, IInv, TypeOK
<1>3. Listed'
    <2>1. \A q \in Pods : Rank(pod[q]) <= Rank(pod[q]) /\ Rank(gpu_pods[q]) <= Rank(pod[q])
        <3>1. \A q \in Pods : Rank(pod[q]) \in Int
            BY RankType DEF IInv, TypeOK
        <3> QED BY <3>1 DEF IInv, Behind
    <2>2. UNCHANGED <<pod, gpu_pods, fresh>>
        BY DEF TickLists, ledger
    <2> QED BY <1>2, <2>1, <2>2 DEF Listed
<1> QED BY <1>1, <1>2, <1>3
        DEF TickLists, IInv, TypeOK, FreeAgrees, Behind, Quiet, Ghosts, watchvars, loopvars, ledger

LEMMA TickReconcilesInv == ASSUME IInv, TickReconciles PROVE IInv'
<1>1. Past' = Past
    BY DEF TickReconciles, Past
<1>2. /\ tick.pc = "listed" /\ tick'.pc = "nodes" /\ tick'.list = tick.list
      /\ tick' \in [pc : {"nodes"}, list : [Pods -> Stages]]
    BY DEF TickReconciles, IInv, TypeOK
<1>3. occupied' = IF thread = "off" THEN {} ELSE {p \in Pods : tick.list[p] \in Tolerated}
    BY DEF TickReconciles, IInv, Quiet
<1>4. relisted' = relisted \cup {p \in occupied' : gpu_pods[p] = "gone"}
    BY DEF TickReconciles
<1>5. Ghosts'
    BY <1>2, <1>3, <1>4 DEF TickReconciles, Ghosts, Tolerated, ledger
<1>6. TypeOK'
    BY <1>2, <1>3, <1>4 DEF TickReconciles, IInv, TypeOK, watchvars, ledger
<1>7. Quiet' /\ Listed' /\ Behind' /\ FreeAgrees'
    BY <1>1, <1>2, <1>3
       DEF TickReconciles, IInv, FreeAgrees, Behind, Quiet, Listed, watchvars, ledger
<1> QED BY <1>5, <1>6, <1>7 DEF IInv

LEMMA EndsType ==
    ASSUME TypeOK, TickEnds
    PROVE  /\ tick'.pc = "idle" /\ tick' \in [pc : {"idle"}, list : [Pods -> Stages]]
           /\ fresh' = {} /\ thread' \in {"list", "stream"}
BY DEF TickEnds, TypeOK, Nothing, Stages

LEMMA TickFailsInv == ASSUME IInv, TickFails PROVE IInv'
<1>1. Past' = Past
    BY DEF TickFails, Past
<1>2. /\ tick'.pc = "idle" /\ tick' \in [pc : {"idle"}, list : [Pods -> Stages]]
      /\ fresh' = {} /\ thread' \in {"list", "stream"}
    BY EndsType DEF TickFails, IInv
<1>3. faults' \in 0..MaxFaults
    BY ConstantsAssumption DEF TickFails, Fault, IInv, TypeOK
<1> QED BY <1>1, <1>2, <1>3
        DEF TickFails, IInv, TypeOK, FreeAgrees, Behind, Quiet, Listed, Ghosts, loopvars

\* What a rebuild may leave: each record as it is, or as the list has it.
LEMMA RebuiltFacts ==
    ASSUME IInv, TickRebuilds
    PROVE  /\ gpu_pods' \in [Pods -> Stages] /\ inventory' \subseteq Nodes
           /\ \A p \in Pods : \/ gpu_pods'[p] = gpu_pods[p] /\ (p \in fresh \/ thread = "off")
                              \/ gpu_pods'[p] = tick.list[p] /\ p \notin fresh
           /\ tick.pc = "nodes" /\ faults' \in 0..MaxFaults
<1>1. Rebuilt \in [Pods -> Stages]
    BY DEF Rebuilt, IInv, TypeOK
<1>2. gpu_pods' = Rebuilt \/ (gpu_pods' = gpu_pods /\ thread = "off")
    BY DEF TickRebuilds
<1>3. \A p \in Pods : Rebuilt[p] = IF p \in fresh THEN gpu_pods[p] ELSE tick.list[p]
    BY DEF Rebuilt
<1>4. inventory' \subseteq Nodes /\ tick.pc = "nodes" /\ faults' \in 0..MaxFaults
    BY ConstantsAssumption DEF TickRebuilds, Fault, IInv, TypeOK
<1>5. gpu_pods' \in [Pods -> Stages]
    BY <1>1, <1>2 DEF IInv, TypeOK
<1> QED BY <1>2, <1>3, <1>4, <1>5

LEMMA TickRebuildsInv == ASSUME IInv, TickRebuilds PROVE IInv'
<1>1. Past' = Past
    BY DEF TickRebuilds, Past
<1>2. /\ tick'.pc = "idle" /\ tick' \in [pc : {"idle"}, list : [Pods -> Stages]]
      /\ fresh' = {} /\ thread' \in {"list", "stream"}
    BY EndsType DEF TickRebuilds, IInv
<1>3. /\ gpu_pods' \in [Pods -> Stages] /\ inventory' \subseteq Nodes
      /\ \A p \in Pods : \/ gpu_pods'[p] = gpu_pods[p] /\ (p \in fresh \/ thread = "off")
                         \/ gpu_pods'[p] = tick.list[p] /\ p \notin fresh
      /\ tick.pc = "nodes" /\ faults' \in 0..MaxFaults
    BY RebuiltFacts
<1>4. UNCHANGED <<pod, up, stream, queue, loopvars, relisted>> /\ free' = FreeOf(inventory', gpu_pods')
    <2>1. CASE inventory' = up /\ gpu_pods' = Rebuilt /\ free' = FreeOf(up, Rebuilt)
        BY <2>1 DEF TickRebuilds
    <2>2. CASE inventory' = inventory /\ UNCHANGED <<gpu_pods, free>>
        BY <2>2 DEF TickRebuilds, IInv, FreeAgrees
    <2>3. CASE /\ inventory' = inventory /\ gpu_pods' = Rebuilt
               /\ free' = Derived(Known(inventory), Rebuilt)
        BY <2>3, DerivedAgrees DEF TickRebuilds, IInv
    <2> QED BY <2>1, <2>2, <2>3 DEF TickRebuilds
<1>5. TypeOK' /\ FreeAgrees'
    BY <1>2, <1>3, <1>4, FreeDomain DEF IInv, TypeOK, FreeAgrees, loopvars
<1>6. Behind'
    BY <1>1, <1>3, <1>4 DEF IInv, Behind, Listed, loopvars
<1>7. Ghosts'
    BY <1>2, <1>3, <1>4 DEF IInv, TypeOK, Ghosts, Quiet, loopvars
<1> QED BY <1>2, <1>5, <1>6, <1>7 DEF IInv, Quiet, Listed

LEMMA StutterInv == IInv /\ UNCHANGED vars => IInv'
<1> SUFFICES ASSUME IInv, UNCHANGED vars PROVE IInv'
    OBVIOUS
<1>1. Past' = Past
    BY DEF vars, Past
<1> QED BY <1>1
        DEF IInv, vars, TypeOK, FreeAgrees, Behind, Quiet, Listed, Ghosts, watchvars, loopvars, ledger

-----------------------------------------------------------------------------
LEMMA NextInv == IInv /\ [Next]_vars => IInv'
<1>1. ASSUME IInv, Next PROVE IInv'
    BY <1>1, CreatePodInv, BindInv, EndPodInv, AdmitsInv, NotesInv, NodeTurnsInv, WatchListsInv,
       WatchReadsInv, ReceivesInv, WatchResyncsInv, WatchBreaksInv, WatchFloodsInv, TickStartsInv,
       TickListsInv, TickReconcilesInv, TickRebuildsInv, TickFailsInv, RestartInv
       DEF Next, PodStep, WatchStep, TickStep
<1> QED BY <1>1, StutterInv

LEMMA Invariance == Spec => []IInv
BY InitInv, NextInv, PTL DEF Spec

\* Every reachable state is well typed and the queue never exceeds its bound,
\* whatever is lost, late or fails.
THEOREM TypeCorrect == Spec => []TypeOK
<1>1. IInv => TypeOK
    BY DEF IInv
<1> QED BY <1>1, Invariance, PTL

\* The free map is what the whole ledger leaves on each node, although a change of
\* record derives its class only and a failed inventory derives over the old one
\* (set_gpu_pod, _derive_node_free, install_node_inventory).
THEOREM FreeAlwaysAgrees == Spec => []FreeAgrees
<1>1. IInv => FreeAgrees
    BY DEF IInv
<1> QED BY <1>1, Invariance, PTL

\* No rebuild puts back an older record (rebuild_gpu_pods).
THEOREM RebuildsGoForward == Spec => NeverBack
<1> DEFINE A == TickRebuilds => \A p \in Pods : Rank(gpu_pods'[p]) >= Rank(gpu_pods[p])
<1>1. IInv => A
    <2> SUFFICES ASSUME IInv, TickRebuilds, NEW p \in Pods
                 PROVE  Rank(gpu_pods'[p]) >= Rank(gpu_pods[p])
        OBVIOUS
    <2>1. /\ tick.pc = "nodes" /\ gpu_pods' \in [Pods -> Stages]
          /\ \/ gpu_pods'[p] = gpu_pods[p]
             \/ gpu_pods'[p] = tick.list[p] /\ p \notin fresh
        BY RebuiltFacts
    <2>2. Rank(gpu_pods[p]) \in Int
        BY RankType DEF IInv, TypeOK
    <2> QED BY <2>1, <2>2 DEF IInv, Listed
<1>2. IInv => [A]_vars
    BY <1>1
<1>3. NeverBack <=> [][A]_vars
    BY DEF NeverBack
<1> QED BY <1>2, <1>3, Invariance, PTL

\* No claim is recorded for a pod whose deletion has been handled, unless a list
\* has brought it back (_note_admitted).
THEOREM NoGhostsClaim == Spec => NoGhostClaim
<1> DEFINE A == \A p \in Pods \ relisted :
                   Notes(p) /\ gpu_pods[p] = "gone" => gpu_pods'[p] = "gone"
<1>1. IInv => A
    <2> SUFFICES ASSUME IInv, NEW p \in Pods \ relisted, Notes(p), gpu_pods[p] = "gone"
                 PROVE  gpu_pods'[p] = "gone"
        OBVIOUS
    <2>1. ~ Notable(p)
        BY DEF Notable, IInv, Ghosts
    <2> QED BY <2>1 DEF Notes, ledger
<1>2. IInv => [A]_vars
    BY <1>1
<1>3. NoGhostClaim <=> [][A]_vars
    BY DEF NoGhostClaim
<1> QED BY <1>2, <1>3, Invariance, PTL
=============================================================================
