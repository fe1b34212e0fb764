---------------------------- MODULE NoShowProofs ----------------------------
(* Proofs about NoShow. *)
EXTENDS NoShow, TLAPS

(***************************************************************************)
(* The inductive invariant.  NoLimbo says nothing of a booking that is not *)
(* listed, yet an older answer of the app may list it again; and a cancel  *)
(* stops pending only because the app has taken it.                        *)
(***************************************************************************)

\* A booking given up on is cancelled, over, or still to be cancelled, listed
\* or not.
GivenUp == \A r \in noshow : row[r] = "active" => r \in pending

\* The booking whose cancel has answered is no longer active.
Answered == tick.pc = "answer" => tick.cur \in Bookings /\ row[tick.cur] # "active"

Attempting == tick.pc = "patch" => tick.cur \in Pods

\* From its list to its last cancel, a tick knows the pods that were there when
\* it began by the booking they are under.
Known ==
    \A p \in steady :
        /\ pod[p] = "live" /\ ref[p] # None
        /\ tick.pc \in {"check", "cancel", "answer"} => tick.snap[p] = ref[p]

IInv == TypeOK /\ GivenUp /\ Answered /\ Attempting /\ Known
-----------------------------------------------------------------------------
\* A list arms and clears deadlines only.
LEMMA ArmedType ==
    ASSUME NEW L, NEW n, NEW c, NEW d \in [Bookings -> {"none", "armed", "due"}]
    PROVE  Armed(L, d, n, c) \in [Bookings -> {"none", "armed", "due"}]
BY DEF Armed

LEMMA PoppedType ==
    ASSUME TypeOK, NEW S
    PROVE  Popped(S) \in [Bookings -> {"none", "armed", "due"}]
BY DEF Popped, TypeOK

LEMMA BestType == ASSUME NEW L PROVE Best(L) \subseteq L
BY DEF Best, Soonest

LEMMA InitInv == Init => IInv
<1> SUFFICES ASSUME Init PROVE IInv
    OBVIOUS
<1>1. deadline \in [Bookings -> {"none", "armed", "due"}]
    BY ArmedType, [r \in Bookings |-> "none"] \in [Bookings -> {"none", "armed", "due"}]
       DEF Init
<1>2. TickAtRest \in [pc : {"idle"}, at : {0}, snap : [Pods -> {None}], todo : {{}}, cur : {None}]
    BY DEF TickAtRest
<1> QED BY <1>1, <1>2, ConstantsAssumption
        DEF Init, IInv, TypeOK, Windows, GivenUp, Answered, Attempting, Known, TickAtRest

-----------------------------------------------------------------------------
(* Each action preserves the invariant *)

LEMMA PassesInv == IInv /\ Passes => IInv'
BY ConstantsAssumption
   DEF IInv, Passes, TypeOK, Windows, GivenUp, Answered, Attempting, Known, cluster, tracking

LEMMA DeadlinePassesInv ==
    ASSUME IInv, NEW r \in Bookings, DeadlinePasses(r) PROVE IInv'
BY DEF IInv, DeadlinePasses, TypeOK, Windows, GivenUp, Answered, Attempting, Known, cluster

LEMMA RowEndsInv == ASSUME IInv, NEW r \in Bookings, RowEnds(r) PROVE IInv'
BY DEF IInv, RowEnds, TypeOK, Windows, GivenUp, Answered, Attempting, Known, cluster, tracking

LEMMA CreatePodInv == ASSUME IInv, NEW p \in Pods, CreatePod(p) PROVE IInv'
BY DEF IInv, CreatePod, TypeOK, Windows, GivenUp, Answered, Attempting, Known, tracking

LEMMA PodEndsInv == ASSUME IInv, NEW p \in Pods, PodEnds(p) PROVE IInv'
BY DEF IInv, PodEnds, TypeOK, Windows, GivenUp, Answered, Attempting, Known, tracking

LEMMA WatchRoutesInv == ASSUME IInv, NEW p \in Pods, WatchRoutes(p) PROVE IInv'
<1>1. PICK r \in Best(listed) :
          /\ Enqueue(p, r)
          /\ watch' \in IF IsOpen(r, clock) THEN {None, p} ELSE {None}
    BY DEF WatchRoutes
<1>2. r \in Bookings
    BY BestType DEF IInv, TypeOK
<1>3. deadline' \in [Bookings -> {"none", "armed", "due"}]
    BY <1>1, PoppedType DEF Enqueue, IInv
<1>4. queue' \in [Pods -> Windows]
    BY <1>1, <1>2 DEF Enqueue, IInv, TypeOK, Windows
<1>5. watch' \in Pods \cup {None}
    BY <1>1
<1> QED BY <1>3, <1>4, <1>5
        DEF IInv, WatchRoutes, TypeOK, GivenUp, Answered, Attempting, Known, cluster

LEMMA WatchAttemptsInv == ASSUME IInv, WatchAttempts PROVE IInv'
<1> USE DEF IInv, TypeOK
<1>1. watch \in Pods
    BY DEF WatchAttempts
<1>2. ref' \in [Pods -> Windows] /\ queue' \in [Pods -> Windows]
    BY <1>1 DEF WatchAttempts, Windows
<1>3. \A p \in Pods : ref[p] # None => ref'[p] = ref[p]
    BY <1>1 DEF WatchAttempts
<1>4. faults' \in 0..MaxFaults
    BY ConstantsAssumption DEF WatchAttempts, Fault
<1> QED BY <1>2, <1>3, <1>4
        DEF WatchAttempts, GivenUp, Answered, Attempting, Known, tracking

LEMMA WatchGivesUpInv == ASSUME IInv, WatchGivesUp PROVE IInv'
BY DEF IInv, WatchGivesUp, TypeOK, GivenUp, Answered, Attempting, Known, cluster, tracking

LEMMA WatchSeenInv == ASSUME IInv, NEW p \in Pods, WatchSeen(p) PROVE IInv'
<1>1. deadline' \in [Bookings -> {"none", "armed", "due"}]
    BY PoppedType DEF WatchSeen, IInv, TypeOK
<1> QED BY <1>1
        DEF IInv, WatchSeen, TypeOK, Windows, GivenUp, Answered, Attempting, Known, cluster

LEMMA WatchGoneInv == ASSUME IInv, NEW p \in Pods, WatchGone(p) PROVE IInv'
BY DEF IInv, WatchGone, TypeOK, Windows, GivenUp, Answered, Attempting, Known, cluster, tracking

LEMMA FetchAnsweredInv == ASSUME IInv, FetchAnswered PROVE IInv'
BY DEF IInv, FetchAnswered, TypeOK, GivenUp, Answered, Attempting, Known, cluster, tracking

LEMMA FetchAppliedInv == ASSUME IInv, FetchApplied PROVE IInv'
<1> USE DEF IInv, TypeOK
<1> DEFINE L == fetch.rows
           kept == [r \in Bookings |-> IF r \in L THEN deadline[r] ELSE "none"]
<1>1. L \subseteq Bookings
    OBVIOUS
<1>2. kept \in [Bookings -> {"none", "armed", "due"}]
    OBVIOUS
<1>3. deadline' \in [Bookings -> {"none", "armed", "due"}]
    <2>1. deadline' = Armed(L, kept, noshow', claimed)
        BY DEF FetchApplied
    <2> QED BY <2>1, <1>2, ArmedType
<1>4. queue' \in [Pods -> Windows]
    <2>1. PICK r \in IF Best(L) = {} THEN {None} ELSE Best(L) :
             queue' = [p \in Pods |-> IF queue[p] \in L \cup {None} THEN queue[p] ELSE r]
        BY DEF FetchApplied
    <2>2. r \in Windows
        BY <1>1, BestType DEF Windows
    <2> QED BY <2>1, <2>2
<1>5. noshow' = noshow \cap L /\ pending' = pending \cap L /\ listed' = L
    BY DEF FetchApplied, Pruned
<1>6. GivenUp'
    BY <1>5 DEF FetchApplied, GivenUp
<1> QED BY <1>1, <1>3, <1>4, <1>5, <1>6
        DEF FetchApplied, Answered, Attempting, Known, cluster

LEMMA TickStartsInv == ASSUME IInv, TickStarts PROVE IInv'
<1>1. /\ tick'.pc = "list" /\ tick'.cur = None
      /\ tick' \in [pc : {"list"}, at : {clock}, snap : [Pods -> {None}], todo : {{}}, cur : {None}]
    BY DEF TickStarts, TickAtRest
<1> QED BY <1>1
        DEF IInv, TickStarts, TypeOK, Windows, GivenUp, Answered, Attempting, Known, cluster, tracking

LEMMA TickListedInv == ASSUME IInv, TickListed PROVE IInv'
<1> USE DEF IInv, TypeOK
<1>1. tick' = [tick EXCEPT !.pc = "check",
                           !.snap = [p \in Pods |-> IF pod[p] = "live" THEN ref[p] ELSE None]]
    BY DEF TickListed
<1>2. [p \in Pods |-> IF pod[p] = "live" THEN ref[p] ELSE None] \in [Pods -> Windows]
    BY DEF Windows
<1>3. /\ tick'.pc = "check"
      /\ tick'.snap = [p \in Pods |-> IF pod[p] = "live" THEN ref[p] ELSE None]
      /\ tick' \in [pc : {"check"}, at : 0..MaxTime, snap : [Pods -> Windows],
                    todo : SUBSET Bookings, cur : Bookings \cup Pods \cup {None}]
    BY <1>1, <1>2
<1> QED BY <1>3 DEF TickListed, GivenUp, Answered, Attempting, Known, cluster, tracking

\* What a check declares is declared and pending.
LEMMA DeclareInv ==
    ASSUME IInv, NEW c, NEW d \in [Bookings -> {"none", "armed", "due"}], Declare(d, c), row' = row
    PROVE  /\ deadline' \in [Bookings -> {"none", "armed", "due"}]
           /\ noshow' \subseteq Bookings /\ pending' \subseteq noshow'
           /\ GivenUp'
BY DEF Declare, IInv, TypeOK, GivenUp

LEMMA TickChecksInv == ASSUME IInv, TickChecks PROVE IInv'
<1> DEFINE c == Claims({tick.snap[p] : p \in Pods} \ {None}, tick.at)
<1>1. Declare(Popped(c), c) /\ claimed' = c /\ row' = row
    BY DEF TickChecks
<1>2. Popped(c) \in [Bookings -> {"none", "armed", "due"}]
    BY PoppedType DEF IInv
<1>3. /\ deadline' \in [Bookings -> {"none", "armed", "due"}]
      /\ noshow' \subseteq Bookings /\ pending' \subseteq noshow'
      /\ GivenUp'
    BY <1>1, <1>2, DeclareInv
<1>4. claimed' \subseteq Bookings
    BY <1>1 DEF Claims
<1>5. /\ tick.pc = "check" /\ tick'.pc \in {"queue", "cancel"} /\ tick'.snap = tick.snap
      /\ tick' \in [pc : {"queue", "cancel"}, at : 0..MaxTime, snap : [Pods -> Windows],
                    todo : SUBSET Bookings, cur : Bookings \cup Pods \cup {None}]
    BY <1>3 DEF TickChecks, IInv, TypeOK
<1> QED BY <1>3, <1>4, <1>5
        DEF TickChecks, IInv, TypeOK, Answered, Attempting, Known, cluster

LEMMA TickListFailsInv == ASSUME IInv, TickListFails PROVE IInv'
<1>1. Declare(deadline, claimed) /\ row' = row
    BY DEF TickListFails
<1>2. /\ deadline' \in [Bookings -> {"none", "armed", "due"}]
      /\ noshow' \subseteq Bookings /\ pending' \subseteq noshow'
      /\ GivenUp'
    BY <1>1, DeclareInv DEF IInv, TypeOK
<1>3. /\ tick'.pc = "queue"
      /\ tick' \in [pc : {"queue"}, at : 0..MaxTime, snap : [Pods -> Windows],
                    todo : SUBSET Bookings, cur : Bookings \cup Pods \cup {None}]
    BY DEF TickListFails, Proceed, IInv, TypeOK
<1>4. faults' \in 0..MaxFaults
    BY ConstantsAssumption DEF TickListFails, Fault, IInv, TypeOK
<1> QED BY <1>2, <1>3, <1>4
        DEF TickListFails, IInv, TypeOK, Answered, Attempting, Known, cluster

LEMMA TickCancelsInv == ASSUME IInv, TickCancels PROVE IInv'
<1> USE DEF IInv, TypeOK
<1>1. PICK r \in tick.todo \ Spared :
          \/ /\ row' = [row EXCEPT ![r] = "cancelled"] /\ faults' = faults
             /\ tick' = [tick EXCEPT !.pc = "answer", !.cur = r, !.todo = @ \ {r}]
          \/ /\ Fault /\ row' \in {row, [row EXCEPT ![r] = "cancelled"]}
             /\ tick' = [tick EXCEPT !.todo = @ \ {r}]
    BY DEF TickCancels
<1>2. r \in Bookings /\ tick.pc = "cancel"
    BY DEF TickCancels
<1>3. /\ row' \in [Bookings -> {"active", "cancelled", "over"}]
      /\ \A s \in Bookings : row'[s] = "active" => row[s] = "active"
    BY <1>1, <1>2
<1>4. faults' \in 0..MaxFaults
    BY <1>1, ConstantsAssumption DEF Fault
<1>5. /\ tick'.snap = tick.snap /\ tick'.pc \in {"cancel", "answer"}
      /\ tick'.pc = "answer" => tick'.cur = r /\ row'[r] # "active"
      /\ tick' \in [pc : {"cancel", "answer"}, at : 0..MaxTime, snap : [Pods -> Windows],
                    todo : SUBSET Bookings, cur : Bookings \cup Pods \cup {None}]
    <2>1. CASE /\ row' = [row EXCEPT ![r] = "cancelled"] /\ faults' = faults
               /\ tick' = [tick EXCEPT !.pc = "answer", !.cur = r, !.todo = @ \ {r}]
        <3>1. row'[r] # "active"
            BY <2>1, <1>2
        <3>2. /\ tick'.snap = tick.snap /\ tick'.pc = "answer" /\ tick'.cur = r
              /\ tick' \in [pc : {"answer"}, at : 0..MaxTime, snap : [Pods -> Windows],
                            todo : SUBSET Bookings, cur : {r}]
            BY <2>1, <1>2
        <3> QED BY <3>1, <3>2, <1>2
    <2>2. CASE tick' = [tick EXCEPT !.todo = @ \ {r}]
        BY <2>2, <1>2
    <2> QED BY <2>1, <2>2, <1>1
<1> QED BY <1>2, <1>3, <1>4, <1>5
        DEF TickCancels, GivenUp, Answered, Attempting, Known, cluster, tracking

LEMMA TickCancelledInv == ASSUME IInv, TickCancelled PROVE IInv'
<1> USE DEF IInv, TypeOK
<1>1. /\ tick.pc = "answer" /\ tick'.pc = "cancel" /\ tick'.snap = tick.snap
      /\ tick' \in [pc : {"cancel"}, at : 0..MaxTime, snap : [Pods -> Windows],
                    todo : SUBSET Bookings, cur : {None}]
    BY DEF TickCancelled
<1>2. GivenUp'
    BY <1>1 DEF TickCancelled, GivenUp, Answered
<1> QED BY <1>1, <1>2 DEF TickCancelled, Answered, Attempting, Known, cluster

LEMMA TickCancelsDoneInv == ASSUME IInv, TickCancelsDone PROVE IInv'
<1>1. /\ tick'.pc = "queue" /\ tick'.snap = tick.snap
      /\ tick' \in [pc : {"queue"}, at : 0..MaxTime, snap : [Pods -> Windows],
                    todo : SUBSET Bookings, cur : Bookings \cup Pods \cup {None}]
    BY DEF TickCancelsDone, IInv, TypeOK
<1> QED BY <1>1
        DEF TickCancelsDone, IInv, TypeOK, GivenUp, Answered, Attempting, Known, cluster, tracking

LEMMA TickAdoptsInv == ASSUME IInv, NEW p \in Pods, TickAdopts(p) PROVE IInv'
<1> USE DEF IInv, TypeOK
<1>1. PICK r \in listed : ref' = [ref EXCEPT ![p] = r]
    BY DEF TickAdopts
<1>2. r \in Bookings /\ r # None
    BY ConstantsAssumption
<1> QED BY <1>1, <1>2 DEF TickAdopts, Windows, GivenUp, Answered, Attempting, Known, tracking

LEMMA TickAttemptsInv == ASSUME IInv, NEW p \in Pods, TickAttempts(p) PROVE IInv'
<1> USE DEF IInv, TypeOK
<1>1. PICK r \in Target(p) :
          IF r = queue[p] THEN UNCHANGED <<queue, deadline>> ELSE Enqueue(p, r)
    BY DEF TickAttempts
<1>2. r \in Windows
    BY DEF Target, Soonest, Windows
<1>3. queue' \in [Pods -> Windows] /\ deadline' \in [Bookings -> {"none", "armed", "due"}]
    BY <1>1, <1>2, PoppedType DEF Enqueue
<1>4. /\ tick'.pc = "patch" /\ tick'.cur = p
      /\ tick' \in [pc : {"patch"}, at : 0..MaxTime, snap : [Pods -> Windows],
                    todo : SUBSET Bookings, cur : Pods]
    BY DEF TickAttempts
<1> QED BY <1>3, <1>4 DEF TickAttempts, GivenUp, Answered, Attempting, Known, cluster

LEMMA TickPatchesInv == ASSUME IInv, TickPatches PROVE IInv'
<1> USE DEF IInv, TypeOK
<1>1. tick.cur \in Pods
    BY DEF TickPatches, Attempting
<1>2. ref' \in [Pods -> Windows] /\ queue' \in [Pods -> Windows]
    BY <1>1 DEF TickPatches, Windows
<1>3. \A p \in Pods : ref[p] # None => ref'[p] = ref[p]
    BY <1>1 DEF TickPatches
<1>4. faults' \in 0..MaxFaults
    BY ConstantsAssumption DEF TickPatches, Fault
<1>5. /\ tick'.pc = "queue"
      /\ tick' \in [pc : {"queue"}, at : 0..MaxTime, snap : [Pods -> Windows],
                    todo : SUBSET Bookings, cur : {None}]
    BY DEF TickPatches
<1> QED BY <1>2, <1>3, <1>4, <1>5
        DEF TickPatches, GivenUp, Answered, Attempting, Known, tracking

LEMMA TickEndsInv == ASSUME IInv, TickEnds PROVE IInv'
<1>1. tick' = TickAtRest /\ TickAtRest.pc = "idle"
    BY DEF TickEnds, TickAtRest
<1>2. TickAtRest \in [pc : {"idle"}, at : {0}, snap : [Pods -> {None}], todo : {{}}, cur : {None}]
    BY DEF TickAtRest
<1> QED BY <1>1, <1>2, ConstantsAssumption
        DEF TickEnds, IInv, TypeOK, Windows, GivenUp, Answered, Attempting, Known, cluster, tracking

LEMMA RestartInv == ASSUME IInv, Restart PROVE IInv'
<1> DEFINE L == {r \in Bookings : row[r] = "active"}
<1>1. tick' = TickAtRest /\ TickAtRest.pc = "idle"
    BY DEF Restart, TickAtRest
<1>2. TickAtRest \in [pc : {"idle"}, at : {0}, snap : [Pods -> {None}], todo : {{}}, cur : {None}]
    BY DEF TickAtRest
<1>3. deadline' \in [Bookings -> {"none", "armed", "due"}]
    <2>1. deadline' = Armed(L, [r \in Bookings |-> "none"], {}, {})
        BY DEF Restart
    <2> QED BY <2>1, ArmedType,
               [r \in Bookings |-> "none"] \in [Bookings -> {"none", "armed", "due"}]
<1>4. faults' \in 0..MaxFaults
    BY ConstantsAssumption DEF Restart, Fault, IInv, TypeOK
<1> QED BY <1>1, <1>2, <1>3, <1>4, ConstantsAssumption
        DEF Restart, IInv, TypeOK, Windows, GivenUp, Answered, Attempting, Known, cluster

LEMMA StutterInv == IInv /\ UNCHANGED vars => IInv'
BY DEF IInv, vars, TypeOK, GivenUp, Answered, Attempting, Known, cluster, tracking

-----------------------------------------------------------------------------
LEMMA WatchInv == ASSUME IInv, WatchStep PROVE IInv'
BY WatchRoutesInv, WatchAttemptsInv, WatchGivesUpInv, WatchSeenInv, WatchGoneInv DEF WatchStep

LEMMA TickInv == ASSUME IInv, TickStep PROVE IInv'
BY TickStartsInv, TickListedInv, TickChecksInv, TickListFailsInv, TickCancelsInv,
   TickCancelledInv, TickCancelsDoneInv, TickPatchesInv, TickEndsInv, TickAdoptsInv,
   TickAttemptsInv DEF TickStep

LEMMA NextInv == IInv /\ [Next]_vars => IInv'
<1>1. ASSUME IInv, Next PROVE IInv'
    BY <1>1, PassesInv, RestartInv, DeadlinePassesInv, RowEndsInv, CreatePodInv, PodEndsInv,
       WatchInv, FetchAnsweredInv, FetchAppliedInv, TickInv DEF Next, FetchStep
<1> QED BY <1>1, StutterInv

LEMMA Invariance == Spec => []IInv
BY InitInv, NextInv, PTL DEF Spec

\* Every reachable state is well typed, whatever fails and when.
THEOREM TypeCorrect == Spec => []TypeOK
<1>1. IInv => TypeOK
    BY DEF IInv
<1> QED BY <1>1, Invariance, PTL

\* No booking given up on stays shut to its owner while the app keeps it
\* (reconcile_noshow, _cancel_pending_noshows).
THEOREM NoneInLimbo == Spec => []NoLimbo
<1>1. IInv => NoLimbo
    BY DEF IInv, GivenUp, NoLimbo
<1> QED BY <1>1, Invariance, PTL

-----------------------------------------------------------------------------
\* Only the cancel of the tick cancels a row, and it spares what its list holds.
LEMMA CancelSpares ==
    ASSUME IInv, [Next]_vars, NEW r \in Bookings, CancelsNow(r)
    PROVE  tick.pc = "cancel" /\ r \notin Spared
<1>1. TickCancels
    <2>1. row' # row
        BY DEF CancelsNow
    <2>2. ~ \E s \in Bookings : DeadlinePasses(s) \/ RowEnds(s)
        BY DEF CancelsNow, DeadlinePasses, RowEnds, IInv, TypeOK
    <2> QED BY <2>1, <2>2
            DEF Next, vars, Passes, Restart, CreatePod, PodEnds, WatchStep, WatchAttempts,
                WatchGivesUp, WatchRoutes, WatchSeen, WatchGone, FetchStep, FetchAnswered,
                FetchApplied, TickStep, TickStarts, TickListed, TickChecks, TickListFails,
                TickCancelled, TickCancelsDone, TickPatches, TickEnds, TickAdopts, TickAttempts
<1>2. PICK s \in tick.todo \ Spared : row' \in {row, [row EXCEPT ![s] = "cancelled"]}
    BY <1>1 DEF TickCancels
<1>3. s = r
    BY <1>2 DEF CancelsNow, IInv, TypeOK
<1> QED BY <1>1, <1>2, <1>3 DEF TickCancels

\* The controller never cancels a booking under a pod that ran under it when the
\* tick began (_cancel_pending_noshows).
THEOREM HoldersAreSpared == Spec => HoldersSpared
<1> DEFINE A == \A r \in Bookings : CancelsNow(r) => \A p \in steady : ref[p] # r
<1>1. IInv /\ [Next]_vars => A
    <2> SUFFICES ASSUME IInv, [Next]_vars, NEW r \in Bookings, CancelsNow(r),
                        NEW p \in steady, ref[p] = r
                 PROVE  FALSE
        OBVIOUS
    <2>1. tick.pc = "cancel" /\ r \notin Spared
        BY CancelSpares
    <2>2. p \in Pods /\ tick.snap[p] = r
        BY <2>1 DEF IInv, TypeOK, Known
    <2> QED BY <2>1, <2>2, ConstantsAssumption DEF Spared
<1>2. IInv /\ [Next]_vars => [A]_vars
    BY <1>1
<1>3. HoldersSpared <=> [][A]_vars
    BY DEF HoldersSpared
<1> QED BY <1>2, <1>3, Invariance, PTL DEF Spec

-----------------------------------------------------------------------------
\* Only a check declares a booking, and without a failed call only the check of
\* a list that was served, for none of the windows its holders claim.
LEMMA OnlyChecksDeclare ==
    ASSUME IInv, [Next]_vars, NEW r \in noshow' \ noshow, faults' = 0
    PROVE  /\ tick.pc = "check"
           /\ r \in Bookings \ Claims({tick.snap[p] : p \in Pods} \ {None}, tick.at)
<1>1. TickChecks
    <2>1. noshow' # noshow
        OBVIOUS
    <2>2. ~ TickListFails /\ ~ Restart
        BY ConstantsAssumption DEF TickListFails, Restart, Fault, IInv, TypeOK
    <2>3. ~ FetchApplied
        BY DEF FetchApplied
    <2> QED BY <2>1, <2>2, <2>3
            DEF Next, vars, tracking, Passes, DeadlinePasses, RowEnds, CreatePod, PodEnds,
                WatchStep, WatchAttempts, WatchGivesUp, WatchRoutes, WatchSeen, WatchGone,
                FetchStep, FetchAnswered, TickStep, TickStarts, TickListed, TickCancels,
                TickCancelled, TickCancelsDone, TickPatches, TickEnds, TickAdopts, TickAttempts
<1> QED BY <1>1 DEF TickChecks, Declare

\* A booking that a pod holds through its chain is not declared a no-show while
\* no call has failed (refresh_claimed_reservations, check_noshow_deadlines).
THEOREM ChainsAreSpared == Spec => ChainsSpared
<1> DEFINE A == \A r \in noshow' \ noshow : faults' = 0 =>
                   \A p \in steady : r \notin ClaimedBy(ref[p], tick.at)
<1>1. IInv /\ [Next]_vars => A
    <2> SUFFICES ASSUME IInv, [Next]_vars, NEW r \in noshow' \ noshow, faults' = 0,
                        NEW p \in steady, r \in ClaimedBy(ref[p], tick.at)
                 PROVE  FALSE
        OBVIOUS
    <2>1. /\ tick.pc = "check"
          /\ r \in Bookings \ Claims({tick.snap[q] : q \in Pods} \ {None}, tick.at)
        BY OnlyChecksDeclare
    <2>2. p \in Pods /\ tick.snap[p] = ref[p] /\ ref[p] # None
        BY <2>1 DEF IInv, TypeOK, Known
    <2> QED BY <2>1, <2>2 DEF Claims
<1>2. IInv /\ [Next]_vars => [A]_vars
    BY <1>1
<1>3. ChainsSpared <=> [][A]_vars
    BY DEF ChainsSpared
<1> QED BY <1>2, <1>3, Invariance, PTL DEF Spec
=============================================================================
