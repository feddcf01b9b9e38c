------------------------ MODULE ActorSchedulerProofs ------------------------
(***************************************************************************)
(* That ActorScheduler implements the serial schedule, and what it         *)
(* promises of actors that keep the protocol and of its termination gates: *)
(* for any number of actors, any schedule and any dependencies.            *)
(***************************************************************************)
EXTENDS ActorSchedulerInvariant

-----------------------------------------------------------------------------
(* The schedule is executed serially.                                       *)

LEMMA OneEngaged ==
  ASSUME IInv, NEW a \in Actors, NEW b \in Actors, Engaged(a), Engaged(b)
  PROVE  /\ a = b /\ next[a] \in Phases /\ next[a] = shm.activation[a]
         /\ \A c \in Actors : shm.activation[c] <= next[a]
<1>1. /\ next[a] = shm.activation[a] /\ next[b] = shm.activation[b]
      /\ shm.activation[a] <= shm.activation[b] /\ shm.activation[b] <= shm.activation[a]
      /\ \A c \in Actors : shm.activation[c] <= shm.activation[a]
  BY Zenon DEF IInv, ActivationInv
<1>2. next[a] \in Nat /\ next[b] \in Nat
  BY ScheduleType DEF IInv, TypeInv
<1>3. next[a] \in visitsOf(a) /\ next[b] \in visitsOf(b)
  <2>1. wpc[a] \in {"parked", "gate", "running"} /\ wpc[b] \in {"parked", "gate", "running"}
    BY Zenon DEF Engaged
  <2> QED
    BY Zenon, <2>1 DEF IInv, NextInv
<1>4. next[a] = next[b]
  BY <1>1, <1>2
<1> QED
  BY Zenon, <1>1, <1>3, <1>4 DEF visitsOf

\* A step in which nothing begins.
LEMMA QuietStep ==
  ASSUME IInv, UNCHANGED shm.acknowledged,
         \A b \in Actors : wpc'[b] = "running" => wpc[b] = "running" /\ next'[b] = next[b]
  PROVE  [Serial!Next]_<<executing, shm.acknowledged>>
<1>1. executing' \subseteq executing
  BY Zenon DEF executing
<1>2. ASSUME NEW p \in executing, NEW q \in executing PROVE p = q
  <2>1. PICK a \in Actors : wpc[a] = "running" /\ p = next[a]
    BY Zenon DEF executing
  <2>2. PICK b \in Actors : wpc[b] = "running" /\ q = next[b]
    BY Zenon DEF executing
  <2>3. Engaged(a) /\ Engaged(b)
    BY Zenon, <2>1, <2>2 DEF Engaged
  <2> QED
    BY Zenon, <2>1, <2>2, <2>3, OneEngaged
<1>3. executing' = executing \/ (executing' = {} /\ executing # {})
  BY Zenon, <1>1, <1>2
<1> QED
  BY Zenon, <1>3 DEF Serial!Next, Serial!End

LEMMA BeginStep ==
  ASSUME IInv, NEW a \in Actors, WorkerFrame(a), Begins(a)
  PROVE  Serial!Begin(next[a]) /\ next[a] \in Phases
<1>1. wpc[a] = "gate" /\ Engaged(a)
  BY Zenon DEF Begins, Engaged
<1>2. ASSUME NEW b \in Actors, wpc[b] = "running" PROVE FALSE
  <2>1. Engaged(b)
    BY Zenon, <1>2 DEF Engaged
  <2> QED
    BY Zenon, <1>1, <1>2, <2>1, OneEngaged
<1>3. executing = {}
  BY Zenon, <1>2 DEF executing
<1>4. executing' = {next[a]}
  <2>1. \A b \in Actors : b # a => wpc'[b] # "running"
    BY Zenon, <1>2 DEF WorkerFrame
  <2>2. wpc'[a] = "running" /\ next'[a] = next[a]
    BY Zenon DEF Begins
  <2> QED
    BY Zenon, <2>1, <2>2 DEF executing
<1>5. next[a] \in Phases /\ \A c \in Actors : shm.activation[c] <= next[a]
  BY Zenon, <1>1, OneEngaged
<1>6. ASSUME NEW q \in shm.acknowledged PROVE q < next[a]
  <2>1. q \in Phases /\ Schedule[q] \in Actors
    BY ScheduleType DEF IInv, TypeInv, Shm
  <2>2. q <= shm.activation[Schedule[q]] /\ shm.activation[Schedule[q]] <= next[a]
    BY Zenon, <1>5, <2>1 DEF IInv, ExecutionInv
  <2>3. q # next[a]
    BY <1>1 DEF IInv, ExecutionInv
  <2>4. shm.activation[Schedule[q]] \in Nat
    BY <2>1, ScheduleType DEF IInv, TypeInv, Shm
  <2> QED
    BY SMTT(60), <1>5, <2>1, <2>2, <2>3, <2>4, ScheduleType DEF Phases
<1>7. shm'.acknowledged = shm.acknowledged \cup {next[a]}
  BY Zenon DEF Begins
<1> QED
  BY Zenon, <1>3, <1>4, <1>5, <1>6, <1>7 DEF Serial!Begin

LEMMA SerialStep ==
  ASSUME IInv, [Next]_vars
  PROVE  [Serial!Next]_<<executing, shm.acknowledged>>
<1>1. ASSUME NEW a \in Actors, WorkerMoves(a)
      PROVE  [Serial!Next]_<<executing, shm.acknowledged>>
  <2>1. WorkerFrame(a)
    BY Zenon, <1>1 DEF WorkerMoves
  <2>2. CASE Begins(a)
    BY Zenon, <2>1, <2>2, BeginStep DEF Serial!Next
  <2>3. CASE SetsUp(a) \/ Arrives(a) \/ Completes(a) \/ Leaves(a)
    <3>1. wpc'[a] # "running" /\ UNCHANGED shm.acknowledged
      BY <2>3 DEF SetsUp, Arrives, Completes, Leaves
    <3>2. \A b \in Actors : wpc'[b] = "running" => wpc[b] = "running" /\ next'[b] = next[b]
      BY Zenon, <2>1, <3>1 DEF WorkerFrame
    <3> QED
      BY Zenon, <3>1, <3>2, QuietStep
  <2> QED
    BY Zenon, <1>1, <2>2, <2>3 DEF WorkerMoves
<1>2. CASE HostMoves
  <2>1. HostKeeps
    BY Zenon, <1>2, HostKeepsWorkers DEF IInv
  <2>2. \A b \in Actors : wpc'[b] = "running" => wpc[b] = "running" /\ next'[b] = next[b]
    BY <2>1 DEF HostKeeps
  <2> QED
    BY Zenon, <2>1, <2>2, QuietStep DEF HostKeeps
<1>3. CASE UNCHANGED <<shm, wpc, next, hpc, cursor, stopping, pending, records, stopped, child,
                       visits, cancelled, asked, early>>
  BY Zenon, <1>3, QuietStep
<1> QED
  BY Zenon, <1>1, <1>2, <1>3, Steps

\* The actors' scheduler implements the serial schedule: phases execute one at a time,
\* each after all that executed before it, for any actors, schedule and faults.
THEOREM ScheduleIsSerial == Spec => ImplementsSerial
<1>1. Init => Serial!Init
  BY SMTT(60) DEF Init, Serial!Init, executing
<1>2. IInv /\ [Next]_vars => [Serial!Next]_<<executing, shm.acknowledged>>
  BY Zenon, SerialStep
<1> QED
  BY <1>1, <1>2, Invariant, PTL DEF Spec, ImplementsSerial, Serial!Spec

-----------------------------------------------------------------------------
(* Actors that keep the protocol.                                           *)

\* The steps of the host that write nothing of a visit the invariants read.
VisitsKept ==
  \/ PrepStep \/ LaunchStep \/ (\E a \in Actors, then \in Resumed : StopStep(a, then))
  \/ GateEntered \/ VisitOver \/ FinishStep
  \/ (\E a \in Actors, reaped \in BOOLEAN : StopOver(a, reaped))

LEMMA SameVisits ==
  ASSUME TypeInv, WalkInv, VisitsKept
  PROVE  (\A p \in Phases : SameVisit(p)) /\ UNCHANGED shm.proceed
<1>1. UNCHANGED shm.proceed
  BY Zenon DEF VisitsKept, PrepStep, LaunchStep, StopStep, GateEntered, VisitOver, FinishStep, StopOver
<1>2. CASE visits' = [visits EXCEPT ![cursor].completionObserved = cursor \in shm.completed]
           /\ hpc = "ending"
  <2>1. AtVisit
    BY <1>2 DEF AtVisit, VisitPc
  <2>2. cursor \in Phases /\ (cursor \in shm.completed) \in BOOLEAN
    BY <2>1 DEF WalkInv
  <2>3. OthersSame /\ SameVisit(cursor)
    BY Zenon, <1>2, <2>2, VisitFields
  <2> QED
    BY Zenon, <1>1, <2>3 DEF OthersSame, SameVisit
<1>3. CASE UNCHANGED visits
  BY Zenon, <1>1, <1>3 DEF SameVisit
<1> QED
  BY Zenon, <1>2, <1>3 DEF VisitsKept, PrepStep, LaunchStep, StopStep, GateEntered, VisitOver,
    FinishStep, StopOver

LEMMA HonestStep ==
  ASSUME "gate_jump" \notin Faults, IInv, HonestInv, [Next]_vars
  PROVE  HonestInv'
<1>1. ASSUME NEW a \in Actors, WorkerMoves(a) PROVE HonestInv'
  <2>1. UNCHANGED <<visits, shm.proceed>>
    BY Zenon, <1>1 DEF WorkerMoves, WorkerFrame, hostVars
  <2>2. UNCHANGED shm.acknowledged
        \/ (shm'.acknowledged = shm.acknowledged \cup {next[a]} /\ next[a] \in shm.proceed)
    BY Zenon, <1>1 DEF WorkerMoves, SetsUp, Arrives, Begins, Completes, Leaves
  <2> QED
    BY Zenon, <2>1, <2>2 DEF HonestInv
<1>2. ASSUME UNCHANGED shm.acknowledged, shm.proceed \subseteq shm'.proceed, NEW p \in Phases,
             \A q \in Phases : q # p => visits'[q].endReason = visits[q].endReason,
             visits'[p].endReason # "protocol_violation"
      PROVE  HonestInv'
  BY Zenon, <1>2 DEF HonestInv
<1>3. CASE HostMoves
  <2>1. UNCHANGED shm.acknowledged
    BY Zenon, <1>3, HostKeepsWorkers DEF IInv, HostKeeps
  <2>2. CASE VisitsKept
    <3>1. (\A p \in Phases : SameVisit(p)) /\ UNCHANGED shm.proceed
      BY Zenon, <2>2, SameVisits DEF IInv
    <3> QED
      BY Zenon, <2>1, <3>1 DEF HonestInv, SameVisit
  <2>3. CASE SkipStep
    <3>1. UNCHANGED shm.proceed /\ cursor \in Phases
      BY Zenon, <2>3 DEF SkipStep
    <3>2. PICK r \in EndReason \ {"completed", "protocol_violation"}, g \in Gate :
            visits' = [visits EXCEPT ![cursor].endReason = r, ![cursor].gate = g]
      BY Zenon, <2>3 DEF SkipStep
    <3>3. OthersSame /\ Skipped(cursor, r, g) /\ r # "protocol_violation"
      BY Zenon, <3>1, <3>2, VisitFields DEF IInv
    <3> QED
      BY Zenon, <1>2, <2>1, <3>1, <3>3 DEF OthersSame, Skipped
  <2>4. ASSUME NEW c \in [Actors -> Child], NEW g \in Gate, ActivateStep(c, g) PROVE HonestInv'
    <3> DEFINE n == c[Schedule[cursor]].captured + 1
    <3>1. /\ UNCHANGED shm.proceed /\ cursor \in Phases
          /\ visits' = [visits EXCEPT ![cursor] = [@ EXCEPT !.activationStored = TRUE, !.gate = g,
                                                            !.activation = n]]
      BY Zenon, <2>4 DEF ActivateStep
    <3>2. n \in Nat
      BY <3>1, ScheduleType DEF Child
    <3> HIDE DEF n
    <3>3. OthersSame /\ Activated(cursor, n, g)
      BY Zenon, <3>1, <3>2, VisitFields DEF IInv
    <3>4. visits'[cursor].endReason # "protocol_violation"
      BY Zenon, <3>1, <3>3 DEF Activated, HonestInv
    <3> QED
      BY Zenon, <1>2, <2>1, <3>1, <3>3, <3>4 DEF OthersSame
  <2>5. CASE VisitStep
    <3>1. /\ AtVisit /\ hpc \in VisitPc
      BY <2>5 DEF VisitStep, VisitPc, AtVisit
    <3>2. /\ cursor \in Phases /\ cancelled = None /\ available(Schedule[cursor])
          /\ \A q \in Phases : q < cursor /\ available(Schedule[q]) => q \in shm.completed
      BY Zenon, <3>1 DEF IInv, WalkInv
    <3>3. TypeInv
      BY Zenon DEF IInv
    <3>4. CASE VisitMoves
      BY Zenon, <2>1, <3>4 DEF VisitMoves, HonestInv
    <3>5. ASSUME NEW r \in EndReason, VisitEnds(r) PROVE HonestInv'
      <4>1. /\ UNCHANGED shm /\ OthersSame /\ Marks(cursor, visits[cursor].collectionClosed, r)
            /\ r = "protocol_violation" => hpc = "check" /\ ~inOrder(cursor)
        BY Zenon, <3>2, <3>3, <3>5, VisitFields DEF VisitEnds
      <4>2. ASSUME r = "protocol_violation" PROVE FALSE
        <5>1. hpc \in UnreleasedPc /\ ~inOrder(cursor)
          BY <4>1, <4>2 DEF UnreleasedPc
        <5>2. cursor \notin shm.acknowledged /\ cursor \notin shm.completed
          BY Zenon, <5>1 DEF IInv, VisitInv, CollectionInv, HonestInv
        <5>3. \A q \in visitsOf(Schedule[cursor]) : q < cursor => q \in shm.completed
          BY Zenon, <3>2 DEF visitsOf
        <5> QED
          BY Zenon, <5>1, <5>2, <5>3 DEF inOrder
      <4> QED
        BY Zenon, <1>2, <3>2, <4>1, <4>2 DEF OthersSame, Marks
    <3>6. CASE CollectionCloses
      <4>1. /\ UNCHANGED shm /\ OthersSame /\ Marks(cursor, TRUE, visits[cursor].endReason)
        BY Zenon, <3>2, <3>3, <3>6, VisitFields DEF CollectionCloses
      <4>2. visits'[cursor].endReason # "protocol_violation"
        BY Zenon, <3>2, <4>1 DEF Marks, HonestInv
      <4> QED
        BY Zenon, <1>2, <3>2, <4>1, <4>2 DEF OthersSame
    <3>7. CASE VisitReleased
      <4>1. visits' = [visits EXCEPT ![cursor].releaseStored = TRUE] /\ TRUE \in BOOLEAN
        BY Zenon, <3>7 DEF VisitReleased
      <4>2. OthersSame /\ SameVisit(cursor)
        BY Zenon, <3>2, <3>3, <4>1, VisitFields
      <4>3. shm.proceed \subseteq shm'.proceed
        BY <3>3, <3>7 DEF VisitReleased, TypeInv, Shm
      <4>4. visits'[cursor].endReason # "protocol_violation"
        BY Zenon, <3>2, <4>2 DEF SameVisit, HonestInv
      <4> QED
        BY Zenon, <1>2, <2>1, <3>2, <4>2, <4>3, <4>4 DEF OthersSame
    <3> QED
      BY Zenon, <2>5, <3>4, <3>5, <3>6, <3>7 DEF VisitStep
  <2> QED
    BY Zenon, <1>3, <2>2, <2>3, <2>4, <2>5 DEF HostMoves, VisitsKept
<1>4. CASE UNCHANGED <<shm, wpc, next, hpc, cursor, stopping, pending, records, stopped, child,
                       visits, cancelled, asked, early>>
  BY Zenon, <1>4 DEF HonestInv
<1> QED
  BY Zenon, <1>1, <1>3, <1>4, Steps

\* When actors wait for their release, nothing of the specimen executes while predictions
\* are collected, and no actor is accused of a violation or handed an activation that
\* passes over a visit it has still to make.
THEOREM ProtocolHolds ==
  ASSUME "gate_jump" \notin Faults
  PROVE  Spec => []ProtocolKept
<1>1. Init => HonestInv
  BY DEF Init, HonestInv
<1>2. IInv /\ HonestInv /\ [Next]_vars => HonestInv'
  BY Zenon, HonestStep
<1>3. IInv /\ HonestInv => ProtocolKept
  <2> SUFFICES ASSUME IInv, HonestInv PROVE ProtocolKept
    OBVIOUS
  <2>1. ASSUME hpc = "collect" PROVE executing = {}
    <3>1. AtVisit /\ hpc \in UnreleasedPc
      BY <2>1 DEF AtVisit, VisitPc, UnreleasedPc
    <3>2. cursor \notin shm.acknowledged
      BY Zenon, <3>1 DEF IInv, VisitInv, HonestInv
    <3>3. ASSUME NEW b \in Actors, wpc[b] = "running" PROVE FALSE
      <4>1. Engaged(b) /\ next[b] \in shm.acknowledged
        BY Zenon, <3>3 DEF Engaged, IInv, ExecutionInv
      <4>2. next[b] = cursor
        BY Zenon, <3>1, <4>1, EngagedIsAtCursor DEF IInv
      <4> QED
        BY Zenon, <3>2, <4>1, <4>2
    <3> QED
      BY Zenon, <3>3 DEF executing
  <2>2. ASSUME NEW a \in Actors, wpc[a] = "parked" PROVE shm.activation[a] <= next[a]
    <3>1. shm.activation[a] >= next[a] => next[a] = shm.activation[a]
      BY Zenon, <2>2 DEF Engaged, IInv, ActivationInv
    <3>2. shm.activation[a] \in Nat /\ next[a] \in Nat
      BY ScheduleType DEF IInv, TypeInv, Shm
    <3> QED
      BY <3>1, <3>2
  <2> QED
    BY Zenon, <2>1, <2>2 DEF ProtocolKept, HonestInv
<1> QED
  BY <1>1, <1>2, <1>3, Invariant, PTL DEF Spec

-----------------------------------------------------------------------------
(* Reaps and termination gates.                                             *)

\* The reaps of children c after a wait.
LEMMA ReapsNumbered ==
  ASSUME TypeInv, ReapInv, NEW c \in [Actors -> Child], NEW stage \in Stage, NEW b \in Actors,
         KeepsReap(c, b) \/ Reaps(c, b, stage)
  PROVE  /\ c[b].reaped <=> c[b].ownedReap # {}
         /\ \A r, s \in c[b].ownedReap : r = s
         /\ \A reap \in c[b].ownedReap :
              0 < reap.capture_ordinal /\ reap.capture_ordinal <= c[b].captured
<1>1. c[b] \in Child /\ child[b] \in Child
  BY Zenon DEF TypeInv
<1>2. c[b].captured \in Nat /\ child[b].captured \in Nat
  BY <1>1 DEF Child
<1>3. CASE KeepsReap(c, b)
  <2>1. /\ c[b].reaped = child[b].reaped /\ c[b].ownedReap = child[b].ownedReap
        /\ c[b].captured >= child[b].captured
    BY Zenon, <1>3 DEF KeepsReap
  <2>2. ASSUME NEW reap \in c[b].ownedReap
        PROVE  0 < reap.capture_ordinal /\ reap.capture_ordinal <= c[b].captured
    <3>1. 0 < reap.capture_ordinal /\ reap.capture_ordinal <= child[b].captured
      BY Zenon, <2>1, <2>2 DEF ReapInv, ReapOf
    <3>2. reap.capture_ordinal \in Nat
      BY <1>1, <2>1, <2>2 DEF Child, Reap
    <3> QED
      BY <1>2, <2>1, <3>1, <3>2
  <2> QED
    BY Zenon, <2>1, <2>2 DEF ReapInv
<1>4. CASE Reaps(c, b, stage)
  <2>1. /\ c[b].reaped /\ c[b].ownedReap = {ownedReap(b, stage)}
        /\ c[b].captured >= child[b].captured + 1
    BY Zenon, <1>4 DEF Reaps
  <2>2. ownedReap(b, stage).capture_ordinal = child[b].captured + 1
    BY DEF ownedReap
  <2> QED
    BY <1>2, <2>1, <2>2
<1> QED
  BY Zenon, <1>3, <1>4

\* What a step of the host at this stage may do to reaps.
ReapFrame(stage) ==
  /\ stopped' \cup asked' \subseteq shm'.exit_requested
  /\ child' \in [Actors -> Child]
  /\ \A b \in Actors :
       \/ KeepsReap(child', b)
       \/ wpc'[b] = "exited" /\ Reaps(child', b, stage) /\ (stage = "stop" => b \in stopped)
  /\ \A b \in Actors : wpc[b] = "exited" => wpc'[b] = "exited"
  /\ \A b \in asked' : b \in asked \/ wpc'[b] # "exited"
  /\ stage \in {"setup", "inspection"} => \A p \in Phases : ~visits'[p].activationStored
  /\ \A p \in Phases : visits'[p].activationStored =>
       \/ visits[p].activationStored /\ visits'[p].activation = visits[p].activation
       \/ visits'[p].activation > child[Schedule[p]].captured

LEMMA ReapKept ==
  ASSUME TypeInv, TypeInv', ReapInv, NEW stage \in Stage, ReapFrame(stage)
  PROVE  ReapInv'
<1> SUFFICES ASSUME NEW b \in Actors
             PROVE  /\ child'[b].reaped => wpc'[b] = "exited"
                    /\ child'[b].reaped <=> child'[b].ownedReap # {}
                    /\ \A r, s \in child'[b].ownedReap : r = s
                    /\ \A reap \in child'[b].ownedReap : ReapOf(b, reap)'
  BY Zenon DEF ReapInv, ReapFrame
<1>1. \/ KeepsReap(child', b)
      \/ wpc'[b] = "exited" /\ Reaps(child', b, stage) /\ (stage = "stop" => b \in stopped)
  BY Zenon DEF ReapFrame
<1>2. /\ child'[b].reaped <=> child'[b].ownedReap # {}
      /\ \A r, s \in child'[b].ownedReap : r = s
      /\ \A reap \in child'[b].ownedReap :
           0 < reap.capture_ordinal /\ reap.capture_ordinal <= child'[b].captured
  BY Zenon, <1>1, ReapsNumbered DEF ReapFrame
<1>3. child'[b].reaped => wpc'[b] = "exited"
  BY Zenon, <1>1 DEF ReapFrame, KeepsReap, ReapInv
<1>4. ASSUME NEW reap \in child'[b].ownedReap PROVE ReapOf(b, reap)'
  <2>1. wpc'[b] = "exited"
    BY Zenon, <1>2, <1>3
  <2>2. b \in asked' => b \in asked
    BY Zenon, <2>1 DEF ReapFrame
  <2>3. CASE KeepsReap(child', b)
    <3>1. reap \in child[b].ownedReap /\ ReapOf(b, reap)
      BY Zenon, <2>3 DEF KeepsReap, ReapInv
    <3>2. ASSUME reap.stage \in {"setup", "inspection"}, NEW p \in visitsOf(b),
                 visits'[p].activationStored
          PROVE  reap.capture_ordinal < visits'[p].activation
      <4>1. p \in Phases /\ Schedule[p] = b
        BY Zenon DEF visitsOf
      <4>2. CASE visits[p].activationStored /\ visits'[p].activation = visits[p].activation
        BY Zenon, <3>1, <3>2, <4>2 DEF ReapOf
      <4>3. CASE visits'[p].activation > child[b].captured
        <5>1. visits'[p].activation \in Nat
          BY <4>1 DEF TypeInv, Visit
        <5>2. child[b].captured \in Nat /\ reap.capture_ordinal \in Nat
          BY <3>1 DEF TypeInv, Child, Reap
        <5>3. reap.capture_ordinal <= child[b].captured
          BY Zenon, <3>1 DEF ReapOf
        <5> QED
          BY <4>3, <5>1, <5>2, <5>3
      <4> QED
        BY Zenon, <3>2, <4>1, <4>2, <4>3 DEF ReapFrame
    <3> QED
      BY Zenon, <1>2, <2>2, <3>1, <3>2 DEF ReapOf
  <2>4. CASE Reaps(child', b, stage) /\ (stage = "stop" => b \in stopped)
    <3>1. reap = ownedReap(b, stage)
      BY Zenon, <2>4 DEF Reaps
    <3>2. reap.stage = stage /\ (reap.departure_requested <=> b \in shm.exit_requested)
      BY Zenon, <3>1 DEF ownedReap
    <3>3. b \in stopped \cup asked => b \in shm.exit_requested
      BY Zenon DEF ReapInv
    <3>4. reap.stage \in {"setup", "inspection"} =>
            \A p \in visitsOf(b) : ~visits'[p].activationStored
      BY Zenon, <3>2 DEF ReapFrame, visitsOf
    <3> QED
      BY Zenon, <1>2, <2>2, <2>4, <3>2, <3>3, <3>4 DEF ReapOf
  <2> QED
    BY Zenon, <1>1, <2>3, <2>4
<1> QED
  BY Zenon, <1>2, <1>3, <1>4

LEMMA ChildNumbered ==
  ASSUME TypeInv, NEW c \in [Actors -> Child], NEW s \in Actors, NEW stage \in Stage,
         ChildStep(c, stage)
  PROVE  /\ ChildStep([c EXCEPT ![s].captured = @ + 1], stage)
         /\ \A b \in Actors : [c EXCEPT ![s].captured = @ + 1][b].ownedReap = c[b].ownedReap
<1> DEFINE d == [c EXCEPT ![s].captured = @ + 1]
<1>1. d \in [Actors -> Child]
  BY Zenon, NumberedType
<1>2. ASSUME NEW b \in Actors
      PROVE  /\ d[b].reaped = c[b].reaped /\ d[b].ownedReap = c[b].ownedReap
             /\ d[b].captured >= c[b].captured
             /\ d[b].captured \in Nat /\ c[b].captured \in Nat /\ child[b].captured \in Nat
  BY DEF TypeInv, Child
<1> HIDE DEF d
<1>3. ASSUME NEW b \in Actors
      PROVE  KeepsReap(d, b) \/ (wpc[b] = "exited" /\ Reaps(d, b, stage))
  <2>1. CASE KeepsReap(c, b)
    <3>1. /\ c[b].reaped = child[b].reaped /\ c[b].ownedReap = child[b].ownedReap
          /\ c[b].captured >= child[b].captured
      BY Zenon, <2>1 DEF KeepsReap
    <3>2. d[b].captured >= child[b].captured
      BY <1>2, <3>1
    <3> QED
      BY Zenon, <1>2, <3>1, <3>2 DEF KeepsReap
  <2>2. CASE wpc[b] = "exited" /\ Reaps(c, b, stage)
    <3>1. /\ ~child[b].reaped /\ c[b].reaped /\ c[b].ownedReap = {ownedReap(b, stage)}
          /\ c[b].captured >= child[b].captured + 1
      BY Zenon, <2>2 DEF Reaps
    <3>2. d[b].captured >= child[b].captured + 1
      BY <1>2, <3>1
    <3> QED
      BY Zenon, <1>2, <2>2, <3>1, <3>2 DEF Reaps
  <2> QED
    BY Zenon, <2>1, <2>2 DEF ChildStep
<1> QED
  BY Zenon, <1>1, <1>2, <1>3 DEF ChildStep, d

SameActivation(p) ==
  /\ visits'[p].activationStored = visits[p].activationStored
  /\ visits'[p].activation = visits[p].activation /\ visits'[p].gate = visits[p].gate

LEMMA ActivationsKept ==
  ASSUME TypeInv, WalkInv, VisitStep \/ VisitsKept
  PROVE  \A p \in Phases : SameActivation(p)
<1>1. CASE VisitsKept
  <2>1. \A p \in Phases : SameVisit(p)
    BY Zenon, <1>1, SameVisits
  <2> QED
    BY Zenon, <2>1 DEF SameVisit, SameActivation
<1>2. CASE VisitStep
  <2>1. AtVisit
    BY <1>2 DEF VisitStep, VisitPc, AtVisit
  <2>2. cursor \in Phases
    BY Zenon, <2>1 DEF WalkInv
  <2>3. ASSUME OthersSame, SameActivation(cursor) PROVE \A p \in Phases : SameActivation(p)
    BY Zenon, <2>3 DEF OthersSame, SameActivation
  <2>4. CASE VisitMoves
    BY Zenon, <2>4 DEF VisitMoves, SameActivation
  <2>5. ASSUME NEW r \in EndReason, VisitEnds(r) PROVE OthersSame /\ SameActivation(cursor)
    <3>1. OthersSame /\ Marks(cursor, visits[cursor].collectionClosed, r)
      BY Zenon, <2>2, <2>5, VisitFields DEF VisitEnds
    <3> QED
      BY Zenon, <3>1 DEF Marks, SameActivation
  <2>6. CASE CollectionCloses
    <3>1. OthersSame /\ Marks(cursor, TRUE, visits[cursor].endReason)
      BY Zenon, <2>2, <2>6, VisitFields DEF CollectionCloses
    <3> QED
      BY Zenon, <2>3, <3>1 DEF Marks, SameActivation
  <2>7. CASE VisitReleased
    <3>1. visits' = [visits EXCEPT ![cursor].releaseStored = TRUE] /\ TRUE \in BOOLEAN
      BY Zenon, <2>7 DEF VisitReleased
    <3>2. OthersSame /\ SameVisit(cursor)
      BY Zenon, <2>2, <3>1, VisitFields
    <3> QED
      BY Zenon, <2>3, <3>2 DEF SameVisit, SameActivation
  <2> QED
    BY Zenon, <1>2, <2>3, <2>4, <2>5, <2>6, <2>7 DEF VisitStep
<1> QED
  BY Zenon, <1>1, <1>2

\* A step that reads the children only.
LEMMA ReapUntouched ==
  ASSUME TypeInv, TypeInv', ReapInv, UNCHANGED child,
         stopped' \cup asked' \subseteq shm'.exit_requested,
         \A b \in Actors : wpc[b] = "exited" => wpc'[b] = "exited",
         \A b \in asked' : b \in asked \/ wpc'[b] # "exited",
         \A p \in Phases : SameActivation(p)
  PROVE  ReapInv'
<1>1. \A b \in Actors : KeepsReap(child', b)
  <2>1. \A b \in Actors : child[b].captured >= child[b].captured
    BY DEF TypeInv, Child
  <2> QED
    BY Zenon, <2>1 DEF KeepsReap
<1>2. child' \in [Actors -> Child]
  BY Zenon DEF TypeInv
<1>3. "schedule" \in Stage /\ "schedule" \notin {"setup", "inspection"}
  BY DEF Stage
<1>4. ReapFrame("schedule")
  BY Zenon, <1>1, <1>2, <1>3 DEF ReapFrame, SameActivation
<1> QED
  BY Zenon, <1>3, <1>4, ReapKept

LEMMA ReapByWorker ==
  ASSUME TypeInv, TypeInv', ReapInv, NEW a \in Actors, WorkerMoves(a)
  PROVE  ReapInv'
<1>1. UNCHANGED <<child, visits, stopped, asked, shm.exit_requested>>
  BY Zenon DEF WorkerMoves, WorkerFrame, hostVars
<1>2. \A b \in Actors : wpc[b] = "exited" => wpc'[b] = "exited"
  <2>1. wpc[a] # "exited"
    BY DEF WorkerMoves, SetsUp, Arrives, Begins, Completes, Leaves
  <2> QED
    BY Zenon, <2>1 DEF WorkerMoves, WorkerFrame
<1>3. stopped' \cup asked' \subseteq shm'.exit_requested
  BY Zenon, <1>1 DEF ReapInv
<1>4. \A p \in Phases : SameActivation(p)
  BY Zenon, <1>1 DEF SameActivation
<1> QED
  BY Zenon, <1>1, <1>2, <1>3, <1>4, ReapUntouched

LEMMA ReapByHost ==
  ASSUME TypeInv, TypeInv', LaunchInv, WalkInv, VisitInv, ReapInv, HostMoves, HostKeeps
  PROVE  ReapInv'
<1>0. /\ \A b \in Actors : wpc[b] = "exited" => wpc'[b] = "exited"
      /\ stopped \cup asked \subseteq shm.exit_requested
      /\ child' \in [Actors -> Child] /\ shm \in Shm
      /\ \A p \in Phases : Schedule[p] \in Actors
  <2>1. \A b \in Actors : wpc[b] = "exited" => wpc'[b] = "exited"
    BY DEF HostKeeps
  <2> QED
    BY Zenon, <2>1, ScheduleType DEF ReapInv, TypeInv
<1>s. /\ {"setup", "inspection", "termination_gate", "schedule", "stop"} \subseteq Stage
      /\ "termination_gate" \notin {"setup", "inspection", "stop"}
      /\ "schedule" \notin {"setup", "inspection", "stop"} /\ "stop" \notin {"setup", "inspection"}
      /\ "setup" # "stop" /\ "inspection" # "stop"
  BY DEF Stage
<1>1. CASE PrepStep
  <2>1. /\ UNCHANGED <<wpc, stopped, visits, asked, shm.exit_requested>>
        /\ ChildStep(child', "inspection")
    BY Zenon, <1>1 DEF PrepStep
  <2>2. \A p \in Phases : ~visits'[p].activationStored
    <3>1. Loop \in LaunchPc
      BY <1>1 DEF PrepStep, Loop, LaunchPc
    <3> QED
      BY Zenon, <2>1, <3>1 DEF VisitInv, Untouched
  <2>3. ReapFrame("inspection")
    BY Zenon, <1>0, <1>s, <2>1, <2>2 DEF ReapFrame, ChildStep
  <2> QED
    BY Zenon, <1>s, <2>3, ReapKept
<1>2. CASE LaunchStep
  <2>1. UNCHANGED <<child, visits>> /\ wpc'[cursor] # "exited"
    BY <1>2 DEF LaunchStep
  <2>2. /\ stopped' \cup asked' \subseteq shm'.exit_requested
        /\ \A b \in asked' : b \in asked \/ b = cursor
    BY Zenon, <1>0, <1>2 DEF LaunchStep
  <2>3. \A p \in Phases : SameActivation(p)
    BY Zenon, <2>1 DEF SameActivation
  <2> QED
    BY Zenon, <1>0, <2>1, <2>2, <2>3, ReapUntouched
<1>3. ASSUME NEW a \in Actors, NEW then \in Resumed, StopStep(a, then) PROVE ReapInv'
  <2>1. /\ UNCHANGED wpc
        /\ stopped' \cup asked' \subseteq shm'.exit_requested
        /\ \A b \in asked' : b \in asked \/ wpc'[b] # "exited"
    BY Zenon, <1>0, <1>3 DEF StopStep
  <2>2. CASE hpc \in {"setup", "setup_timeout"}
    <3>1. UNCHANGED visits /\ Loop \in LaunchPc /\ ChildStep(child', "setup")
      BY <1>3, <2>2 DEF StopStep, Loop, LaunchPc
    <3>2. \A p \in Phases : ~visits'[p].activationStored
      BY Zenon, <3>1 DEF VisitInv, Untouched
    <3>3. ReapFrame("setup")
      BY Zenon, <1>0, <1>s, <2>1, <3>1, <3>2 DEF ReapFrame, ChildStep
    <3> QED
      BY Zenon, <1>s, <3>3, ReapKept
  <2>3. CASE UNCHANGED child
    <3>1. \A p \in Phases : SameActivation(p)
      BY Zenon, <1>3, ActivationsKept DEF VisitsKept
    <3> QED
      BY Zenon, <1>0, <2>1, <2>3, <3>1, ReapUntouched
  <2> QED
    BY Zenon, <1>3, <2>2, <2>3 DEF StopStep
<1>4. CASE SkipStep
  <2>1. UNCHANGED <<wpc, stopped, asked, shm.exit_requested>> /\ cursor \in Phases
    BY Zenon, <1>4 DEF SkipStep
  <2>2. PICK r \in EndReason, g \in Gate :
          /\ visits' = [visits EXCEPT ![cursor].endReason = r, ![cursor].gate = g]
          /\ \/ hpc = "entry" /\ child' = child
             \/ /\ hpc = "gate"
                /\ \E c \in [Actors -> Child] :
                     GateLook(c, g) /\ child' = [c EXCEPT ![Source].captured = @ + 1]
    BY Zenon, <1>4 DEF SkipStep
  <2>3. OthersSame /\ Skipped(cursor, r, g)
    BY Zenon, <2>1, <2>2, VisitFields
  <2>4. \A p \in Phases : /\ visits'[p].activationStored = visits[p].activationStored
                          /\ visits'[p].activation = visits[p].activation
    BY Zenon, <2>3 DEF OthersSame, Skipped
  <2>5. ChildStep(child', "termination_gate")
    <3>1. CASE child' = child
      <4>1. \A b \in Actors : child[b].captured >= child[b].captured
        BY DEF TypeInv, Child
      <4> QED
        BY Zenon, <1>0, <3>1, <4>1 DEF ChildStep, KeepsReap
    <3>2. ASSUME NEW c \in [Actors -> Child], GateLook(c, g), hpc = "gate",
                 child' = [c EXCEPT ![Source].captured = @ + 1]
          PROVE  ChildStep(child', "termination_gate")
      <4>1. Source \in Actors
        BY Zenon, <1>0, <3>2 DEF WalkInv, Source
      <4>2. ChildStep(c, "termination_gate") /\ "termination_gate" \in Stage
        BY Zenon, <1>s, <3>2 DEF GateLook
      <4> QED
        BY Zenon, <3>2, <4>1, <4>2, ChildNumbered
    <3> QED
      BY Zenon, <2>2, <3>1, <3>2
  <2>6. ReapFrame("termination_gate")
    BY Zenon, <1>0, <1>s, <2>1, <2>4, <2>5 DEF ReapFrame, ChildStep
  <2> QED
    BY Zenon, <1>s, <2>6, ReapKept
<1>5. CASE GateEntered \/ VisitOver \/ FinishStep
  <2>1. UNCHANGED <<wpc, stopped, asked, child, shm.exit_requested>>
    BY Zenon, <1>5 DEF GateEntered, VisitOver, FinishStep
  <2>2. \A p \in Phases : SameActivation(p)
    BY Zenon, <1>5, ActivationsKept DEF VisitsKept
  <2>3. stopped' \cup asked' \subseteq shm'.exit_requested
    BY Zenon, <1>0, <2>1
  <2> QED
    BY Zenon, <1>0, <2>1, <2>2, <2>3, ReapUntouched
<1>6. ASSUME NEW c \in [Actors -> Child], NEW g \in Gate, ActivateStep(c, g) PROVE ReapInv'
  <2> DEFINE n == c[Schedule[cursor]].captured + 1
  <2>1. /\ UNCHANGED <<wpc, stopped, asked, shm.exit_requested>> /\ cursor \in Phases
        /\ visits' = [visits EXCEPT ![cursor] = [@ EXCEPT !.activationStored = TRUE, !.gate = g,
                                                          !.activation = n]]
        /\ child' = [c EXCEPT ![Schedule[cursor]].captured = @ + 1]
        /\ \/ c = child
           \/ /\ hpc = "gate"
              /\ \E seen \in [Actors -> Child] :
                   GateLook(seen, g) /\ c = [seen EXCEPT ![Source].captured = @ + 1]
    BY Zenon, <1>6 DEF ActivateStep
  <2>2. n \in Nat /\ Schedule[cursor] \in Actors
    BY <1>0, <2>1 DEF Child
  <2>3. OthersSame /\ Activated(cursor, n, g)
    <3> HIDE DEF n
    <3> QED
      BY Zenon, <2>1, <2>2, VisitFields
  <2>4. ChildStep(c, "termination_gate") /\ "termination_gate" \in Stage
    <3>1. CASE c = child
      <4>1. \A b \in Actors : child[b].captured >= child[b].captured
        BY DEF TypeInv, Child
      <4> QED
        BY Zenon, <1>s, <3>1, <4>1 DEF ChildStep, KeepsReap
    <3>2. ASSUME NEW seen \in [Actors -> Child], GateLook(seen, g), hpc = "gate",
                 c = [seen EXCEPT ![Source].captured = @ + 1]
          PROVE  ChildStep(c, "termination_gate")
      <4>1. Source \in Actors
        BY Zenon, <1>0, <3>2 DEF WalkInv, Source
      <4>2. ChildStep(seen, "termination_gate") /\ "termination_gate" \in Stage
        BY Zenon, <1>s, <3>2 DEF GateLook
      <4> QED
        BY Zenon, <3>2, <4>1, <4>2, ChildNumbered
    <3> QED
      BY Zenon, <1>s, <2>1, <3>1, <3>2
  <2>5. ChildStep(child', "termination_gate")
    BY Zenon, <2>1, <2>2, <2>4, ChildNumbered
  <2>6. n > child[Schedule[cursor]].captured
    <3>1. \/ c[Schedule[cursor]].captured >= child[Schedule[cursor]].captured
          \/ c[Schedule[cursor]].captured >= child[Schedule[cursor]].captured + 1
      BY Zenon, <2>2, <2>4 DEF ChildStep, KeepsReap, Reaps
    <3>2. c[Schedule[cursor]].captured \in Nat /\ child[Schedule[cursor]].captured \in Nat
      BY <2>2 DEF TypeInv, Child
    <3> QED
      BY <3>1, <3>2
  <2> HIDE DEF n
  <2>7. ReapFrame("termination_gate")
    <3>1. \A p \in Phases : visits'[p].activationStored =>
            \/ visits[p].activationStored /\ visits'[p].activation = visits[p].activation
            \/ visits'[p].activation > child[Schedule[p]].captured
      BY Zenon, <2>3, <2>6 DEF OthersSame, Activated
    <3>2. /\ child' \in [Actors -> Child]
          /\ \A b \in Actors :
               KeepsReap(child', b)
                 \/ (wpc'[b] = "exited" /\ Reaps(child', b, "termination_gate"))
      BY Zenon, <2>1, <2>5 DEF ChildStep
    <3>3. "termination_gate" \notin {"setup", "inspection", "stop"}
      OBVIOUS
    <3> QED
      BY Zenon, <1>0, <2>1, <3>1, <3>2, <3>3 DEF ReapFrame
  <2> QED
    BY Zenon, <1>s, <2>7, ReapKept
<1>7. CASE VisitStep /\ ChildStep(child', "schedule")
  <2>1. UNCHANGED <<wpc, stopped, asked>>
    BY Zenon, <1>7 DEF VisitStep, workerVars
  <2>2. UNCHANGED shm.exit_requested
    BY <1>0, <1>7 DEF VisitStep, VisitMoves, VisitEnds, CollectionCloses, VisitReleased, Shm
  <2>3. \A p \in Phases : SameActivation(p)
    BY Zenon, <1>7, ActivationsKept
  <2>4. ReapFrame("schedule")
    BY Zenon, <1>0, <1>s, <1>7, <2>1, <2>2, <2>3 DEF ReapFrame, ChildStep, SameActivation
  <2> QED
    BY Zenon, <1>s, <2>4, ReapKept
<1>8. ASSUME NEW a \in Actors, NEW reaped \in BOOLEAN, StopOver(a, reaped) PROVE ReapInv'
  <2>1. /\ UNCHANGED <<stopped, asked, visits, shm.exit_requested>>
        /\ hpc = "stopping" /\ a = stopping.actor /\ (reaped => wpc'[a] = "exited")
        /\ \A b \in Actors : KeepsReap(child', b) \/ (b = a /\ reaped /\ Reaps(child', b, "stop"))
    BY Zenon, <1>8 DEF StopOver
  <2>2. a \in stopped
    BY Zenon, <2>1 DEF LaunchInv
  <2>3. ReapFrame("stop")
    BY Zenon, <1>0, <1>s, <2>1, <2>2 DEF ReapFrame
  <2> QED
    BY Zenon, <1>s, <2>3, ReapKept
<1> QED
  BY Zenon, <1>1, <1>2, <1>3, <1>4, <1>5, <1>6, <1>7, <1>8 DEF HostMoves

LEMMA DependencyType ==
  ASSUME NEW p \in Phases, Dependency[p] # 0
  PROVE  /\ Dependency[p] \in Phases /\ Dependency[p] < p /\ Dependency[p] # p
         /\ Schedule[Dependency[p]] \in Actors
         /\ \A q \in visitsOf(Schedule[Dependency[p]]) : q <= Dependency[p]
<1>1. Dependency[p] \in 0..Len(Schedule) /\ Dependency[p] < p
  BY DependencyAssumption
<1>2. Dependency[p] \in Phases /\ Dependency[p] # p
  BY <1>1, ScheduleType DEF Phases
<1> QED
  BY <1>1, <1>2, ScheduleType, DependencyAssumption

\* Owned reaps are not replaced.
ReapsStay == \A b \in Actors : child[b].reaped => child'[b].ownedReap = child[b].ownedReap

LEMMA GateKept ==
  ASSUME ReapInv, ReapsStay, NEW p \in Phases, Dependency[p] # 0, GateOf(p),
         SameActivation(p),
         visits[p].activationStored =>
           /\ visits'[Dependency[p]].activationStored = visits[Dependency[p]].activationStored
           /\ visits'[Dependency[p]].activation = visits[Dependency[p]].activation
  PROVE  GateOf(p)'
<1>1. Schedule[Dependency[p]] \in Actors
  BY Zenon, DependencyType
<1>2. CASE visits[p].gate.observation = {}
  BY Zenon, <1>2 DEF GateOf, SameActivation
<1>3. CASE visits[p].gate.observation # {}
  <2>1. child[Schedule[Dependency[p]]].ownedReap # {}
    BY Zenon, <1>3 DEF GateOf, Ordinal
  <2>2. child'[Schedule[Dependency[p]]].ownedReap = child[Schedule[Dependency[p]]].ownedReap
    BY Zenon, <1>1, <2>1 DEF ReapInv, ReapsStay
  <2> QED
    BY Zenon, <2>2 DEF GateOf, SameActivation
<1> QED
  BY Zenon, <1>2, <1>3

\* The gate of the visit at hand ends: what it saw of its source c is what the source has.
LEMMA GateEnds ==
  ASSUME TypeInv, ReapInv, WalkInv, hpc = "gate", NEW c \in [Actors -> Child], NEW g \in Gate,
         GateLook(c, g)
  PROVE  /\ Source \in Actors /\ \A r \in Ordinal(c[Source].ownedReap) : r < g.capture_ordinal
         /\ \A r, s \in c[Source].ownedReap : r = s
<1>1. /\ Source \in Actors /\ c[Source].captured \in Nat
      /\ \A reap \in c[Source].ownedReap : reap.capture_ordinal \in Nat
  <2>1. cursor \in Phases /\ Dependency[cursor] \in Phases
    BY Zenon DEF WalkInv
  <2>2. Source \in Actors
    BY <2>1, ScheduleType DEF Source
  <2> QED
    BY <2>2 DEF Child, Reap
<1>2. "termination_gate" \in Stage
  BY DEF Stage
<1>3. KeepsReap(c, Source) \/ Reaps(c, Source, "termination_gate")
  BY Zenon, <1>1 DEF GateLook, ChildStep
<1>4. /\ \A reap \in c[Source].ownedReap : reap.capture_ordinal <= c[Source].captured
      /\ \A r, s \in c[Source].ownedReap : r = s
  BY Zenon, <1>1, <1>2, <1>3, ReapsNumbered
<1>5. g.capture_ordinal = c[Source].captured + 1
  BY Zenon DEF GateLook
<1>6. \A reap \in c[Source].ownedReap : reap.capture_ordinal < g.capture_ordinal
  BY <1>1, <1>4, <1>5
<1> QED
  BY Zenon, <1>1, <1>4, <1>6 DEF Ordinal

LEMMA ReapsStayed ==
  ASSUME TypeInv, ReapInv, WalkInv, HostMoves PROVE ReapsStay
<1>1. ASSUME NEW c, NEW stage, ChildStep(c, stage)
      PROVE  \A b \in Actors : child[b].reaped => c[b].ownedReap = child[b].ownedReap
  BY Zenon, <1>1 DEF ChildStep, KeepsReap, Reaps
<1>2. CASE PrepStep \/ LaunchStep \/ GateEntered \/ VisitOver \/ FinishStep
           \/ (VisitStep /\ ChildStep(child', "schedule"))
  BY Zenon, <1>1, <1>2 DEF PrepStep, LaunchStep, GateEntered, VisitOver, FinishStep, ReapsStay
<1>3. ASSUME NEW a \in Actors, NEW then \in Resumed, StopStep(a, then) PROVE ReapsStay
  BY Zenon, <1>1, <1>3 DEF StopStep, ReapsStay
<1>4. ASSUME NEW a \in Actors, NEW reaped \in BOOLEAN, StopOver(a, reaped) PROVE ReapsStay
  BY Zenon, <1>4 DEF StopOver, KeepsReap, Reaps, ReapsStay
<1>5. ASSUME NEW c \in [Actors -> Child], NEW s \in Actors
      PROVE  \A b \in Actors : [c EXCEPT ![s].captured = @ + 1][b].ownedReap = c[b].ownedReap
  BY DEF Child
<1>6. \A p \in Phases : Schedule[p] \in Actors
  BY ScheduleType
<1>7. ASSUME NEW c \in [Actors -> Child], NEW g, GateLook(c, g), hpc = "gate",
             NEW d, d = [c EXCEPT ![Source].captured = @ + 1]
      PROVE  \A b \in Actors : child[b].reaped => d[b].ownedReap = child[b].ownedReap
  <2>1. Source \in Actors
    BY Zenon, <1>6, <1>7 DEF WalkInv, Source
  <2>2. \A b \in Actors : child[b].reaped => c[b].ownedReap = child[b].ownedReap
    <3>1. ChildStep(c, "termination_gate")
      BY Zenon, <1>7 DEF GateLook
    <3> QED
      BY Zenon, <1>1, <3>1
  <2>3. \A b \in Actors : d[b].ownedReap = c[b].ownedReap
    BY Zenon, <1>5, <1>7, <2>1
  <2> QED
    BY Zenon, <2>2, <2>3
<1>8. CASE SkipStep
  <2>1. CASE child' = child
    BY Zenon, <2>1 DEF ReapsStay
  <2>2. ASSUME NEW c \in [Actors -> Child], NEW g, GateLook(c, g), hpc = "gate",
               child' = [c EXCEPT ![Source].captured = @ + 1]
        PROVE  ReapsStay
    <3>1. \A b \in Actors : child[b].reaped => child'[b].ownedReap = child[b].ownedReap
      BY Zenon, <1>7, <2>2
    <3> QED
      BY Zenon, <3>1 DEF ReapsStay
  <2> QED
    BY Zenon, <1>8, <2>1, <2>2 DEF SkipStep
<1>9. ASSUME NEW c \in [Actors -> Child], NEW g \in Gate, ActivateStep(c, g) PROVE ReapsStay
  <2>1. \A b \in Actors : child[b].reaped => c[b].ownedReap = child[b].ownedReap
    <3>1. \/ c = child
          \/ /\ hpc = "gate"
             /\ \E seen \in [Actors -> Child] :
                  GateLook(seen, g) /\ c = [seen EXCEPT ![Source].captured = @ + 1]
      BY Zenon, <1>9 DEF ActivateStep
    <3>2. ASSUME NEW seen \in [Actors -> Child], GateLook(seen, g), hpc = "gate",
                 c = [seen EXCEPT ![Source].captured = @ + 1]
          PROVE  \A b \in Actors : child[b].reaped => c[b].ownedReap = child[b].ownedReap
      BY Zenon, <1>7, <3>2
    <3> QED
      BY Zenon, <3>1, <3>2
  <2>2. Schedule[cursor] \in Actors /\ child' = [c EXCEPT ![Schedule[cursor]].captured = @ + 1]
    BY Zenon, <1>6, <1>9 DEF ActivateStep
  <2> QED
    BY Zenon, <1>5, <2>1, <2>2 DEF ReapsStay
<1> QED
  BY Zenon, <1>2, <1>3, <1>4, <1>8, <1>9 DEF HostMoves

LEMMA GateByHost ==
  ASSUME TypeInv, WalkInv, VisitInv, ReapInv, GateInv, HostMoves
  PROVE  GateInv'
<1>0. ReapsStay /\ cursor \in Nat /\ \A p \in Phases : p \in Nat
  BY ReapsStayed, ScheduleType DEF TypeInv
<1> SUFFICES ASSUME NEW p \in Phases, Dependency[p] # 0 PROVE GateOf(p)'
  BY Zenon DEF GateInv
<1>1. /\ GateOf(p) /\ Dependency[p] \in Phases /\ Dependency[p] < p /\ Dependency[p] # p
      /\ Schedule[Dependency[p]] \in Actors
  BY Zenon, DependencyType DEF GateInv
<1>2. CASE VisitStep \/ VisitsKept
  <2>1. SameActivation(p) /\ SameActivation(Dependency[p])
    BY Zenon, <1>1, <1>2, ActivationsKept
  <2> QED
    BY Zenon, <1>0, <1>1, <2>1, GateKept DEF SameActivation
<1>3. CASE SkipStep
  <2>1. PICK r \in EndReason, g \in Gate :
          /\ visits' = [visits EXCEPT ![cursor].endReason = r, ![cursor].gate = g]
          /\ \/ hpc = "entry" /\ g = visits[cursor].gate
             \/ /\ hpc = "gate" /\ g.outcome # "satisfied"
                /\ \E c \in [Actors -> Child] :
                     GateLook(c, g) /\ child' = [c EXCEPT ![Source].captured = @ + 1]
    BY Zenon, <1>3 DEF SkipStep
  <2>2. cursor \in Phases
    BY Zenon, <1>3 DEF SkipStep
  <2>3. OthersSame /\ Skipped(cursor, r, g)
    BY Zenon, <2>1, <2>2, VisitFields
  <2>4. CASE p # cursor
    <3>1. SameActivation(p)
      BY Zenon, <2>3, <2>4 DEF OthersSame, SameActivation
    <3>2. /\ visits'[Dependency[p]].activationStored = visits[Dependency[p]].activationStored
          /\ visits'[Dependency[p]].activation = visits[Dependency[p]].activation
      BY Zenon, <1>1, <2>3 DEF OthersSame, Skipped
    <3> QED
      BY Zenon, <1>0, <1>1, <3>1, <3>2, GateKept
  <2>5. CASE p = cursor
    <3>1. Untouched(p)
      <4>1. p >= cursor /\ hpc \in {"entry", "gate"}
        BY <1>0, <2>1, <2>5
      <4> QED
        BY Zenon, <4>1 DEF VisitInv
    <3>2. /\ ~visits'[p].activationStored /\ visits'[p].gate = g
      BY Zenon, <2>3, <2>5, <3>1 DEF Skipped, Untouched
    <3>3. CASE hpc = "entry" /\ g = visits[cursor].gate
      <4>1. g.outcome # "satisfied" /\ g.observation = {}
        BY <2>5, <3>1, <3>3 DEF Untouched
      <4> QED
        BY Zenon, <3>2, <4>1 DEF GateOf
    <3>4. ASSUME hpc = "gate", g.outcome # "satisfied", NEW c \in [Actors -> Child], GateLook(c, g),
                 child' = [c EXCEPT ![Source].captured = @ + 1]
          PROVE  GateOf(p)'
      <4>1. Source \in Actors /\ \A x \in Ordinal(c[Source].ownedReap) : x < g.capture_ordinal
        BY Zenon, <3>4, GateEnds
      <4>2. child'[Source].ownedReap = c[Source].ownedReap
        BY <3>4, <4>1 DEF Child
      <4>3. g.observation \in {{}, Ordinal(c[Source].ownedReap)}
        BY Zenon, <3>4 DEF GateLook
      <4>4. Source = Schedule[Dependency[p]]
        BY Zenon, <2>5 DEF Source
      <4>5. g.observation # {} => /\ g.observation = Ordinal(child'[Schedule[Dependency[p]]].ownedReap)
                                  /\ \A x \in g.observation : x < g.capture_ordinal
        BY Zenon, <4>1, <4>2, <4>3, <4>4
      <4> QED
        BY Zenon, <3>2, <3>4, <4>5 DEF GateOf, Ordinal
    <3> QED
      BY Zenon, <2>1, <3>3, <3>4
  <2> QED
    BY Zenon, <2>4, <2>5
<1>4. ASSUME NEW c \in [Actors -> Child], NEW g \in Gate, ActivateStep(c, g) PROVE GateOf(p)'
  <2> DEFINE n == c[Schedule[cursor]].captured + 1
  <2>1. /\ hpc \in {"entry", "gate"} /\ cursor \in Phases
        /\ visits' = [visits EXCEPT ![cursor] = [@ EXCEPT !.activationStored = TRUE, !.gate = g,
                                                          !.activation = n]]
        /\ child' = [c EXCEPT ![Schedule[cursor]].captured = @ + 1]
    BY Zenon, <1>4 DEF ActivateStep
  <2>2. n \in Nat /\ Schedule[cursor] \in Actors
    BY <2>1, ScheduleType DEF Child
  <2> HIDE DEF n
  <2>3. OthersSame /\ Activated(cursor, n, g)
    BY Zenon, <2>1, <2>2, VisitFields
  <2>4. \A q \in Phases : q >= cursor => Untouched(q)
    BY Zenon, <2>1 DEF VisitInv
  <2>5. CASE p # cursor
    <3>1. SameActivation(p)
      BY Zenon, <2>3, <2>5 DEF OthersSame, SameActivation
    <3>2. visits[p].activationStored => Dependency[p] # cursor
      <4>1. Dependency[p] = cursor => p >= cursor
        BY <1>0, <1>1
      <4> QED
        BY Zenon, <2>4, <4>1 DEF Untouched
    <3>3. visits[p].activationStored => SameActivation(Dependency[p])
      BY Zenon, <1>1, <2>3, <3>2 DEF OthersSame, SameActivation
    <3> QED
      BY Zenon, <1>0, <1>1, <3>1, <3>3, GateKept DEF SameActivation
  <2>6. CASE p = cursor
    <3>1. /\ hpc = "gate" /\ g.outcome = "satisfied" /\ visits[Dependency[p]].activationStored
          /\ \E seen \in [Actors -> Child] :
               /\ GateLook(seen, g) /\ c = [seen EXCEPT ![Source].captured = @ + 1]
               /\ g.observation = Ordinal(seen[Source].ownedReap)
               /\ \E reap \in seen[Source].ownedReap : reapOutcome(reap) = "satisfied"
      BY Zenon, <1>4, <2>6 DEF ActivateStep
    <3>2. PICK seen \in [Actors -> Child] :
               /\ GateLook(seen, g) /\ c = [seen EXCEPT ![Source].captured = @ + 1]
               /\ g.observation = Ordinal(seen[Source].ownedReap)
               /\ \E reap \in seen[Source].ownedReap : reapOutcome(reap) = "satisfied"
      BY Zenon, <3>1
    <3>3. /\ Source \in Actors /\ \A x \in Ordinal(seen[Source].ownedReap) : x < g.capture_ordinal
          /\ \A r, s \in seen[Source].ownedReap : r = s
      BY Zenon, <3>1, <3>2, GateEnds
    <3>4. child'[Source].ownedReap = seen[Source].ownedReap
      <4>1. c[Source].ownedReap = seen[Source].ownedReap
        BY <3>2, <3>3 DEF Child
      <4>2. child'[Source].ownedReap = c[Source].ownedReap
        BY <2>1, <2>2, <3>3 DEF Child
      <4> QED
        BY Zenon, <4>1, <4>2
    <3>5. PICK reap \in seen[Source].ownedReap : reapOutcome(reap) = "satisfied"
      BY Zenon, <3>2
    <3>6. /\ reap.ownership_unbroken /\ ~reap.departure_requested
          /\ visits[Dependency[p]].activation < reap.capture_ordinal
      <4>1. /\ reap.ownership_unbroken /\ ~reap.departure_requested
            /\ ~(reap.capture_ordinal <= visits[Dependency[p]].activation)
        BY <2>6, <3>5 DEF reapOutcome
      <4>2. visits[Dependency[p]].activation \in Nat /\ reap.capture_ordinal \in Nat
        BY <1>1, <3>3, <3>5 DEF TypeInv, Visit, Child, Reap
      <4> QED
        BY <4>1, <4>2
    <3>7. /\ visits'[p].activationStored /\ visits'[p].gate = g
          /\ visits'[Dependency[p]] = visits[Dependency[p]]
      BY Zenon, <1>1, <2>3, <2>6 DEF Activated, OthersSame
    <3>8. Source = Schedule[Dependency[p]]
      BY Zenon, <2>6 DEF Source
    <3>9. g.observation # {}
      BY Zenon, <3>2, <3>5 DEF Ordinal
    <3>10. \A x \in child'[Schedule[Dependency[p]]].ownedReap : x = reap
      BY Zenon, <3>3, <3>4, <3>5, <3>8
    <3>11. g.observation = Ordinal(child'[Schedule[Dependency[p]]].ownedReap)
      BY Zenon, <3>2, <3>4, <3>8
    <3>12. \A x \in g.observation : x < g.capture_ordinal
      BY Zenon, <3>2, <3>3
    <3> QED
      BY Zenon, <3>1, <3>6, <3>7, <3>9, <3>10, <3>11, <3>12 DEF GateOf, Ordinal
  <2> QED
    BY Zenon, <2>5, <2>6
<1> QED
  BY Zenon, <1>2, <1>3, <1>4 DEF HostMoves, VisitsKept

LEMMA GateStep ==
  ASSUME IInv, ReapInv, GateInv, [Next]_vars
  PROVE  ReapInv' /\ GateInv'
<1>0. TypeInv' /\ TypeInv
  BY Zenon, TypeStep DEF IInv
<1>1. ASSUME UNCHANGED <<child, visits>> PROVE GateInv'
  BY Zenon, <1>1 DEF GateInv, GateOf
<1>2. ASSUME NEW a \in Actors, WorkerMoves(a) PROVE ReapInv' /\ GateInv'
  <2>1. UNCHANGED <<child, visits>>
    BY Zenon, <1>2 DEF WorkerMoves, WorkerFrame, hostVars
  <2> QED
    BY Zenon, <1>0, <1>1, <1>2, <2>1, ReapByWorker
<1>3. CASE HostMoves
  <2>1. HostKeeps
    BY Zenon, <1>3, HostKeepsWorkers DEF IInv
  <2> QED
    BY Zenon, <1>0, <1>3, <2>1, ReapByHost, GateByHost DEF IInv
<1>4. CASE UNCHANGED <<shm, wpc, next, hpc, cursor, stopping, pending, records, stopped, child,
                       visits, cancelled, asked, early>>
  <2>1. stopped' \cup asked' \subseteq shm'.exit_requested
    BY Zenon, <1>4 DEF ReapInv
  <2>2. \A p \in Phases : SameActivation(p)
    BY Zenon, <1>4 DEF SameActivation
  <2>3. UNCHANGED <<child, visits, wpc, asked>>
    BY Zenon, <1>4
  <2>4. ReapInv'
    BY Zenon, <1>0, <2>1, <2>2, <2>3, ReapUntouched
  <2> QED
    BY Zenon, <1>1, <2>3, <2>4
<1> QED
  BY Zenon, <1>2, <1>3, <1>4, Steps

LEMMA GateReap ==
  ASSUME IInv, ReapInv, GateInv, NEW p \in Phases, Dependency[p] # 0, visits[p].activationStored,
         NEW a, a = Schedule[Dependency[p]]
  PROVE  /\ a \in Actors /\ child[a].reaped /\ wpc[a] = "exited" /\ a \notin asked
         /\ visits[Dependency[p]].activationStored
         /\ \E reap \in child[a].ownedReap :
              /\ reap.ownership_unbroken /\ ~reap.departure_requested
              /\ reap.stage \in {"schedule", "termination_gate"}
              /\ visits[p].gate.observation = {reap.capture_ordinal}
              /\ visits[Dependency[p]].activation < reap.capture_ordinal
              /\ reap.capture_ordinal < visits[p].gate.capture_ordinal
<1>1. a \in Actors /\ Dependency[p] \in visitsOf(a)
  BY Zenon, DependencyType DEF visitsOf
<1>2. /\ visits[Dependency[p]].activationStored
      /\ visits[p].gate.observation = Ordinal(child[a].ownedReap)
      /\ Ordinal(child[a].ownedReap) # {}
      /\ \A x \in Ordinal(child[a].ownedReap) : x < visits[p].gate.capture_ordinal
      /\ \A reap \in child[a].ownedReap :
           /\ reap.ownership_unbroken /\ ~reap.departure_requested
           /\ visits[Dependency[p]].activation < reap.capture_ordinal
  BY Zenon DEF GateInv, GateOf
<1>3. PICK reap \in child[a].ownedReap : TRUE
  BY Zenon, <1>2 DEF Ordinal
<1>4. /\ child[a].reaped /\ wpc[a] = "exited" /\ ReapOf(a, reap)
      /\ \A r \in child[a].ownedReap : r = reap
  <2>1. child[a].ownedReap # {}
    BY Zenon, <1>3
  <2>2. child[a].reaped
    BY Zenon, <1>1, <2>1 DEF ReapInv
  <2>3. wpc[a] = "exited" /\ ReapOf(a, reap)
    BY Zenon, <1>1, <1>3, <2>2 DEF ReapInv
  <2>4. \A r \in child[a].ownedReap : r = reap
    <3>1. \A r, s \in child[a].ownedReap : r = s
      BY Zenon, <1>1 DEF ReapInv
    <3> QED
      BY <1>3, <3>1
  <2> QED
    BY Zenon, <2>2, <2>3, <2>4
<1>5. a \notin asked
  BY Zenon, <1>2, <1>4 DEF ReapOf
<1>6. visits[p].gate.observation = {reap.capture_ordinal}
  BY Zenon, <1>2, <1>4 DEF Ordinal
<1>7. reap.stage \in {"schedule", "termination_gate"}
  <2>1. reap \in Reap
    BY <1>1 DEF IInv, TypeInv, Child
  <2>2. visits[Dependency[p]].activation \in Nat /\ reap.capture_ordinal \in Nat
    BY <1>1, <2>1 DEF IInv, TypeInv, Visit, Reap, visitsOf
  <2>3. visits[Dependency[p]].activation < reap.capture_ordinal
    BY Zenon, <1>2
  <2>4. reap.stage \notin {"setup", "inspection"}
    <3>1. ~(reap.capture_ordinal < visits[Dependency[p]].activation)
      BY <2>2, <2>3
    <3> QED
      BY Zenon, <1>1, <1>2, <1>4, <3>1 DEF ReapOf
  <2>5. reap.stage # "stop"
    BY Zenon, <1>2, <1>4 DEF ReapOf
  <2>6. reap.stage \in {"setup", "inspection", "schedule", "termination_gate", "stop"}
    BY <2>1 DEF Reap
  <2> QED
    BY Zenon, <2>4, <2>5, <2>6
<1>8. reap.capture_ordinal < visits[p].gate.capture_ordinal
  BY Zenon, <1>2 DEF Ordinal
<1> QED
  BY Zenon, <1>1, <1>2, <1>4, <1>5, <1>6, <1>7, <1>8

LEMMA GateAccount == ASSUME IInv, ReapInv, GateInv PROVE gates
<1>1. ASSUME NEW a \in Actors, child[a].ownedReap # {} PROVE owned_reap_valid(a)
  <2>1. wpc[a] = "exited" /\ child[a].reaped /\ \A reap \in child[a].ownedReap : ReapOf(a, reap)
    BY Zenon, <1>1 DEF ReapInv
  <2>2. \A reap \in child[a].ownedReap : reap.capture_ordinal > 0
    <3>1. \A reap \in child[a].ownedReap : 0 < reap.capture_ordinal
      BY Zenon, <2>1 DEF ReapOf
    <3> QED
      BY <3>1
  <2> QED
    BY <2>1, <2>2 DEF owned_reap_valid
<1>2. \A p \in Phases : \A n \in activation_observation(p) : n > 0
  BY Zenon DEF activation_observation, IInv, VisitInv
<1>3. ASSUME NEW p \in Phases, Dependency[p] # 0
      PROVE  /\ dependencyOrdered(p)
             /\ visits[p].gate.outcome \in GateOutcomes
             /\ observationResolves(p)
             /\ IF visits[p].gate.outcome = "satisfied" THEN satisfiedNaturally(p)
                ELSE failedClosed(p)
             /\ eligibleIndependently(p)
  <2>1. /\ Dependency[p] \in Phases /\ Dependency[p] < p /\ Schedule[Dependency[p]] \in Actors
        /\ \A q \in visitsOf(Schedule[Dependency[p]]) : q <= Dependency[p]
        /\ GateOf(p)
    BY Zenon, <1>3, DependencyType DEF GateInv
  <2>2. dependencyOrdered(p)
    <3>1. \A q \in Phases : q \in Nat
      BY ScheduleType
    <3>2. \A q \in Phases : q > Dependency[p] => Schedule[q] # Schedule[Dependency[p]]
      BY <2>1, <3>1 DEF visitsOf
    <3>3. p > Dependency[p]
      BY <2>1, <3>1
    <3> QED
      BY Zenon, <2>1, <3>2, <3>3 DEF dependencyOrdered
  <2>3. visits[p].gate.outcome \in GateOutcomes
    BY DEF IInv, TypeInv, Visit, Gate
  <2>4. observationResolves(p)
    <3> SUFFICES ASSUME visits[p].gate.observation # {}
                 PROVE  /\ owned_reap_valid(Schedule[Dependency[p]])
                        /\ visits[p].gate.observation =
                             Ordinal(child[Schedule[Dependency[p]]].ownedReap)
                        /\ \A r \in visits[p].gate.observation :
                             r > 0 /\ r < visits[p].gate.capture_ordinal
      BY Zenon DEF observationResolves, Ordinal
    <3>1. /\ visits[p].gate.observation = Ordinal(child[Schedule[Dependency[p]]].ownedReap)
          /\ \A r \in visits[p].gate.observation : r < visits[p].gate.capture_ordinal
      BY Zenon, <2>1 DEF GateOf
    <3>2. owned_reap_valid(Schedule[Dependency[p]])
      BY Zenon, <1>1, <2>1, <3>1 DEF Ordinal
    <3>3. \A r \in visits[p].gate.observation : r > 0
      BY Zenon, <3>1, <3>2 DEF owned_reap_valid, Ordinal
    <3> QED
      BY Zenon, <3>1, <3>2, <3>3
  <2>5. visits[p].activationStored <=> visits[p].gate.outcome = "satisfied"
    BY Zenon, <2>1 DEF GateOf
  <2>6. CASE visits[p].gate.outcome = "satisfied"
    <3>1. satisfiedNaturally(p)
      <4>1. visits[p].activationStored
        BY Zenon, <2>5, <2>6
      <4>2. /\ visits[Dependency[p]].activationStored
            /\ \E reap \in child[Schedule[Dependency[p]]].ownedReap :
                 /\ reap.ownership_unbroken /\ ~reap.departure_requested
                 /\ reap.stage \in {"schedule", "termination_gate"}
                 /\ visits[p].gate.observation = {reap.capture_ordinal}
                 /\ visits[Dependency[p]].activation < reap.capture_ordinal
                 /\ reap.capture_ordinal < visits[p].gate.capture_ordinal
        BY Zenon, <1>3, <4>1, GateReap
      <4>3. PICK reap \in child[Schedule[Dependency[p]]].ownedReap :
                 /\ reap.ownership_unbroken /\ ~reap.departure_requested
                 /\ reap.stage \in {"schedule", "termination_gate"}
                 /\ visits[p].gate.observation = {reap.capture_ordinal}
                 /\ visits[Dependency[p]].activation < reap.capture_ordinal
                 /\ reap.capture_ordinal < visits[p].gate.capture_ordinal
        BY Zenon, <4>2
      <4>4. owned_reap_valid(Schedule[Dependency[p]])
        BY Zenon, <1>1, <2>1, <4>3
      <4>5. visits[Dependency[p]].activation \in activation_observation(Dependency[p])
        BY Zenon, <4>2 DEF activation_observation
      <4> QED
        BY Zenon, <4>3, <4>4, <4>5 DEF satisfiedNaturally
    <3>2. eligibleIndependently(p)
      BY Zenon, <2>5, <2>6 DEF IInv, VisitInv, eligibleIndependently, equipmentEligible, usable
    <3> QED
      BY Zenon, <2>2, <2>3, <2>4, <2>6, <3>1, <3>2
  <2>7. CASE visits[p].gate.outcome # "satisfied"
    <3>1. ~visits[p].collectionClosed /\ p \notin shm.proceed
      BY Zenon, <2>5, <2>7 DEF IInv, VisitInv
    <3>2. failedClosed(p)
      BY Zenon, <2>5, <2>7, <3>1 DEF failedClosed, activation_eligible, activation_observation
    <3>3. eligibleIndependently(p)
      BY Zenon, <2>7 DEF eligibleIndependently, activation_eligible
    <3> QED
      BY Zenon, <2>2, <2>3, <2>4, <2>7, <3>2, <3>3
  <2> QED
    BY Zenon, <2>6, <2>7
<1> QED
  BY Zenon, <1>1, <1>2, <1>3 DEF gates

\* A phase that waits for a termination is activated only after its source ended of itself,
\* and the controller's admission accepts what the scheduler's reply says of gates and
\* owned reaps, for any schedule, any dependencies and any faults.
THEOREM GatesHold == Spec => []GatesAreTrue
<1>1. Init => ReapInv /\ GateInv
  <2> SUFFICES ASSUME Init PROVE ReapInv /\ GateInv
    OBVIOUS
  <2>1. ReapInv
    BY Zenon DEF Init, ReapInv
  <2>2. \A p \in Phases : /\ ~visits[p].activationStored /\ visits[p].gate.outcome = "not_reached"
                          /\ visits[p].gate.observation = {}
    BY Zenon DEF Init
  <2>3. GateInv
    BY Zenon, <2>2 DEF GateInv, GateOf
  <2> QED
    BY Zenon, <2>1, <2>3
<1>2. IInv /\ (ReapInv /\ GateInv) /\ [Next]_vars => (ReapInv /\ GateInv)'
  BY Zenon, GateStep
<1>3. IInv /\ (ReapInv /\ GateInv) => GatesAreTrue
  <2> SUFFICES ASSUME IInv, ReapInv, GateInv PROVE GateIsNatural /\ gates
    BY Zenon DEF GatesAreTrue
  <2>1. GateIsNatural
    BY Zenon, GateReap DEF GateIsNatural
  <2> QED
    BY Zenon, <2>1, GateAccount
<1> QED
  BY <1>1, <1>2, <1>3, Invariant, PTL DEF Spec
=============================================================================
