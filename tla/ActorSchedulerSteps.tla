------------------------ MODULE ActorSchedulerSteps -------------------------
(***************************************************************************)
(* The inductive invariant of ActorScheduler, type correctness, and what   *)
(* its actions do, in the summaries the proofs about it use: for any       *)
(* number of actors, any schedule, any dependencies and any faults.        *)
(***************************************************************************)
EXTENDS ActorEvidence, WellFoundedInduction, TLAPS

-----------------------------------------------------------------------------
(* The inductive invariant.                                                 *)

WorkerPc == {"absent", "setup", "parked", "gate", "running", "leaving", "exiting", "exited"}
LaunchPc == {"launch", "setup", "setup_timeout", "inspect"}
\* A visit whose actor has been activated: until the release, and after it.
UnreleasedPc == {"arrival", "arrival_done", "arrival_wait", "check", "wait1", "collect", "wait2",
                 "release"}
ReleasedPc == {"completion", "completion_done", "completion_wait"}
VisitPc == UnreleasedPc \cup ReleasedPc \cup {"ending"}
HostPc == LaunchPc \cup VisitPc \cup {"entry", "gate", "stopping", "finish", "returned"}
Resumed == {"launch", "setup", "setup_timeout", "entry", "finish"}
Ordinals == 0..Len(Schedule)

Shm == [setup : SUBSET Actors, done : SUBSET Actors, exit_requested : SUBSET Actors,
        activation : [Actors -> Ordinals], proceed : SUBSET Phases, arrived : SUBSET Phases,
        acknowledged : SUBSET Phases, completed : SUBSET Phases]
SetupStatus == {"not_launched", "launch_refused", "setup_timeout", "transfer_failed", "applied",
                "setup_failed", "exited_before_setup"}
Record == [setupStatus : SetupStatus, quiescence : {"never_launched", "unresolved", "reaped"}]
Reap == [stage : {"setup", "inspection", "schedule", "termination_gate", "stop"},
         ownership_unbroken : BOOLEAN, departure_requested : BOOLEAN, capture_ordinal : Nat]
Child == [reaped : BOOLEAN, ownershipUnbroken : BOOLEAN, captured : Nat, ownedReap : SUBSET Reap]
EndReason == {"not_reached", "cancelled", "actor_unavailable", "termination_dependency",
              "ended_before_arrival", "died_before_arrival", "arrival_timeout", "wait_error",
              "protocol_violation", "died_before_collection", "died_during_collection",
              "release_withheld", "completed", "ended_before_completion",
              "died_before_completion", "completion_timeout"}
Gate == [outcome : GateOutcomes, observation : SUBSET Nat, capture_ordinal : Nat]
Visit == [activationStored : BOOLEAN, activation : Nat, collectionClosed : BOOLEAN,
          releaseStored : BOOLEAN, completionObserved : BOOLEAN, endReason : EndReason,
          gate : Gate]
Cancellation == {None, "equipment_execution", "execution_allowance_exhausted",
                 "termination_dependency", "unresolved_termination", "ownership_lost",
                 "actor_quiescence_unresolved"}

TypeInv ==
  /\ shm \in Shm
  /\ wpc \in [Actors -> WorkerPc] /\ next \in [Actors -> Ordinals]
  /\ hpc \in HostPc /\ cursor \in Nat \ {0}
  /\ stopping \in [actor : 0..ActorCount, then : Resumed \cup {None}]
  /\ pending \subseteq Actors /\ stopped \subseteq Actors
  /\ records \in [Actors -> Record] /\ child \in [Actors -> Child]
  /\ visits \in [Phases -> Visit]
  /\ cancelled \in Cancellation /\ late \subseteq Allowances
  /\ asked \subseteq Actors /\ early \subseteq Phases

\* The numbers of these reaps among the host's captures.
Ordinal(reaps) == {reap.capture_ordinal : reap \in reaps}

\* The loop the host is in, also while it stops an actor.
Loop == IF hpc = "stopping" THEN stopping.then ELSE hpc
AtVisit == hpc \in VisitPc \/ (hpc = "stopping" /\ stopping.then = "entry")

\* Who has been launched, and what the host knows of it.
LaunchInv ==
  /\ \A a \in Actors :
       /\ wpc[a] = "absent" <=> records[a].quiescence = "never_launched"
       /\ records[a].quiescence = "reaped" => wpc[a] = "exited"
       /\ wpc[a] \in {"absent", "setup"} => a \notin shm.setup /\ ~usable(a)
       /\ a \in pending \cup stopped => wpc[a] # "absent"
  /\ Loop = "launch" => \A a \in Actors : a >= cursor => wpc[a] = "absent"
  /\ hpc = "stopping" => stopping.actor \in stopped /\ stopping.then \in Resumed

\* A walk goes on only while every actor it has stopped is gone, and past visits
\* of actors that are still to be had were completed.
WalkInv ==
  /\ AtVisit \/ hpc = "gate" => cursor \in Phases
  /\ hpc = "gate" => Dependency[cursor] \in Phases
  /\ hpc \in VisitPc \cup {"gate"} => cancelled = None /\ available(Schedule[cursor])
  /\ hpc = "stopping" /\ stopping.then = "entry" => stopping.actor = Schedule[cursor]
  /\ cancelled = None /\ Loop \notin {"finish", "returned"} =>
       \A a \in stopped : wpc[a] = "exited" \/ (hpc = "stopping" /\ stopping.actor = a)
  /\ cancelled = None /\ (AtVisit \/ hpc \in {"entry", "gate"}) =>
       \A q \in Phases : q < cursor /\ available(Schedule[q]) => q \in shm.completed

\* Actor a executes, or can come to without another word from the host.
Engaged(a) ==
  \/ wpc[a] \in {"gate", "running"}
  \/ wpc[a] = "parked" /\ shm.activation[a] >= next[a]

\* The visits of an actor are completed in order, and its next one is the first
\* that is not.
NextInv ==
  \A a \in Actors :
    /\ next[a] \in visitsOf(a) \cup {0}
    /\ wpc[a] \in {"parked", "gate", "running"} => next[a] # 0
    /\ \A q \in visitsOf(a) : q \in shm.completed <=> next[a] = 0 \/ q < next[a]

\* Only the latest activation engages its actor, and none does between visits.
ActivationInv ==
  /\ \A a \in Actors : shm.activation[a] \in visitsOf(a) \cup {0}
  /\ \A a \in Actors : wpc[a] \in {"absent", "setup"} => shm.activation[a] = 0
  /\ Loop \in LaunchPc => \A a \in Actors : shm.activation[a] = 0
  /\ hpc \in {"entry", "gate"} => \A a \in Actors : shm.activation[a] < cursor
  /\ AtVisit => /\ shm.activation[Schedule[cursor]] = cursor
                  /\ \A a \in Actors : shm.activation[a] <= cursor
  /\ \A a \in Actors : Engaged(a) =>
       /\ next[a] = shm.activation[a]
       /\ \A b \in Actors : shm.activation[b] <= shm.activation[a]
  /\ hpc \in {"entry", "gate"} /\ cancelled = None => \A a \in Actors : ~Engaged(a)

\* Execution begins under an activation, and once.
ExecutionInv ==
  /\ \A q \in shm.acknowledged : q <= shm.activation[Schedule[q]]
  /\ \A a \in Actors :
       /\ wpc[a] \in {"absent", "setup", "parked", "gate"} => next[a] \notin shm.acknowledged
       /\ wpc[a] = "running" => next[a] \in shm.acknowledged

\* A phase the walk has not come to.
Untouched(p) ==
  /\ ~visits[p].activationStored /\ ~visits[p].collectionClosed /\ p \notin shm.proceed
  /\ visits[p].gate.outcome = "not_reached" /\ visits[p].gate.observation = {}

\* The record of a visit is written while the walk is at it, in the order of its steps.
VisitInv ==
  /\ Loop \in LaunchPc => \A p \in Phases : Untouched(p)
  /\ hpc \in {"entry", "gate"} => \A p \in Phases : p >= cursor => Untouched(p)
  /\ AtVisit => \A p \in Phases : p > cursor => Untouched(p)
  /\ hpc \in VisitPc => visits[cursor].activationStored
  /\ hpc \in UnreleasedPc => cursor \notin shm.proceed
  /\ hpc \in {"wait2", "release"} => visits[cursor].collectionClosed
  /\ hpc \in ReleasedPc => cursor \in shm.proceed
  /\ \A p \in Phases :
       /\ visits[p].activationStored => visits[p].activation > 0 /\ usable(Schedule[p])
       /\ visits[p].activationStored => cancelled # "equipment_execution"
       /\ visits[p].collectionClosed => visits[p].activationStored
       /\ p \in shm.proceed => visits[p].collectionClosed

\* What is released was not begun before its collection closed.
CollectionInv ==
  /\ early \cup shm.completed \subseteq shm.acknowledged
  /\ \A p \in shm.proceed : p \notin early
  /\ \A p \in Phases : visits[p].endReason = "completed" =>
       p \in shm.completed /\ p \in shm.proceed

IInv == /\ TypeInv /\ LaunchInv /\ WalkInv /\ NextInv /\ ActivationInv /\ ExecutionInv
        /\ VisitInv /\ CollectionInv

\* The one reap of an actor is numbered among the host's captures of it, and says
\* whether the host had asked it to leave.
ReapOf(a, reap) ==
  /\ 0 < reap.capture_ordinal /\ reap.capture_ordinal <= child[a].captured
  /\ reap.departure_requested \/ a \notin asked
  /\ reap.stage = "stop" => reap.departure_requested
  /\ reap.stage \in {"setup", "inspection"} =>
       \A p \in visitsOf(a) : visits[p].activationStored =>
         reap.capture_ordinal < visits[p].activation
ReapInv ==
  /\ stopped \cup asked \subseteq shm.exit_requested
  /\ \A a \in Actors :
       /\ child[a].reaped => wpc[a] = "exited"
       /\ child[a].reaped <=> child[a].ownedReap # {}
       /\ \A r, s \in child[a].ownedReap : r = s
       /\ \A reap \in child[a].ownedReap : ReapOf(a, reap)

\* A gate is opened by the natural reap of its source, which it names.
GateOf(p) ==
  LET gate == visits[p].gate
      final == visits[Dependency[p]]
      source == child[Schedule[Dependency[p]]]
  IN /\ visits[p].activationStored <=> gate.outcome = "satisfied"
     /\ gate.observation # {} =>
          /\ gate.observation = Ordinal(source.ownedReap)
          /\ \A r \in gate.observation : r < gate.capture_ordinal
     /\ visits[p].activationStored =>
          /\ final.activationStored /\ gate.observation # {}
          /\ \A reap \in source.ownedReap :
               /\ reap.ownership_unbroken /\ ~reap.departure_requested
               /\ final.activation < reap.capture_ordinal
GateInv == \A p \in Phases : Dependency[p] # 0 => GateOf(p)

\* Without gate jumps, an actor executes only what has been released.
HonestInv ==
  /\ shm.acknowledged \subseteq shm.proceed
  /\ \A p \in Phases : visits[p].endReason # "protocol_violation"

-----------------------------------------------------------------------------
(* The schedule and the visits of an actor.                                 *)

LEMMA ScheduleType ==
  /\ Schedule \in [Phases -> Actors] /\ Len(Schedule) \in Nat
  /\ \A p \in Phases : p \in Nat /\ p >= 1 /\ p <= Len(Schedule) /\ p \in Ordinals
  /\ \A n \in Nat : n >= 1 /\ n <= Len(Schedule) => n \in Phases
  /\ \A n \in Ordinals : n \in Nat /\ (n # 0 => n \in Phases)
  /\ 0 \in Ordinals
BY ScheduleAssumption DEF Phases, Ordinals

LEMMA MinIsLeast ==
  ASSUME NEW S \in SUBSET Nat, S # {}
  PROVE  Min(S) \in S /\ \A y \in S : Min(S) <= y
<1> DEFINE R == OpToRel(<, Nat)
<1>1. IsWellFoundedOn(R, Nat)
  BY NatLessThanWellFounded
<1>2. \A x, y \in Nat : <<y, x>> \in R <=> y < x
  BY DEF OpToRel
<1> HIDE DEF R
<1>3. PICK x \in S : \A y \in S : ~(<<y, x>> \in R)
  BY Zenon, <1>1, WFMin
<1>4. \A y \in S : ~(y < x)
  BY Zenon, <1>2, <1>3
<1>5. \A y \in S : x <= y
  BY ONLY <1>4, x \in S, S \in SUBSET Nat
<1> QED
  BY Zenon, <1>5 DEF Min

\* nextVisit finds the first visit of the actor after phase p.
LEMMA NextVisitIsFirst ==
  ASSUME NEW a, NEW p \in Ordinals
  PROVE  /\ nextVisit(a, p) \in visitsOf(a) \cup {0}
         /\ nextVisit(a, p) \in Ordinals
         /\ nextVisit(a, p) # 0 => nextVisit(a, p) > p
         /\ \A q \in visitsOf(a) : q > p => nextVisit(a, p) # 0 /\ nextVisit(a, p) <= q
<1> DEFINE Q == {x \in visitsOf(a) : x > p}
<1>1. visitsOf(a) \subseteq Phases /\ Q \subseteq visitsOf(a) /\ Q \in SUBSET Nat
  BY ScheduleType DEF visitsOf
<1>2. nextVisit(a, p) = IF Q = {} THEN 0 ELSE Min(Q)
  BY DEF nextVisit
<1>3. \A q \in visitsOf(a) : q > p => q \in Q
  OBVIOUS
<1>4. \A q \in Q : q \in visitsOf(a) /\ q > p
  OBVIOUS
<1> HIDE DEF Q
<1>5. CASE Q = {}
  BY Zenon, <1>2, <1>3, <1>5, ScheduleType
<1>6. CASE Q # {}
  <2>1. nextVisit(a, p) \in Q /\ \A y \in Q : nextVisit(a, p) <= y
    <3>1. Min(Q) \in Q /\ \A y \in Q : Min(Q) <= y
      BY Zenon, <1>1, <1>6, MinIsLeast
    <3> QED
      BY <1>2, <1>6, <3>1
  <2>2. nextVisit(a, p) # 0
    BY <1>1, <2>1, ScheduleType
  <2> QED
    BY Zenon, <1>1, <1>3, <1>4, <2>1, <2>2, ScheduleType
<1> QED
  BY <1>5, <1>6

-----------------------------------------------------------------------------
(* Types.                                                                   *)

Stage == {"setup", "inspection", "schedule", "termination_gate", "stop"}

LEMMA WaitedType ==
  ASSUME TypeInv, NEW a \in Actors, NEW o, NEW stage \in Stage
  PROVE  waited(a, o, stage) \in [Actors -> Child]
<1>1. child \in [Actors -> Child] /\ child[a] \in Child
  BY DEF TypeInv
<1>2. ownedReap(a, stage) \in Reap
  BY <1>1 DEF ownedReap, Child, Reap, Stage
<1>3. observed(a, o, stage) \in Child
  <2>1. CASE o = "reaped" /\ ~child[a].reaped
    <3>1. /\ child[a].captured + 1 \in Nat /\ child[a].ownershipUnbroken \in BOOLEAN
          /\ {ownedReap(a, stage)} \in SUBSET Reap
      BY <1>1, <1>2 DEF Child
    <3> QED
      BY Zenon, <2>1, <3>1 DEF observed, Child
  <2>2. CASE ~(o = "reaped" /\ ~child[a].reaped)
    <3>1. observed(a, o, stage) = [child[a] EXCEPT !.ownershipUnbroken = @ /\ o # "failed"]
      BY Zenon, <2>2 DEF observed
    <3> QED
      BY <1>1, <3>1 DEF Child
  <2> QED
    BY Zenon, <2>1, <2>2
<1> QED
  BY <1>1, <1>3 DEF waited

LEMMA NumberedType ==
  ASSUME NEW c \in [Actors -> Child], NEW a \in Actors
  PROVE  /\ [c EXCEPT ![a].captured = @ + 1] \in [Actors -> Child]
         /\ c[a].captured + 1 \in Nat
BY DEF Child

\* The words of the regions keep their types.
LEMMA WordTypes ==
  ASSUME shm \in Shm, NEW a \in Actors, NEW p \in Phases
  PROVE  /\ [shm EXCEPT !.setup = @ \cup {a}] \in Shm
         /\ [shm EXCEPT !.done = @ \cup {a}] \in Shm
         /\ [shm EXCEPT !.exit_requested = @ \cup {a}] \in Shm
         /\ [shm EXCEPT !.arrived = @ \cup {p}] \in Shm
         /\ [shm EXCEPT !.acknowledged = @ \cup {p}] \in Shm
         /\ [shm EXCEPT !.completed = @ \cup {p}] \in Shm
         /\ [shm EXCEPT !.proceed = @ \cup {p}] \in Shm
         /\ [shm EXCEPT !.activation[a] = p] \in Shm
BY ScheduleType DEF Shm

\* What a worker's step changes.
LEMMA WorkerTypes ==
  ASSUME TypeInv, NextInv, NEW a \in Actors, Worker(a)
  PROVE  TypeInv'
<1>1. UNCHANGED <<hostVars, late, asked>>
  BY DEF Worker, ActorSetUp, ActorSetUpFailed, Expire, ObserveExitRequest, ObserveActivation,
         ObserveRelease, GateJump, Acknowledge, CompleteVisit, publish_done_and_exit, Die,
         WorkerStep, histVars
<1>2. \E pc \in WorkerPc : wpc' = [wpc EXCEPT ![a] = pc]
  BY DEF Worker, ActorSetUp, ActorSetUpFailed, Expire, ObserveExitRequest, ObserveActivation,
         ObserveRelease, GateJump, Acknowledge, CompleteVisit, publish_done_and_exit, Die,
         WorkerStep, WorkerPc
<1>3. next' = next \/ next' = [next EXCEPT ![a] = nextVisit(a, @)]
  BY DEF Worker, ActorSetUp, ActorSetUpFailed, Expire, ObserveExitRequest, ObserveActivation,
         ObserveRelease, GateJump, Acknowledge, CompleteVisit, publish_done_and_exit, Die,
         WorkerStep
<1>4. early' = early \/ (wpc[a] \in {"gate"} /\ early' = early \cup {next[a]})
  BY DEF Worker, ActorSetUp, ActorSetUpFailed, Expire, ObserveExitRequest, ObserveActivation,
         ObserveRelease, GateJump, Acknowledge, CompleteVisit, publish_done_and_exit, Die, histVars
<1>5. \/ shm' = shm
      \/ shm' = [shm EXCEPT !.setup = @ \cup {a}]
      \/ shm' = [shm EXCEPT !.done = @ \cup {a}]
      \/ /\ wpc[a] \in {"parked", "gate", "running"}
         /\ \/ shm' = [shm EXCEPT !.arrived = @ \cup {next[a]}]
            \/ shm' = [shm EXCEPT !.acknowledged = @ \cup {next[a]}]
            \/ shm' = [shm EXCEPT !.completed = @ \cup {next[a]}]
  BY DEF Worker, ActorSetUp, ActorSetUpFailed, Expire, ObserveExitRequest, ObserveActivation,
         ObserveRelease, GateJump, Acknowledge, CompleteVisit, publish_done_and_exit, Die
<1>6. wpc[a] \in {"parked", "gate", "running"} => next[a] \in Phases
  BY DEF NextInv, visitsOf
<1>7. /\ shm' \in Shm
      /\ wpc' \in [Actors -> WorkerPc] /\ early' \subseteq Phases
  <2>1. shm \in Shm /\ wpc \in [Actors -> WorkerPc] /\ early \subseteq Phases
    BY Zenon DEF TypeInv
  <2>2. 1 \in Phases
    BY ScheduleAssumption, ScheduleType
  <2>3. shm' \in Shm
    BY Zenon, <1>5, <1>6, <2>1, <2>2, WordTypes
  <2>4. wpc' \in [Actors -> WorkerPc]
    BY <1>2, <2>1
  <2>5. early' \subseteq Phases
    BY Zenon, <1>4, <1>6, <2>1
  <2> QED
    BY Zenon, <2>3, <2>4, <2>5
<1>8. next' \in [Actors -> Ordinals]
  BY <1>3, NextVisitIsFirst DEF TypeInv
<1> QED
  BY <1>1, <1>7, <1>8 DEF TypeInv, hostVars

\* The records of actors and visits keep their types.
LEMMA RecordTypes ==
  ASSUME records \in [Actors -> Record], NEW a \in Actors
  PROVE  /\ \A s \in SetupStatus : [records EXCEPT ![a].setupStatus = s] \in [Actors -> Record]
         /\ \A q \in {"never_launched", "unresolved", "reaped"} :
              [records EXCEPT ![a].quiescence = q] \in [Actors -> Record]
         /\ \A r \in Record : [records EXCEPT ![a] = r] \in [Actors -> Record]
BY DEF Record

LEMMA VisitTypes ==
  ASSUME visits \in [Phases -> Visit], NEW p \in Phases
  PROVE  /\ \A r \in EndReason : [visits EXCEPT ![p].endReason = r] \in [Phases -> Visit]
         /\ \A b \in BOOLEAN :
              /\ [visits EXCEPT ![p].collectionClosed = b] \in [Phases -> Visit]
              /\ [visits EXCEPT ![p].releaseStored = b] \in [Phases -> Visit]
              /\ [visits EXCEPT ![p].completionObserved = b] \in [Phases -> Visit]
         /\ \A r \in EndReason, g \in Gate :
              [visits EXCEPT ![p].endReason = r, ![p].gate = g] \in [Phases -> Visit]
         /\ \A g \in Gate, n \in Nat :
              [visits EXCEPT ![p] = [@ EXCEPT !.activationStored = TRUE, !.gate = g,
                                              !.activation = n]] \in [Phases -> Visit]
<1>1. ASSUME NEW r \in EndReason PROVE [visits EXCEPT ![p].endReason = r] \in [Phases -> Visit]
  BY SMTT(30) DEF Visit
<1>2. ASSUME NEW b \in BOOLEAN PROVE [visits EXCEPT ![p].collectionClosed = b] \in [Phases -> Visit]
  BY SMTT(30) DEF Visit
<1>3. ASSUME NEW b \in BOOLEAN PROVE [visits EXCEPT ![p].releaseStored = b] \in [Phases -> Visit]
  BY SMTT(30) DEF Visit
<1>4. ASSUME NEW b \in BOOLEAN PROVE [visits EXCEPT ![p].completionObserved = b] \in [Phases -> Visit]
  BY SMTT(30) DEF Visit
<1>5. ASSUME NEW r \in EndReason, NEW g \in Gate
      PROVE  [visits EXCEPT ![p].endReason = r, ![p].gate = g] \in [Phases -> Visit]
  <2>1. [visits[p] EXCEPT !.endReason = r, !.gate = g] \in Visit
    BY DEF Visit
  <2>2. [visits EXCEPT ![p].endReason = r, ![p].gate = g]
          = [visits EXCEPT ![p] = [visits[p] EXCEPT !.endReason = r, !.gate = g]]
    BY DEF Visit
  <2> QED
    BY <2>1, <2>2
<1>6. ASSUME NEW g \in Gate, NEW n \in Nat
      PROVE  [visits EXCEPT ![p] = [@ EXCEPT !.activationStored = TRUE, !.gate = g,
                                              !.activation = n]] \in [Phases -> Visit]
  <2>1. [visits[p] EXCEPT !.activationStored = TRUE, !.gate = g, !.activation = n] \in Visit
    BY DEF Visit
  <2> QED
    BY <2>1
<1> QED
  BY Zenon, <1>1, <1>2, <1>3, <1>4, <1>5, <1>6

StopTyped ==
  /\ stopped' \subseteq Actors /\ shm' \in Shm /\ asked' \subseteq Actors
  /\ hpc' = "stopping" /\ hpc' \in HostPc /\ cursor' = cursor
  /\ stopping' \in [actor : 0..ActorCount, then : Resumed \cup {None}]
  /\ UNCHANGED <<wpc, next, late, early>>

LEMMA StopTypes ==
  ASSUME TypeInv, NEW a \in Actors, NEW then \in Resumed, stopActor(a, then)
  PROVE  StopTyped
<1>1. a \in 0..ActorCount
  BY ActorCountAssumption DEF Actors
<1>2. shm' \in Shm
  BY DEF stopActor, TypeInv, Shm
<1>3. stopped' \subseteq Actors /\ asked' \subseteq Actors
  BY DEF stopActor, TypeInv
<1> QED
  BY Zenon, <1>1, <1>2, <1>3 DEF StopTyped, stopActor, TypeInv, HostPc, workerVars

\* The launch, the setup and the inspection.
LEMMA LaunchTypes ==
  ASSUME TypeInv, LaunchInv,
         \/ AuthoritySetupFailed \/ LaunchSkipped \/ Launch \/ LaunchTransferFailed \/ LaunchEnds
         \/ (\E a \in Actors : ResolveSetup(a)) \/ SetupDeadline \/ SetupTimeout \/ SetupEnds
         \/ InspectNext \/ InspectionEnds
  PROVE  TypeInv'
<1> USE DEF HostStep, Goto, Advance, workerVars, histVars
<1>0. /\ 1 \in Nat \ {0} /\ "setup" \in Stage /\ "inspection" \in Stage
      /\ "setup" \in Resumed /\ "setup_timeout" \in Resumed
      /\ "launch_refused" \in SetupStatus /\ "setup_timeout" \in SetupStatus
  BY DEF Stage, Resumed, SetupStatus
<1>t. /\ records \in [Actors -> Record] /\ child \in [Actors -> Child]
      /\ cursor \in Nat /\ pending \subseteq Actors
  BY DEF TypeInv
<1>1. CASE AuthoritySetupFailed
  <2>1. records' \in [Actors -> Record]
    BY <1>1, <1>t DEF AuthoritySetupFailed, Record, SetupStatus
  <2> QED
    BY Zenon, <1>1, <2>1 DEF AuthoritySetupFailed, TypeInv, HostPc, LaunchPc
<1>2. CASE LaunchSkipped
  <2>1. cursor \in Actors /\ cursor + 1 \in Nat \ {0}
    BY <1>2, <1>t, ActorCountAssumption DEF LaunchSkipped, Actors, TypeInv
  <2>2. records' \in [Actors -> Record]
    <3>1. PICK s \in SetupStatus : records' = [records EXCEPT ![cursor].setupStatus = s]
      BY Zenon, <1>0, <1>2 DEF LaunchSkipped
    <3> QED
      BY <1>t, <2>1, <3>1 DEF Record
  <2> QED
    BY Zenon, <1>2, <2>1, <2>2 DEF LaunchSkipped, TypeInv, HostPc, LaunchPc
<1>3. CASE Launch
  <2>1. cursor \in Actors /\ cursor + 1 \in Nat \ {0}
    BY <1>3, <1>t, ActorCountAssumption DEF Launch, Actors, TypeInv
  <2>2. records' \in [Actors -> Record]
    BY <1>0, <1>t, <1>3, <2>1, RecordTypes DEF Launch
  <2>3. wpc' \in [Actors -> WorkerPc] /\ pending' \subseteq Actors
    BY <1>3, <2>1 DEF Launch, WorkerPc, TypeInv
  <2> QED
    BY Zenon, <1>3, <2>1, <2>2, <2>3 DEF Launch, TypeInv, HostPc, LaunchPc
<1>4. CASE LaunchTransferFailed
  <2>1. cursor \in Actors /\ cursor + 1 \in Nat \ {0} /\ cursor \in 0..ActorCount
    BY <1>4, <1>t, ActorCountAssumption DEF LaunchTransferFailed, Actors, TypeInv
  <2>2. records' \in [Actors -> Record]
    BY <1>t, <1>4, <2>1, RecordTypes DEF LaunchTransferFailed, Record, SetupStatus
  <2>3. wpc' \in [Actors -> WorkerPc] /\ stopped' \subseteq Actors /\ asked' \subseteq Actors
    BY <1>4, <2>1 DEF LaunchTransferFailed, WorkerPc, TypeInv
  <2>4. stopping' \in [actor : 0..ActorCount, then : Resumed \cup {None}]
    BY <1>4, <2>1 DEF LaunchTransferFailed, Resumed
  <2>5. shm' \in Shm
    BY <1>4, <2>1 DEF LaunchTransferFailed, Shm, TypeInv
  <2> QED
    BY Zenon, <1>4, <2>1, <2>2, <2>3, <2>4, <2>5 DEF LaunchTransferFailed, TypeInv, HostPc
<1>5. CASE LaunchEnds
  BY Zenon, <1>5 DEF LaunchEnds, TypeInv, HostPc, LaunchPc
<1>6. ASSUME NEW a \in Actors, ResolveSetup(a) PROVE TypeInv'
  <2>1. PICK o \in WaitObservation(a) :
          /\ SetupDisposition(a, o) # None
          /\ child' = waited(a, o, "setup") \/ child' = child
          /\ records' = [records EXCEPT ![a].setupStatus = SetupDisposition(a, o)]
          /\ pending' = pending \ {a}
          /\ \/ Goto("setup") /\ HostStep /\ UNCHANGED <<shm, stopped, asked>>
             \/ stopActor(a, "setup")
    BY Zenon, <1>6 DEF ResolveSetup, waitChild
  <2>2. SetupDisposition(a, o) \in SetupStatus
    BY <2>1 DEF SetupDisposition, SetupStatus
  <2>3. child' \in [Actors -> Child]
    <3>1. waited(a, o, "setup") \in [Actors -> Child]
      BY Zenon, <1>0, WaitedType
    <3> QED
      BY Zenon, <1>t, <2>1, <3>1
  <2>4. records' \in [Actors -> Record] /\ pending' \subseteq Actors
    BY <1>t, <2>1, <2>2 DEF Record
  <2>5. hpc = "setup" /\ UNCHANGED <<visits, cancelled>>
    BY Zenon, <1>6 DEF ResolveSetup
  <2>6. CASE Goto("setup") /\ HostStep /\ UNCHANGED <<shm, stopped, asked>>
    BY Zenon, <2>3, <2>4, <2>5, <2>6 DEF TypeInv, HostPc, LaunchPc
  <2>7. CASE stopActor(a, "setup")
    <3>1. StopTyped
      BY Zenon, <1>0, <2>7, StopTypes
    <3> QED
      BY Zenon, <2>3, <2>4, <2>5, <3>1 DEF StopTyped, TypeInv
  <2> QED
    BY Zenon, <2>1, <2>6, <2>7
<1>7. CASE SetupDeadline
  BY Zenon, <1>7 DEF SetupDeadline, TypeInv, HostPc, LaunchPc
<1>8. CASE SetupTimeout
  <2> DEFINE a == Min(pending)
  <2>1. a \in pending /\ a \in Actors
    BY <1>t, <1>8, MinIsLeast DEF SetupTimeout, Actors
  <2>2. stopActor(a, "setup_timeout") /\ UNCHANGED <<child, visits, cancelled>>
    BY Zenon, <1>8 DEF SetupTimeout
  <2>3. records' \in [Actors -> Record] /\ pending' \subseteq Actors
    <3>1. records' = [records EXCEPT ![a].setupStatus = "setup_timeout"] /\ pending' = pending \ {a}
      BY Zenon, <1>8 DEF SetupTimeout
    <3> QED
      BY <1>0, <1>t, <2>1, <3>1 DEF Record
  <2> QED
    <3>1. StopTyped
      BY Zenon, <1>0, <2>1, <2>2, StopTypes
    <3> QED
      BY Zenon, <2>2, <2>3, <3>1 DEF StopTyped, TypeInv
<1>9. CASE SetupEnds
  BY Zenon, <1>0, <1>9 DEF SetupEnds, TypeInv, HostPc, LaunchPc
<1>10. CASE InspectNext
  <2>1. cursor \in Actors /\ cursor + 1 \in Nat \ {0}
    BY <1>10, <1>t, ActorCountAssumption DEF InspectNext, Actors, TypeInv
  <2>2. child' \in [Actors -> Child]
    <3>1. child' = child \/ \E o \in WaitObservation(cursor) : child' = waited(cursor, o, "inspection")
      BY Zenon, <1>10 DEF InspectNext, waitChild
    <3> QED
      BY <1>0, <1>t, <2>1, <3>1, WaitedType
  <2>3. cancelled' \in Cancellation
    BY Zenon, <1>10 DEF InspectNext, Cancellation, TypeInv
  <2> QED
    BY Zenon, <1>10, <2>1, <2>2, <2>3 DEF InspectNext, TypeInv, HostPc, LaunchPc
<1>11. CASE InspectionEnds
  BY Zenon, <1>0, <1>11 DEF InspectionEnds, TypeInv, HostPc
<1> QED
  BY Zenon, <1>1, <1>2, <1>3, <1>4, <1>5, <1>6, <1>7, <1>8, <1>9, <1>10, <1>11

\* An activation, and the end of a gate.
LEMMA ActivateTypes ==
  ASSUME TypeInv, cursor \in Phases, NEW c \in [Actors -> Child], NEW g \in Gate,
         activate(c, g), UNCHANGED <<pending, records, stopped, asked>>
  PROVE  TypeInv'
<1>1. Schedule[cursor] \in Actors
  BY ScheduleType
<1>2. shm' \in Shm
  BY <1>1, ScheduleType DEF activate, TypeInv, Shm
<1>3. child' \in [Actors -> Child] /\ c[Schedule[cursor]].captured + 1 \in Nat
  BY <1>1 DEF activate, Child
<1>4. visits' \in [Phases -> Visit]
  <2>1. visits \in [Phases -> Visit]
    BY Zenon DEF TypeInv
  <2>2. visits' = [visits EXCEPT ![cursor] =
          [@ EXCEPT !.activationStored = TRUE, !.gate = g,
                    !.activation = c[Schedule[cursor]].captured + 1]]
    BY Zenon DEF activate
  <2> QED
    BY Zenon, <1>3, <2>1, <2>2, VisitTypes
<1> QED
  BY Zenon, <1>2, <1>3, <1>4
  DEF TypeInv, activate, Goto, HostStep, HostPc, VisitPc, UnreleasedPc, workerVars

LEMMA SkipTypes ==
  ASSUME TypeInv, cursor \in Phases, NEW r \in EndReason, NEW why \in Cancellation, NEW g \in Gate,
         Skip(r, why, g), child' \in [Actors -> Child],
         UNCHANGED <<shm, pending, records, stopped, asked>>
  PROVE  TypeInv'
<1>1. visits' \in [Phases -> Visit]
  BY Zenon, VisitTypes DEF Skip, TypeInv
<1>2. cursor + 1 \in Nat \ {0}
  BY ScheduleType
<1> QED
  BY Zenon, <1>1, <1>2 DEF TypeInv, Skip, Advance, HostStep, HostPc, workerVars

LEMMA GateTypes ==
  ASSUME TypeInv, cursor \in Phases, Dependency[cursor] \in Phases,
         NEW outcome \in GateOutcomes, NEW c \in [Actors -> Child], NEW seen \in SUBSET Nat,
         gateEnds(outcome, c, seen), UNCHANGED <<pending, records, stopped, asked>>
  PROVE  TypeInv'
<1> DEFINE source == Schedule[Dependency[cursor]]
           gate == [outcome |-> outcome, observation |-> seen,
                    capture_ordinal |-> c[source].captured + 1]
           numbered == [c EXCEPT ![source].captured = @ + 1]
<1>1. source \in Actors
  BY ScheduleType
<1>2. numbered \in [Actors -> Child] /\ c[source].captured + 1 \in Nat
  BY Zenon, <1>1, NumberedType
<1>3. gate \in Gate
  BY Zenon, <1>2 DEF Gate
<1>4. CASE outcome = "satisfied"
  <2>1. activate(numbered, gate)
    BY Zenon, <1>4 DEF gateEnds
  <2> QED
    BY Zenon, <1>2, <1>3, <2>1, ActivateTypes
<1>5. CASE outcome # "satisfied"
  <2>1. /\ Skip("termination_dependency", "termination_dependency", gate)
        /\ child' = numbered /\ shm' = shm
    BY Zenon, <1>5 DEF gateEnds
  <2>2. "termination_dependency" \in EndReason /\ "termination_dependency" \in Cancellation
    BY DEF EndReason, Cancellation
  <2> QED
    BY Zenon, <1>2, <1>3, <2>1, <2>2, SkipTypes
<1> QED
  BY <1>4, <1>5

\* How a pass of observeTermination ends its gate: without another look at the source, or
\* by what it saw of it.
Source == Schedule[Dependency[cursor]]

LEMMA TerminationSteps ==
  ASSUME observeTermination
  PROVE  \E outcome \in GateOutcomes :
           \/ outcome # "satisfied" /\ gateEnds(outcome, child, {})
           \/ \E o \in WaitObservation(Source) :
                LET c == waited(Source, o, "termination_gate") IN
                /\ gateEnds(outcome, c, Ordinal(c[Source].ownedReap))
                /\ outcome = "satisfied" =>
                     /\ visits[Dependency[cursor]].activationStored
                     /\ \E reap \in c[Source].ownedReap : reapOutcome(reap) = "satisfied"
<1> DEFINE ended(outcome, o) ==
             LET c == waited(Source, o, "termination_gate")
             IN gateEnds(outcome, c, Ordinal(c[Source].ownedReap))
<1>1. \/ gateEnds("source_unavailable", child, {})
      \/ gateEnds("execution_allowance_exhausted", child, {})
      \/ gateEnds("clock_unavailable", child, {})
      \/ gateEnds("timed_out", child, {})
      \/ gateEnds("ownership_lost", child, {})
      \/ gateEnds("source_departure_requested", child, {})
      \/ /\ visits[Dependency[cursor]].activationStored
         /\ \E o \in WaitObservation(Source) :
              \/ ended("clock_unavailable", o) \/ ended("timed_out", o)
              \/ ended("ownership_lost", o)
              \/ \E reap \in waited(Source, o, "termination_gate")[Source].ownedReap :
                   ended(reapOutcome(reap), o)
  BY Zenon DEF observeTermination, Source, Ordinal
<1>2. \A reap : reapOutcome(reap) \in GateOutcomes
  BY DEF reapOutcome, GateOutcomes
<1>3. {"source_unavailable", "execution_allowance_exhausted", "clock_unavailable", "timed_out",
       "ownership_lost", "source_departure_requested"} \subseteq GateOutcomes \ {"satisfied"}
  BY DEF GateOutcomes
<1>4. CASE /\ visits[Dependency[cursor]].activationStored
           /\ \E o \in WaitObservation(Source) :
                \/ ended("clock_unavailable", o) \/ ended("timed_out", o)
                \/ ended("ownership_lost", o)
                \/ \E reap \in waited(Source, o, "termination_gate")[Source].ownedReap :
                     ended(reapOutcome(reap), o)
  <2>1. PICK o \in WaitObservation(Source) :
          \/ ended("clock_unavailable", o) \/ ended("timed_out", o)
          \/ ended("ownership_lost", o)
          \/ \E reap \in waited(Source, o, "termination_gate")[Source].ownedReap :
               ended(reapOutcome(reap), o)
    BY Zenon, <1>4
  <2>2. PICK outcome \in GateOutcomes :
          /\ ended(outcome, o)
          /\ outcome = "satisfied" =>
               \E reap \in waited(Source, o, "termination_gate")[Source].ownedReap :
                 reapOutcome(reap) = "satisfied"
    <3> DEFINE R == waited(Source, o, "termination_gate")[Source].ownedReap
    <3> HIDE DEF ended, R
    <3>1. \/ ended("clock_unavailable", o) \/ ended("timed_out", o)
          \/ ended("ownership_lost", o)
          \/ \E reap \in R : ended(reapOutcome(reap), o)
      BY Zenon, <2>1 DEF R
    <3>2. \E outcome \in GateOutcomes :
            ended(outcome, o) /\ (outcome = "satisfied" => \E reap \in R : reapOutcome(reap) = "satisfied")
      <4>1. CASE ended("clock_unavailable", o)
        BY Zenon, <1>3, <4>1
      <4>2. CASE ended("timed_out", o)
        BY Zenon, <1>3, <4>2
      <4>3. CASE ended("ownership_lost", o)
        BY Zenon, <1>3, <4>3
      <4>4. CASE \E reap \in R : ended(reapOutcome(reap), o)
        <5>1. PICK reap \in R : ended(reapOutcome(reap), o)
          BY Zenon, <4>4
        <5> DEFINE outcome == reapOutcome(reap)
        <5>2. outcome \in GateOutcomes
          BY Zenon, <1>2
        <5>3. ended(outcome, o)
          BY Zenon, <5>1
        <5> HIDE DEF outcome
        <5>4. outcome = "satisfied" => reapOutcome(reap) = "satisfied"
          BY Zenon DEF outcome
        <5> QED
          BY Zenon, <5>2, <5>3, <5>4
      <4> QED
        BY Zenon, <3>1, <4>1, <4>2, <4>3, <4>4
    <3> QED
      BY Zenon, <3>2 DEF R
  <2> QED
    BY Zenon, <1>4, <2>2
<1> QED
  BY Zenon, <1>1, <1>3, <1>4

-----------------------------------------------------------------------------
(* The steps of a visit.                                                    *)

VisitMoves ==
  /\ UNCHANGED <<shm, visits>>
  /\ \/ hpc \in UnreleasedPc /\ hpc' \in UnreleasedPc \ {"wait2", "release"}
     \/ hpc = "wait2" /\ hpc' = "release"
     \/ hpc \in ReleasedPc /\ hpc' \in ReleasedPc
VisitEnds(r) ==
  /\ hpc' = "ending" /\ UNCHANGED shm
  /\ visits' = [visits EXCEPT ![cursor].endReason = r]
  /\ r = "completed" => hpc = "completion" /\ cursor \in shm.completed
  /\ r = "protocol_violation" => hpc = "check" /\ ~inOrder(cursor)
CollectionCloses ==
  /\ hpc = "collect" /\ hpc' = "wait2" /\ UNCHANGED shm
  /\ visits' = [visits EXCEPT ![cursor].collectionClosed = TRUE]
VisitReleased ==
  /\ hpc = "release" /\ hpc' = "completion" /\ cursor \notin shm.acknowledged
  /\ shm' = [shm EXCEPT !.proceed = @ \cup {cursor}]
  /\ visits' = [visits EXCEPT ![cursor].releaseStored = TRUE]
VisitStep ==
  /\ hpc \in UnreleasedPc \cup ReleasedPc
  /\ UNCHANGED <<workerVars, cursor, stopping, pending, records, stopped, cancelled, late, asked,
                 early>>
  /\ \/ child' = child
     \/ \E o \in WaitObservation(Schedule[cursor]) :
          child' = waited(Schedule[cursor], o, "schedule")
  /\ VisitMoves \/ (\E r \in EndReason : VisitEnds(r)) \/ CollectionCloses \/ VisitReleased

VisitAction ==
  \/ PollArrival \/ CheckArrival \/ WaitBeforeCollection \/ CloseCollection
  \/ WaitAfterCollection \/ releaseVisit \/ PollCompletion

LEMMA VisitSteps == VisitAction => VisitStep
<1> USE DEF VisitStep, Visiting, HostStep, Goto, Go, End
<1>1. ASSUME NEW died \in EndReason \ {"completed", "protocol_violation"},
             NEW timeout \in EndReason \ {"completed", "protocol_violation"}, NEW pc,
             VisitWait(died, pc) \/ PollWait(died, timeout, pc)
      PROVE  /\ \E o \in WaitObservation(Schedule[cursor]) :
                  child' = waited(Schedule[cursor], o, "schedule")
             /\ \/ Go(pc)
                \/ \E r \in EndReason \ {"completed", "protocol_violation"} : End(r)
  <2>1. "wait_error" \in EndReason \ {"completed", "protocol_violation"}
    BY DEF EndReason
  <2>2. PICK o \in WaitObservation(Schedule[cursor]) :
          /\ child' = waited(Schedule[cursor], o, "schedule")
          /\ \/ CASE o = "pending" -> Go(pc)
                  [] o = "reaped" -> End(died)
                  [] o = "failed" -> End("wait_error")
             \/ CASE o = "pending" -> IF "execution" \in late THEN End(timeout) ELSE Go(pc)
                  [] o = "reaped" -> End(died)
                  [] o = "failed" -> End("wait_error")
    BY Zenon, <1>1 DEF VisitWait, PollWait, waitChild
  <2>3. o \in {"pending", "reaped", "failed"}
    BY Zenon DEF WaitObservation
  <2>4. Go(pc) \/ End(died) \/ End(timeout) \/ End("wait_error")
    <3> HIDE DEF Go, End
    <3> QED
      BY <2>2, <2>3
  <2> QED
    BY Zenon, <2>1, <2>2, <2>4
<1>2. ASSUME NEW r \in EndReason \ {"completed", "protocol_violation"}, End(r), UNCHANGED shm
      PROVE  \E s \in EndReason : VisitEnds(s)
  BY Zenon, <1>2 DEF VisitEnds
<1>3. CASE PollArrival
  <2>0. {"died_before_arrival", "arrival_timeout", "ended_before_arrival"}
          \subseteq EndReason \ {"completed", "protocol_violation"}
    BY DEF EndReason
  <2>1. CASE hpc = "arrival"
    BY Zenon, <1>3, <2>1 DEF PollArrival, VisitMoves, UnreleasedPc
  <2>2. CASE hpc = "arrival_done"
    BY Zenon, <1>2, <1>3, <2>0, <2>2 DEF PollArrival, VisitMoves, UnreleasedPc
  <2>3. CASE hpc = "arrival_wait"
    <3>1. Visiting({"arrival_wait"}) /\ PollWait("died_before_arrival", "arrival_timeout", "arrival")
      BY Zenon, <1>3, <2>3 DEF PollArrival
    <3>2. "arrival" \in UnreleasedPc \ {"wait2", "release"} /\ "arrival_wait" \in UnreleasedPc
      BY DEF UnreleasedPc
    <3> QED
      BY Zenon, <1>1, <1>2, <2>0, <3>1, <3>2 DEF VisitMoves
  <2> QED
    BY Zenon, <1>3, <2>1, <2>2, <2>3 DEF PollArrival
<1>4. CASE CheckArrival
  <2>1. "protocol_violation" \in EndReason
    BY DEF EndReason
  <2> QED
    BY Zenon, <1>4, <2>1 DEF CheckArrival, VisitMoves, VisitEnds, UnreleasedPc
<1>5. CASE WaitBeforeCollection
  <2>1. "died_before_collection" \in EndReason \ {"completed", "protocol_violation"}
    BY DEF EndReason
  <2> QED
    <3>1. "collect" \in UnreleasedPc \ {"wait2", "release"} /\ "wait1" \in UnreleasedPc
      BY DEF UnreleasedPc
    <3> QED
      BY Zenon, <1>1, <1>2, <1>5, <2>1, <3>1 DEF WaitBeforeCollection, VisitMoves
<1>6. CASE CloseCollection
  BY Zenon, <1>6 DEF CloseCollection, CollectionCloses, UnreleasedPc
<1>7. CASE WaitAfterCollection
  <2>1. "died_during_collection" \in EndReason \ {"completed", "protocol_violation"}
    BY DEF EndReason
  <2> QED
    BY Zenon, <1>1, <1>2, <1>7, <2>1 DEF WaitAfterCollection, VisitMoves, UnreleasedPc
<1>8. CASE releaseVisit
  <2>1. {"completion_timeout", "release_withheld"}
          \subseteq EndReason \ {"completed", "protocol_violation"}
    BY DEF EndReason
  <2> QED
    BY Zenon, <1>2, <1>8, <2>1 DEF releaseVisit, VisitReleased, inOrder, UnreleasedPc
<1>9. CASE PollCompletion
  <2>0. {"completion_timeout", "ended_before_completion", "died_before_completion"}
          \subseteq EndReason \ {"completed", "protocol_violation"}
    BY DEF EndReason
  <2>1. CASE hpc = "completion"
    <3>1. "completed" \in EndReason
      BY DEF EndReason
    <3> QED
      BY Zenon, <1>2, <1>9, <2>0, <2>1, <3>1
      DEF PollCompletion, VisitMoves, VisitEnds, ReleasedPc
  <2>2. CASE hpc = "completion_done"
    BY Zenon, <1>2, <1>9, <2>0, <2>2 DEF PollCompletion, VisitMoves, ReleasedPc
  <2>3. CASE hpc = "completion_wait"
    BY Zenon, <1>1, <1>2, <1>9, <2>0, <2>3 DEF PollCompletion, VisitMoves, ReleasedPc
  <2> QED
    BY Zenon, <1>9, <2>1, <2>2, <2>3 DEF PollCompletion
<1> QED
  BY Zenon, <1>3, <1>4, <1>5, <1>6, <1>7, <1>8, <1>9 DEF VisitAction

LEMMA WalkTypes ==
  ASSUME TypeInv, WalkInv, EnterVisit \/ observeTermination \/ VisitAction \/ EndVisit
  PROVE  TypeInv'
<1>1. /\ visits \in [Phases -> Visit] /\ child \in [Actors -> Child] /\ shm \in Shm
      /\ cursor \in Nat \ {0} /\ cancelled \in Cancellation
  BY Zenon DEF TypeInv
<1>2. cursor \in Phases
  <2>1. CASE EnterVisit
    BY <1>1, <2>1, ScheduleType DEF EnterVisit
  <2>2. CASE observeTermination
    BY Zenon, <2>2 DEF observeTermination, WalkInv
  <2>3. CASE VisitAction
    BY Zenon, <2>3, VisitSteps DEF WalkInv, VisitStep, AtVisit, VisitPc
  <2>4. CASE EndVisit
    BY Zenon, <2>4 DEF EndVisit, WalkInv, AtVisit, VisitPc
  <2> QED
    BY Zenon, <2>1, <2>2, <2>3, <2>4
<1>3. visits[cursor].gate \in Gate /\ Schedule[cursor] \in Actors
  BY <1>1, <1>2, ScheduleType DEF Visit
<1>4. CASE EnterVisit
  <2>1. UNCHANGED <<pending, records, stopped, asked>>
    BY Zenon, <1>4 DEF EnterVisit
  <2>2. \/ /\ UNCHANGED <<shm, child>>
           /\ \E r \in {"cancelled", "actor_unavailable"},
                 why \in {cancelled, "execution_allowance_exhausted", None} :
                Skip(r, why, visits[cursor].gate)
        \/ activate(child, visits[cursor].gate)
        \/ Goto("gate") /\ HostStep /\ UNCHANGED <<shm, child, visits, cancelled>>
    BY Zenon, <1>4 DEF EnterVisit
  <2>3. CASE /\ UNCHANGED <<shm, child>>
             /\ \E r \in {"cancelled", "actor_unavailable"},
                   why \in {cancelled, "execution_allowance_exhausted", None} :
                  Skip(r, why, visits[cursor].gate)
    <3>1. PICK r \in {"cancelled", "actor_unavailable"},
               why \in {cancelled, "execution_allowance_exhausted", None} :
            Skip(r, why, visits[cursor].gate)
      BY Zenon, <2>3
    <3>2. r \in EndReason /\ why \in Cancellation
      BY <1>1 DEF EndReason, Cancellation
    <3>3. child' \in [Actors -> Child] /\ shm' = shm
      BY Zenon, <1>1, <2>3
    <3> QED
      BY Zenon, <1>2, <1>3, <2>1, <3>1, <3>2, <3>3, SkipTypes
  <2>4. CASE activate(child, visits[cursor].gate)
    BY Zenon, <1>1, <1>2, <1>3, <2>1, <2>4, ActivateTypes
  <2>5. CASE Goto("gate") /\ HostStep /\ UNCHANGED <<shm, child, visits, cancelled>>
    BY Zenon, <2>1, <2>5 DEF TypeInv, Goto, HostStep, HostPc, workerVars
  <2> QED
    BY Zenon, <2>2, <2>3, <2>4, <2>5
<1>5. CASE observeTermination
  <2>1. UNCHANGED <<pending, records, stopped, asked>>
    BY Zenon, <1>5 DEF observeTermination
  <2>2. Dependency[cursor] \in Phases
    BY Zenon, <1>2, <1>5 DEF observeTermination, WalkInv
  <2>3. Source \in Actors /\ {} \in SUBSET Nat /\ "termination_gate" \in Stage
    BY <2>2, ScheduleType DEF Source, Stage
  <2>4. PICK outcome \in GateOutcomes :
          \/ gateEnds(outcome, child, {})
          \/ \E o \in WaitObservation(Source) :
               LET c == waited(Source, o, "termination_gate")
               IN gateEnds(outcome, c, Ordinal(c[Source].ownedReap))
    BY Zenon, <1>5, TerminationSteps
  <2>5. CASE gateEnds(outcome, child, {})
    BY Zenon, <1>1, <1>2, <2>1, <2>2, <2>3, <2>5, GateTypes
  <2>6. ASSUME NEW o \in WaitObservation(Source),
               LET c == waited(Source, o, "termination_gate")
               IN gateEnds(outcome, c, Ordinal(c[Source].ownedReap))
        PROVE  TypeInv'
    <3> DEFINE c == waited(Source, o, "termination_gate")
    <3>1. c \in [Actors -> Child]
      BY Zenon, <2>3, WaitedType
    <3>2. gateEnds(outcome, c, Ordinal(c[Source].ownedReap))
      BY Zenon, <2>6
    <3> HIDE DEF c
    <3>3. Ordinal(c[Source].ownedReap) \in SUBSET Nat
      BY <2>3, <3>1 DEF Ordinal, Child, Reap
    <3> QED
      BY Zenon, <1>2, <2>1, <2>2, <3>1, <3>2, <3>3, GateTypes
  <2> QED
    BY Zenon, <2>4, <2>5, <2>6
<1>6. CASE VisitAction
  <2>1. VisitStep
    BY Zenon, <1>6, VisitSteps
  <2>2. child' \in [Actors -> Child]
    <3>1. "schedule" \in Stage
      BY DEF Stage
    <3>2. \A o : waited(Schedule[cursor], o, "schedule") \in [Actors -> Child]
      BY Zenon, <1>3, <3>1, WaitedType
    <3> QED
      BY Zenon, <1>1, <2>1, <3>2 DEF VisitStep
  <2>3. visits' \in [Phases -> Visit]
    <3>1. \/ visits' = visits
          \/ \E r \in EndReason : visits' = [visits EXCEPT ![cursor].endReason = r]
          \/ visits' = [visits EXCEPT ![cursor].collectionClosed = TRUE]
          \/ visits' = [visits EXCEPT ![cursor].releaseStored = TRUE]
      BY Zenon, <2>1 DEF VisitStep, VisitMoves, VisitEnds, CollectionCloses, VisitReleased
    <3>2. /\ \A r \in EndReason : [visits EXCEPT ![cursor].endReason = r] \in [Phases -> Visit]
          /\ [visits EXCEPT ![cursor].collectionClosed = TRUE] \in [Phases -> Visit]
          /\ [visits EXCEPT ![cursor].releaseStored = TRUE] \in [Phases -> Visit]
      BY Zenon, <1>1, <1>2, VisitTypes
    <3> QED
      BY Zenon, <1>1, <3>1, <3>2
  <2>4. shm' \in Shm
    BY Zenon, <1>1, <1>2, <1>3, <2>1, WordTypes
    DEF VisitStep, VisitMoves, VisitEnds, CollectionCloses, VisitReleased
  <2>5. hpc' \in HostPc
    BY Zenon, <2>1 DEF VisitStep, VisitMoves, VisitEnds, CollectionCloses, VisitReleased, HostPc,
      VisitPc, UnreleasedPc, ReleasedPc
  <2> QED
    BY Zenon, <2>1, <2>2, <2>3, <2>4, <2>5 DEF VisitStep, TypeInv, workerVars
<1>7. CASE EndVisit
  <2>1. /\ visits' = [visits EXCEPT ![cursor].completionObserved = cursor \in shm.completed]
        /\ UNCHANGED <<pending, records, child, cancelled>>
        /\ \/ Advance("entry", cursor + 1) /\ HostStep /\ UNCHANGED <<shm, stopped, asked>>
           \/ stopActor(Schedule[cursor], "entry")
    BY Zenon, <1>7 DEF EndVisit
  <2>2. visits' \in [Phases -> Visit]
    <3>1. (cursor \in shm.completed) \in BOOLEAN
      OBVIOUS
    <3> QED
      BY Zenon, <1>1, <1>2, <2>1, <3>1, VisitTypes
  <2>3. cursor + 1 \in Nat \ {0} /\ "entry" \in Resumed
    BY <1>1 DEF Resumed
  <2>4. CASE Advance("entry", cursor + 1) /\ HostStep /\ UNCHANGED <<shm, stopped, asked>>
    BY Zenon, <2>1, <2>2, <2>3, <2>4 DEF TypeInv, Advance, HostStep, HostPc, workerVars
  <2>5. CASE stopActor(Schedule[cursor], "entry")
    <3>1. StopTyped
      BY Zenon, <1>3, <2>3, <2>5, StopTypes
    <3> QED
      BY Zenon, <2>1, <2>2, <3>1 DEF StopTyped, TypeInv
  <2> QED
    BY Zenon, <2>1, <2>4, <2>5
<1> QED
  BY Zenon, <1>4, <1>5, <1>6, <1>7

LEMMA EndTypes ==
  ASSUME TypeInv, LaunchInv, WalkInv, WalkEnds \/ StopEnds \/ FinishNext \/ Return
  PROVE  TypeInv'
<1>1. /\ child \in [Actors -> Child] /\ records \in [Actors -> Record]
      /\ cursor \in Nat \ {0} /\ cursor + 1 \in Nat \ {0} /\ 1 \in Nat \ {0}
      /\ wpc \in [Actors -> WorkerPc]
  BY DEF TypeInv
<1>2. CASE WalkEnds
  BY Zenon, <1>1, <1>2 DEF WalkEnds, TypeInv, Advance, HostStep, HostPc, workerVars
<1>3. CASE StopEnds
  <2> DEFINE a == stopping.actor
  <2>1. a \in Actors /\ stopping.then \in HostPc
    <3>1. hpc = "stopping"
      BY Zenon, <1>3 DEF StopEnds
    <3>2. stopping.actor \in stopped /\ stopping.then \in Resumed
      BY Zenon, <3>1 DEF LaunchInv
    <3> QED
      BY Zenon, <3>2 DEF TypeInv, Resumed, HostPc, LaunchPc
  <2>2. PICK reaped \in BOOLEAN :
          /\ wpc' = wpc \/ wpc' = [wpc EXCEPT ![a] = "exited"]
          /\ child' = waited(a, IF reaped THEN "reaped" ELSE "failed", "stop")
          /\ records' = [records EXCEPT ![a].quiescence =
                           IF reaped THEN "reaped" ELSE "unresolved"]
          /\ cancelled' = Cancelled(reaped)
    BY Zenon, <1>3 DEF StopEnds, waitChild
  <2>3. "stop" \in Stage
    BY DEF Stage
  <2>4. child' \in [Actors -> Child]
    BY Zenon, <2>1, <2>2, <2>3, WaitedType
  <2>5. records' \in [Actors -> Record] /\ wpc' \in [Actors -> WorkerPc]
    <3> HIDE DEF a
    <3> QED
      BY <1>1, <2>1, <2>2 DEF Record, WorkerPc
  <2>6. cancelled' \in Cancellation
    BY <2>2 DEF Cancelled, Cancellation, TypeInv
  <2>7. hpc' = stopping.then /\ (cursor' = cursor \/ cursor' = cursor + 1)
    BY Zenon, <1>3 DEF StopEnds
  <2> QED
    BY Zenon, <1>1, <1>3, <2>1, <2>4, <2>5, <2>6, <2>7 DEF StopEnds, TypeInv, histVars
<1>4. CASE FinishNext
  <2>1. cursor \in Actors /\ "finish" \in Resumed
    BY <1>1, <1>4, ActorCountAssumption DEF FinishNext, Actors, Resumed
  <2>2. CASE stopActor(cursor, "finish")
    <3>1. StopTyped
      BY Zenon, <2>1, <2>2, StopTypes
    <3> QED
      BY Zenon, <1>4, <3>1 DEF FinishNext, StopTyped, TypeInv
  <2>3. CASE Advance("finish", cursor + 1) /\ HostStep /\ UNCHANGED <<shm, stopped, asked>>
    BY Zenon, <1>1, <1>4, <2>3 DEF FinishNext, TypeInv, Advance, HostStep, HostPc, workerVars
  <2> QED
    BY Zenon, <1>4, <2>2, <2>3 DEF FinishNext
<1>5. CASE Return
  BY Zenon, <1>5 DEF Return, TypeInv, Goto, HostStep, HostPc, workerVars
<1> QED
  BY Zenon, <1>2, <1>3, <1>4, <1>5

LEMMA TypeStep ==
  ASSUME TypeInv, LaunchInv, WalkInv, NextInv, [Next]_vars
  PROVE  TypeInv'
<1>1. ASSUME NEW a \in Actors, Worker(a) PROVE TypeInv'
  BY Zenon, <1>1, WorkerTypes
<1>2. CASE Host
  BY Zenon, <1>2, LaunchTypes, WalkTypes, EndTypes DEF Host, VisitAction
<1>3. ASSUME NEW x \in Allowances, TimePasses(x) PROVE TypeInv'
  BY Zenon, <1>3 DEF TimePasses, TypeInv, workerVars, hostVars, histVars
<1>4. CASE UNCHANGED vars
  BY Zenon, <1>4 DEF TypeInv, vars, workerVars, hostVars, histVars
<1> QED
  BY Zenon, <1>1, <1>2, <1>3, <1>4 DEF Next, Finished

-----------------------------------------------------------------------------
(* The steps of a worker, as the invariants see them.                       *)

WorkerFrame(a) ==
  /\ UNCHANGED <<hostVars, asked>>
  /\ UNCHANGED <<shm.activation, shm.proceed, shm.exit_requested>>
  /\ \A b \in Actors : b # a => wpc'[b] = wpc[b] /\ next'[b] = next[b]

SetsUp(a) ==
  /\ wpc[a] = "setup" /\ wpc'[a] \in {"leaving", "parked"}
  /\ wpc'[a] = "parked" => next[a] # 0
  /\ shm'.setup = shm.setup \cup {a}
  /\ UNCHANGED <<shm.acknowledged, shm.completed, next, early>>
Arrives(a) ==
  /\ wpc[a] = "parked" /\ wpc'[a] = "gate" /\ shm.activation[a] = next[a]
  /\ UNCHANGED <<shm.setup, shm.acknowledged, shm.completed, next, early>>
Begins(a) ==
  /\ wpc[a] = "gate" /\ wpc'[a] = "running"
  /\ next[a] \in shm.proceed \/ "gate_jump" \in Faults
  /\ shm'.acknowledged = shm.acknowledged \cup {next[a]}
  /\ early' = IF visits[next[a]].collectionClosed THEN early ELSE early \cup {next[a]}
  /\ UNCHANGED <<shm.setup, shm.completed, next>>
Completes(a) ==
  /\ wpc[a] = "running" /\ next'[a] = nextVisit(a, next[a])
  /\ wpc'[a] = IF next'[a] = 0 THEN "leaving" ELSE "parked"
  /\ shm'.completed = shm.completed \cup {next[a]}
  /\ UNCHANGED <<shm.setup, shm.acknowledged, early>>
Leaves(a) ==
  /\ wpc[a] \notin {"absent", "exited"} /\ wpc'[a] \in {"leaving", "exiting", "exited"}
  /\ UNCHANGED <<shm.setup, shm.acknowledged, shm.completed, next, early>>

WorkerMoves(a) ==
  WorkerFrame(a) /\ (SetsUp(a) \/ Arrives(a) \/ Begins(a) \/ Completes(a) \/ Leaves(a))

LEMMA WorkerSteps ==
  ASSUME TypeInv, NEW a \in Actors, Worker(a)
  PROVE  WorkerMoves(a)
<1>1. shm \in Shm /\ wpc \in [Actors -> WorkerPc] /\ next \in [Actors -> Ordinals]
  BY Zenon DEF TypeInv
<1>2. ASSUME NEW pc, WorkerStep(a, pc)
      PROVE  /\ wpc'[a] = pc /\ UNCHANGED <<next, hostVars, asked>>
             /\ \A b \in Actors : b # a => wpc'[b] = wpc[b] /\ next'[b] = next[b]
  BY <1>1, <1>2 DEF WorkerStep
<1>3. CASE ActorSetUp(a)
  <2>1. /\ shm'.setup = shm.setup \cup {a}
        /\ UNCHANGED <<shm.activation, shm.proceed, shm.exit_requested, shm.acknowledged,
                       shm.completed>>
    BY <1>1, <1>3 DEF ActorSetUp, Shm
  <2> QED
    BY <1>2, <1>3, <2>1 DEF ActorSetUp, WorkerMoves, WorkerFrame, SetsUp
<1>4. CASE \/ ActorSetUpFailed(a) \/ Expire(a) \/ ObserveExitRequest(a) \/ Die(a)
           \/ publish_done_and_exit(a)
  <2>1. UNCHANGED <<shm.setup, shm.activation, shm.proceed, shm.exit_requested,
                    shm.acknowledged, shm.completed>>
    BY <1>1, <1>4 DEF ActorSetUpFailed, Expire, ObserveExitRequest, Die, publish_done_and_exit, Shm
  <2>2. PICK pc \in {"leaving", "exiting", "exited"} : WorkerStep(a, pc)
    BY Zenon, <1>4 DEF ActorSetUpFailed, Expire, ObserveExitRequest, Die, publish_done_and_exit
  <2>3. wpc[a] \notin {"absent", "exited"} /\ early' = early
    BY Zenon, <1>4 DEF ActorSetUpFailed, Expire, ObserveExitRequest, Die, publish_done_and_exit
  <2> QED
    BY Zenon, <1>2, <2>1, <2>2, <2>3 DEF WorkerMoves, WorkerFrame, Leaves
<1>5. CASE ObserveActivation(a)
  <2>1. UNCHANGED <<shm.setup, shm.activation, shm.proceed, shm.exit_requested,
                    shm.acknowledged, shm.completed>>
    BY <1>1, <1>5 DEF ObserveActivation, Shm
  <2>2. wpc[a] = "parked" /\ early' = early
    BY Zenon, <1>5 DEF ObserveActivation
  <2>3. CASE shm.activation[a] = next[a] /\ WorkerStep(a, "gate")
    BY Zenon, <1>2, <2>1, <2>2, <2>3 DEF WorkerMoves, WorkerFrame, Arrives
  <2>4. CASE WorkerStep(a, "leaving")
    BY Zenon, <1>2, <2>1, <2>2, <2>4 DEF WorkerMoves, WorkerFrame, Leaves
  <2> QED
    BY Zenon, <1>5, <2>3, <2>4 DEF ObserveActivation
<1>6. CASE ObserveRelease(a) \/ GateJump(a)
  <2>1. Acknowledge(a) /\ wpc[a] = "gate" /\ (next[a] \in shm.proceed \/ "gate_jump" \in Faults)
    BY Zenon, <1>6 DEF ObserveRelease, GateJump
  <2>2. /\ shm'.acknowledged = shm.acknowledged \cup {next[a]}
        /\ UNCHANGED <<shm.setup, shm.activation, shm.proceed, shm.exit_requested, shm.completed>>
    BY <1>1, <2>1 DEF Acknowledge, Shm
  <2> QED
    BY Zenon, <1>2, <2>1, <2>2 DEF Acknowledge, WorkerMoves, WorkerFrame, Begins
<1>7. CASE CompleteVisit(a)
  <2>1. /\ shm'.completed = shm.completed \cup {next[a]}
        /\ UNCHANGED <<shm.setup, shm.activation, shm.proceed, shm.exit_requested,
                       shm.acknowledged>>
    BY <1>1, <1>7 DEF CompleteVisit, Shm
  <2>2. /\ wpc'[a] = IF next'[a] = 0 THEN "leaving" ELSE "parked"
        /\ next'[a] = nextVisit(a, next[a])
        /\ \A b \in Actors : b # a => wpc'[b] = wpc[b] /\ next'[b] = next[b]
    BY <1>1, <1>7 DEF CompleteVisit
  <2> QED
    BY Zenon, <1>7, <2>1, <2>2 DEF CompleteVisit, WorkerMoves, WorkerFrame, Completes, histVars
<1> QED
  BY Zenon, <1>3, <1>4, <1>5, <1>6, <1>7 DEF Worker

-----------------------------------------------------------------------------
(* The steps of the host.                                                   *)

\* The children c after waits at this stage: an actor keeps its reap, and what is reaped
\* now has exited.
KeepsReap(c, b) ==
  /\ c[b].reaped = child[b].reaped /\ c[b].ownedReap = child[b].ownedReap
  /\ c[b].captured >= child[b].captured
Reaps(c, b, stage) ==
  /\ ~child[b].reaped /\ c[b].reaped /\ c[b].ownedReap = {ownedReap(b, stage)}
  /\ c[b].captured >= child[b].captured + 1
ChildStep(c, stage) ==
  /\ c \in [Actors -> Child]
  /\ \A b \in Actors : KeepsReap(c, b) \/ (wpc[b] = "exited" /\ Reaps(c, b, stage))

HostFrame ==
  /\ UNCHANGED <<shm.setup, shm.acknowledged, shm.completed>>
  /\ UNCHANGED <<next, early>>

\* Setup and inspection go on: nothing is asked of an actor.
PrepStep ==
  /\ HostFrame
  /\ UNCHANGED <<wpc, stopping, stopped, visits, asked>>
  /\ UNCHANGED <<shm.activation, shm.proceed, shm.exit_requested>>
  /\ hpc \in LaunchPc /\ hpc' \in LaunchPc \cup {"entry"}
  /\ hpc' = "launch" => hpc = "launch" /\ cursor' = cursor + 1
  /\ hpc' = "entry" => cursor' = 1
  /\ pending' \subseteq pending
  /\ \A a \in Actors : /\ records'[a].quiescence = records[a].quiescence
                       /\ usable(a)' => usable(a) \/ a \in shm.setup
  /\ cancelled' = cancelled \/ (cancelled = None /\ cancelled' = "equipment_execution")
  /\ ChildStep(child', "inspection")

LaunchStep ==
  /\ HostFrame
  /\ UNCHANGED <<child, visits, cancelled, shm.activation, shm.proceed>>
  /\ hpc = "launch" /\ cursor \in Actors /\ cancelled = None
  /\ wpc'[cursor] \in {"setup", "leaving"} /\ cursor' = cursor + 1
  /\ records'[cursor].quiescence = "unresolved"
  /\ records'[cursor].setupStatus = "applied" => usable(cursor)
  /\ \A a \in Actors : a # cursor => wpc'[a] = wpc[a] /\ records'[a] = records[a]
  /\ pending' \subseteq pending \cup {cursor}
  /\ \/ /\ hpc' = "launch" /\ UNCHANGED <<shm.exit_requested, stopping, stopped, asked>>
     \/ /\ hpc' = "stopping" /\ stopping' = [actor |-> cursor, then |-> "launch"]
        /\ shm'.exit_requested = shm.exit_requested \cup {cursor}
        /\ stopped' = stopped \cup {cursor} /\ asked' = asked \cup {cursor}

StopStep(a, then) ==
  /\ HostFrame
  /\ UNCHANGED <<wpc, cursor, cancelled, shm.activation, shm.proceed>>
  /\ hpc' = "stopping" /\ stopping' = [actor |-> a, then |-> then]
  /\ stopped' = stopped \cup {a} /\ shm'.exit_requested = shm.exit_requested \cup {a}
  /\ asked' = IF wpc[a] = "exited" THEN asked ELSE asked \cup {a}
  /\ wpc[a] # "absent" /\ pending' \subseteq pending
  /\ \/ /\ hpc \in {"setup", "setup_timeout"} /\ then = hpc
        /\ \A b \in Actors : /\ records'[b].quiescence = records[b].quiescence
                             /\ usable(b)' => usable(b)
        /\ ChildStep(child', "setup") /\ UNCHANGED visits
     \/ /\ hpc = "ending" /\ then = "entry" /\ a = Schedule[cursor]
        /\ visits' = [visits EXCEPT ![cursor].completionObserved = cursor \in shm.completed]
        /\ UNCHANGED <<records, child>>
     \/ hpc = "finish" /\ then = "finish" /\ UNCHANGED <<records, child, visits>>


\* What a gate saw of its source, and the number of its snapshot.
GateLook(c, g) ==
  /\ ChildStep(c, "termination_gate")
  /\ g.observation \in {{}, Ordinal(c[Source].ownedReap)}
  /\ g.capture_ordinal = c[Source].captured + 1

\* A visit that is not activated.
SkipStep ==
  /\ HostFrame
  /\ UNCHANGED <<wpc, stopping, stopped, pending, records, asked>>
  /\ UNCHANGED <<shm.activation, shm.proceed, shm.exit_requested>>
  /\ cursor \in Phases /\ hpc' = "entry" /\ cursor' = cursor + 1
  /\ cancelled' = None => cancelled = None /\ ~available(Schedule[cursor])
  /\ cancelled' = "equipment_execution" => cancelled = "equipment_execution"
  /\ \E r \in EndReason \ {"completed", "protocol_violation"}, g \in Gate :
       /\ visits' = [visits EXCEPT ![cursor].endReason = r, ![cursor].gate = g]
       /\ \/ hpc = "entry" /\ g = visits[cursor].gate /\ child' = child
          \/ /\ hpc = "gate" /\ g.outcome # "satisfied"
             /\ \E c \in [Actors -> Child] :
                  GateLook(c, g) /\ child' = [c EXCEPT ![Source].captured = @ + 1]

GateEntered ==
  /\ HostFrame
  /\ UNCHANGED <<wpc, cursor, stopping, stopped, pending, records, asked, cancelled, visits, child>>
  /\ UNCHANGED <<shm.activation, shm.proceed, shm.exit_requested>>
  /\ hpc = "entry" /\ hpc' = "gate" /\ cursor \in Phases /\ Dependency[cursor] \in Phases
  /\ cancelled = None /\ available(Schedule[cursor])

ActivateStep(c, g) ==
  /\ HostFrame
  /\ UNCHANGED <<wpc, cursor, stopping, stopped, pending, records, asked, cancelled>>
  /\ UNCHANGED <<shm.proceed, shm.exit_requested>>
  /\ hpc \in {"entry", "gate"} /\ hpc' = "arrival" /\ cursor \in Phases
  /\ cancelled = None /\ available(Schedule[cursor])
  /\ shm'.activation = [shm.activation EXCEPT ![Schedule[cursor]] = cursor]
  /\ visits' = [visits EXCEPT ![cursor] =
       [@ EXCEPT !.activationStored = TRUE, !.gate = g,
                 !.activation = c[Schedule[cursor]].captured + 1]]
  /\ child' = [c EXCEPT ![Schedule[cursor]].captured = @ + 1]
  /\ \/ Dependency[cursor] = 0 /\ c = child /\ g = visits[cursor].gate
     \/ /\ hpc = "gate" /\ g.outcome = "satisfied" /\ visits[Dependency[cursor]].activationStored
        /\ \E seen \in [Actors -> Child] :
             /\ GateLook(seen, g) /\ c = [seen EXCEPT ![Source].captured = @ + 1]
             /\ g.observation = Ordinal(seen[Source].ownedReap)
             /\ \E reap \in seen[Source].ownedReap : reapOutcome(reap) = "satisfied"

VisitOver ==
  /\ HostFrame
  /\ UNCHANGED <<wpc, stopping, stopped, pending, records, asked, cancelled, child>>
  /\ UNCHANGED <<shm.activation, shm.proceed, shm.exit_requested>>
  /\ hpc = "ending" /\ visits[cursor].endReason = "completed"
  /\ hpc' = "entry" /\ cursor' = cursor + 1
  /\ visits' = [visits EXCEPT ![cursor].completionObserved = cursor \in shm.completed]

FinishStep ==
  /\ HostFrame
  /\ UNCHANGED <<wpc, stopping, stopped, pending, records, asked, cancelled, child, visits>>
  /\ UNCHANGED <<shm.activation, shm.proceed, shm.exit_requested>>
  /\ hpc \in {"entry", "finish"} /\ hpc' \in {"finish", "returned"}

\* An actor's stop is over: it is gone, or its termination is unresolved.
StopOver(a, reaped) ==
  /\ HostFrame
  /\ UNCHANGED <<shm, stopping, stopped, pending, visits, asked>>
  /\ hpc = "stopping" /\ a = stopping.actor /\ a \in Actors
  /\ hpc' = stopping.then
  /\ cursor' = IF stopping.then \in {"entry", "finish"} THEN cursor + 1 ELSE cursor
  /\ wpc'[a] = IF reaped THEN "exited" ELSE wpc[a]
  /\ records'[a].quiescence = IF reaped THEN "reaped" ELSE "unresolved"
  /\ records'[a].setupStatus = records[a].setupStatus
  /\ \A b \in Actors : b # a => wpc'[b] = wpc[b] /\ records'[b] = records[b]
  /\ cancelled' = None => cancelled = None /\ (reaped \/ stopping.then = "finish")
  /\ cancelled' = "equipment_execution" => cancelled = "equipment_execution"
  /\ reaped \/ ~child[a].reaped
  /\ child' \in [Actors -> Child]
  /\ \A b \in Actors : KeepsReap(child', b) \/ (b = a /\ reaped /\ Reaps(child', b, "stop"))

HostMoves ==
  \/ PrepStep \/ LaunchStep \/ (\E a \in Actors, then \in Resumed : StopStep(a, then))
  \/ SkipStep \/ GateEntered \/ (\E c \in [Actors -> Child], g \in Gate : ActivateStep(c, g))
  \/ (VisitStep /\ ChildStep(child', "schedule")) \/ VisitOver \/ FinishStep
  \/ (\E a \in Actors, reaped \in BOOLEAN : StopOver(a, reaped))

LEMMA WaitSteps ==
  ASSUME TypeInv, NEW a \in Actors, NEW o \in WaitObservation(a), NEW stage \in Stage
  PROVE  ChildStep(waited(a, o, stage), stage)
<1> DEFINE c == waited(a, o, stage)
<1>1. c \in [Actors -> Child] /\ child \in [Actors -> Child]
  BY Zenon, WaitedType DEF TypeInv
<1>2. c[a] = observed(a, o, stage) /\ \A b \in Actors : b # a => c[b] = child[b]
  BY <1>1 DEF waited
<1> HIDE DEF c
<1>3. \A b \in Actors : child[b].captured \in Nat /\ child[b].captured >= child[b].captured
  BY <1>1 DEF Child
<1>4. ASSUME NEW b \in Actors, b # a PROVE KeepsReap(c, b)
  BY Zenon, <1>2, <1>3, <1>4 DEF KeepsReap
<1>5. CASE o = "reaped" /\ ~child[a].reaped
  <2>1. wpc[a] = "exited"
    BY <1>5 DEF WaitObservation
  <2>2. Reaps(c, a, stage)
    BY <1>1, <1>2, <1>3, <1>5 DEF Reaps, observed
  <2> QED
    BY Zenon, <1>1, <1>4, <2>1, <2>2 DEF ChildStep, c
<1>6. CASE ~(o = "reaped" /\ ~child[a].reaped)
  <2>1. c[a] = [child[a] EXCEPT !.ownershipUnbroken = @ /\ o # "failed"]
    BY Zenon, <1>2, <1>6 DEF observed
  <2>2. KeepsReap(c, a)
    BY <1>1, <1>3, <2>1 DEF KeepsReap, Child
  <2> QED
    BY Zenon, <1>1, <1>4, <2>2 DEF ChildStep, c
<1> QED
  BY Zenon, <1>5, <1>6

LEMMA IdleSteps ==
  ASSUME TypeInv, NEW stage
  PROVE  ChildStep(child, stage)
<1>1. child \in [Actors -> Child]
  BY Zenon DEF TypeInv
<1>2. \A b \in Actors : child[b].captured >= child[b].captured
  BY <1>1 DEF Child
<1> QED
  BY Zenon, <1>1, <1>2 DEF ChildStep, KeepsReap

\* What asking an actor to leave changes of its words.
LEMMA StopWords ==
  ASSUME TypeInv, NEW a \in Actors, NEW then \in Resumed, stopActor(a, then)
  PROVE  /\ HostFrame
         /\ UNCHANGED <<wpc, cursor, shm.activation, shm.proceed>>
         /\ hpc' = "stopping" /\ stopping' = [actor |-> a, then |-> then]
         /\ stopped' = stopped \cup {a} /\ shm'.exit_requested = shm.exit_requested \cup {a}
         /\ asked' = IF wpc[a] = "exited" THEN asked ELSE asked \cup {a}
<1>1. /\ UNCHANGED <<shm.setup, shm.acknowledged, shm.completed, shm.activation, shm.proceed>>
      /\ shm'.exit_requested = shm.exit_requested \cup {a}
  BY DEF TypeInv, stopActor, Shm
<1> QED
  BY Zenon, <1>1 DEF stopActor, HostFrame, workerVars

LEMMA LaunchSteps ==
  ASSUME TypeInv, LaunchInv,
         \/ AuthoritySetupFailed \/ LaunchSkipped \/ Launch \/ LaunchTransferFailed \/ LaunchEnds
         \/ (\E a \in Actors : ResolveSetup(a)) \/ SetupDeadline \/ SetupTimeout \/ SetupEnds
         \/ InspectNext \/ InspectionEnds
  PROVE  HostMoves
<1>0. /\ records \in [Actors -> Record] /\ child \in [Actors -> Child] /\ shm \in Shm
      /\ cursor \in Nat \ {0} /\ pending \subseteq Actors /\ wpc \in [Actors -> WorkerPc]
      /\ "setup" \in Stage /\ "inspection" \in Stage
      /\ {"launch", "setup", "setup_timeout", "inspect"} \subseteq LaunchPc
      /\ "setup" \in Resumed /\ "setup_timeout" \in Resumed
  BY DEF TypeInv, Stage, LaunchPc, Resumed
<1>i. /\ ChildStep(child, "inspection") /\ ChildStep(child, "setup")
      /\ \A a \in Actors : \A o \in WaitObservation(a) :
           /\ ChildStep(waited(a, o, "inspection"), "inspection")
           /\ ChildStep(waited(a, o, "setup"), "setup")
  BY Zenon, <1>0, IdleSteps, WaitSteps
<1>1. ASSUME \/ AuthoritySetupFailed \/ LaunchSkipped \/ LaunchEnds \/ SetupDeadline \/ SetupEnds
             \/ InspectNext \/ InspectionEnds
      PROVE  PrepStep
  <2>1. /\ HostFrame /\ UNCHANGED <<wpc, stopping, stopped, visits, asked, pending>>
        /\ UNCHANGED <<shm.activation, shm.proceed, shm.exit_requested>>
    BY Zenon, <1>1 DEF AuthoritySetupFailed, LaunchSkipped, LaunchEnds, SetupDeadline, SetupEnds,
      InspectNext, InspectionEnds, HostStep, Goto, Advance, HostFrame, workerVars
  <2>2. /\ hpc \in LaunchPc /\ hpc' \in LaunchPc \cup {"entry"}
        /\ hpc' = "launch" => hpc = "launch" /\ cursor' = cursor + 1
        /\ hpc' = "entry" => cursor' = 1
    BY <1>0, <1>1 DEF AuthoritySetupFailed, LaunchSkipped, LaunchEnds, SetupDeadline, SetupEnds,
      InspectNext, InspectionEnds, Goto, Advance
  <2>3. \A a \in Actors : /\ records'[a].quiescence = records[a].quiescence
                          /\ usable(a)' => usable(a)
    <3>1. CASE AuthoritySetupFailed
      BY <1>0, <3>1 DEF AuthoritySetupFailed, usable, Record
    <3>2. CASE LaunchSkipped
      <4>1. PICK s \in {"setup_timeout", "launch_refused"} :
              records' = [records EXCEPT ![cursor].setupStatus = s]
        BY Zenon, <3>2 DEF LaunchSkipped
      <4> QED
        BY <1>0, <4>1 DEF usable, Record
    <3>3. CASE UNCHANGED records
      BY Zenon, <3>3 DEF usable
    <3> QED
      BY Zenon, <1>1, <3>1, <3>2, <3>3 DEF LaunchEnds, SetupDeadline, SetupEnds, InspectNext,
        InspectionEnds
  <2>4. cancelled' = cancelled \/ (cancelled = None /\ cancelled' = "equipment_execution")
    BY Zenon, <1>1 DEF AuthoritySetupFailed, LaunchSkipped, LaunchEnds, SetupDeadline, SetupEnds,
      InspectNext, InspectionEnds
  <2>5. ChildStep(child', "inspection")
    <3>1. CASE InspectNext
      <4>1. cursor \in Actors
        BY <1>0, <3>1, ActorCountAssumption DEF InspectNext, Actors
      <4>2. child' = child \/ \E o \in WaitObservation(cursor) : child' = waited(cursor, o, "inspection")
        BY Zenon, <3>1 DEF InspectNext, waitChild
      <4> QED
        BY Zenon, <1>i, <4>1, <4>2
    <3> QED
      BY Zenon, <1>1, <1>i, <3>1 DEF AuthoritySetupFailed, LaunchSkipped, LaunchEnds,
        SetupDeadline, SetupEnds, InspectionEnds
  <2> QED
    BY Zenon, <2>1, <2>2, <2>3, <2>4, <2>5 DEF PrepStep
<1>2. ASSUME Launch \/ LaunchTransferFailed PROVE LaunchStep
  <2>1. hpc = "launch" /\ cursor \in Actors /\ cancelled = None /\ UNCHANGED <<child, visits, cancelled>>
    BY <1>0, <1>2, ActorCountAssumption DEF Launch, LaunchTransferFailed, Actors
  <2>2. /\ wpc'[cursor] \in {"setup", "leaving"}
        /\ \A a \in Actors : a # cursor => wpc'[a] = wpc[a] /\ records'[a] = records[a]
    BY <1>0, <1>2, <2>1 DEF Launch, LaunchTransferFailed
  <2>3. records'[cursor].quiescence = "unresolved" /\ (records'[cursor].setupStatus = "applied" => usable(cursor))
    <3>1. CASE Launch
      BY <1>0, <2>1, <3>1 DEF Launch, Record, usable
    <3>2. CASE LaunchTransferFailed
      <4>1. records'[cursor] = [setupStatus |-> "transfer_failed", quiescence |-> "unresolved"]
        BY <1>0, <2>1, <3>2 DEF LaunchTransferFailed
      <4> QED
        BY <4>1 DEF usable
    <3> QED
      BY Zenon, <1>2, <3>1, <3>2
  <2>4. /\ UNCHANGED <<shm.setup, shm.acknowledged, shm.completed, shm.activation, shm.proceed>>
        /\ shm' = shm \/ shm'.exit_requested = shm.exit_requested \cup {cursor}
    BY <1>0, <1>2, <2>1 DEF Launch, LaunchTransferFailed, Shm
  <2>5. CASE Launch
    BY Zenon, <2>1, <2>2, <2>3, <2>4, <2>5 DEF Launch, LaunchStep, HostFrame, Advance, histVars
  <2>6. CASE LaunchTransferFailed
    <3>1. shm'.exit_requested = shm.exit_requested \cup {cursor} /\ pending' \subseteq pending \cup {cursor}
      BY <1>0, <2>6 DEF LaunchTransferFailed, Shm
    <3> QED
      BY Zenon, <2>1, <2>2, <2>3, <2>4, <2>6, <3>1 DEF LaunchTransferFailed, LaunchStep, HostFrame
  <2> QED
    BY Zenon, <1>2, <2>5, <2>6
<1>3. ASSUME NEW a \in Actors, ResolveSetup(a)
      PROVE  PrepStep \/ \E then \in Resumed : StopStep(a, then)
  <2>1. PICK o \in WaitObservation(a) :
          /\ child' = waited(a, o, "setup") \/ child' = child
          /\ SetupDisposition(a, o) = "applied" => child' = child
          /\ records' = [records EXCEPT ![a].setupStatus = SetupDisposition(a, o)]
          /\ pending' = pending \ {a}
          /\ \/ /\ SetupDisposition(a, o) = "applied"
                /\ Goto("setup") /\ HostStep /\ UNCHANGED <<shm, stopped, asked>>
             \/ SetupDisposition(a, o) # "applied" /\ stopActor(a, "setup")
    BY Zenon, <1>3 DEF ResolveSetup, waitChild
  <2>2. SetupDisposition(a, o) = "applied" => a \in shm.setup
    BY DEF SetupDisposition, None
  <2>3. /\ \A b \in Actors : /\ records'[b].quiescence = records[b].quiescence
                             /\ usable(b)' => usable(b) \/
                                  (b = a /\ SetupDisposition(a, o) = "applied")
        /\ pending' \subseteq pending
    <3>1. PICK s : s = SetupDisposition(a, o)
      OBVIOUS
    <3>2. \A b \in Actors : /\ records'[b].quiescence = records[b].quiescence
                            /\ usable(b)' => usable(b) \/ (b = a /\ s = "applied")
      BY <1>0, <2>1, <3>1 DEF Record, usable
    <3> QED
      BY Zenon, <2>1, <3>1, <3>2
  <2>4. hpc = "setup" /\ UNCHANGED <<visits, cancelled>>
    BY Zenon, <1>3 DEF ResolveSetup
  <2>5. CASE /\ SetupDisposition(a, o) = "applied"
             /\ Goto("setup") /\ HostStep /\ UNCHANGED <<shm, stopped, asked>>
    <3>1. HostFrame /\ UNCHANGED <<wpc, stopping, shm.activation, shm.proceed, shm.exit_requested>>
      BY Zenon, <2>5 DEF Goto, HostStep, HostFrame, workerVars
    <3>2. hpc \in LaunchPc /\ hpc' \in LaunchPc /\ hpc' # "launch" /\ hpc' # "entry"
      BY <1>0, <2>4, <2>5 DEF Goto
    <3>3. \A b \in Actors : usable(b)' => usable(b) \/ b \in shm.setup
      BY Zenon, <2>2, <2>3
    <3> QED
      BY Zenon, <1>i, <2>1, <2>3, <2>4, <2>5, <3>1, <3>2, <3>3 DEF PrepStep
  <2>6. CASE SetupDisposition(a, o) # "applied" /\ stopActor(a, "setup")
    <3>1. wpc[a] # "absent"
      BY Zenon, <1>3 DEF ResolveSetup, LaunchInv
    <3>2. ChildStep(child', "setup")
      BY Zenon, <1>i, <2>1
    <3>3. StopStep(a, "setup")
      BY Zenon, <1>0, <2>3, <2>4, <2>6, <3>1, <3>2, StopWords DEF StopStep
    <3> QED
      BY Zenon, <1>0, <3>3
  <2> QED
    BY Zenon, <2>1, <2>5, <2>6
<1>4. ASSUME SetupTimeout PROVE \E a \in Actors, then \in Resumed : StopStep(a, then)
  <2> DEFINE a == Min(pending)
  <2>1. a \in pending /\ a \in Actors
    BY <1>0, <1>4, MinIsLeast DEF SetupTimeout, Actors
  <2>2. /\ hpc = "setup_timeout" /\ stopActor(a, "setup_timeout")
        /\ UNCHANGED <<child, visits, cancelled>>
        /\ records' = [records EXCEPT ![a].setupStatus = "setup_timeout"] /\ pending' = pending \ {a}
    BY Zenon, <1>4 DEF SetupTimeout
  <2> HIDE DEF a
  <2>3. /\ \A b \in Actors : /\ records'[b].quiescence = records[b].quiescence
                             /\ usable(b)' => usable(b)
        /\ pending' \subseteq pending
    BY <1>0, <2>1, <2>2 DEF Record, usable
  <2>4. wpc[a] # "absent"
    BY Zenon, <2>1 DEF LaunchInv
  <2>5. ChildStep(child', "setup")
    BY Zenon, <1>i, <2>2
  <2>6. StopStep(a, "setup_timeout")
    BY Zenon, <1>0, <2>1, <2>2, <2>3, <2>4, <2>5, StopWords DEF StopStep
  <2> QED
    BY Zenon, <1>0, <2>1, <2>6
<1> QED
  BY Zenon, <1>1, <1>2, <1>3, <1>4 DEF HostMoves

\* A gate's numbered children.
LEMMA GateSteps ==
  ASSUME TypeInv, cursor \in Phases, Dependency[cursor] \in Phases,
         NEW outcome \in GateOutcomes, NEW c \in [Actors -> Child],
         ChildStep(c, "termination_gate"), NEW seen \in SUBSET Nat,
         seen \in {{}, Ordinal(c[Source].ownedReap)},
         gateEnds(outcome, c, seen), hpc = "gate", UNCHANGED <<pending, records, stopped, asked>>,
         cancelled = None, available(Schedule[cursor]),
         outcome = "satisfied" =>
           /\ visits[Dependency[cursor]].activationStored /\ seen = Ordinal(c[Source].ownedReap)
           /\ \E reap \in c[Source].ownedReap : reapOutcome(reap) = "satisfied"
  PROVE  SkipStep \/ \E d \in [Actors -> Child], g \in Gate : ActivateStep(d, g)
<1> DEFINE gate == [outcome |-> outcome, observation |-> seen,
                    capture_ordinal |-> c[Source].captured + 1]
           numbered == [c EXCEPT ![Source].captured = @ + 1]
<1>1. Source \in Actors
  BY ScheduleType DEF Source
<1>2. numbered \in [Actors -> Child] /\ c[Source].captured + 1 \in Nat
  BY Zenon, <1>1, NumberedType
<1>3. gate \in Gate
  BY Zenon, <1>2 DEF Gate
<1>4. GateLook(c, gate) /\ gate.outcome = outcome /\ gate.observation = seen
  BY Zenon DEF GateLook
<1>5. IF outcome = "satisfied" THEN activate(numbered, gate)
      ELSE /\ Skip("termination_dependency", "termination_dependency", gate)
           /\ child' = numbered /\ UNCHANGED shm
  BY Zenon DEF gateEnds, Source
<1> HIDE DEF gate, numbered
<1>6. CASE outcome = "satisfied"
  <2>1. activate(numbered, gate)
    BY Zenon, <1>5, <1>6
  <2>2. /\ shm'.activation = [shm.activation EXCEPT ![Schedule[cursor]] = cursor]
        /\ UNCHANGED <<shm.setup, shm.acknowledged, shm.completed, shm.proceed, shm.exit_requested>>
    BY <2>1 DEF activate, TypeInv, Shm
  <2>3. ActivateStep(numbered, gate)
    BY Zenon, <1>4, <1>6, <2>1, <2>2
    DEF activate, ActivateStep, HostFrame, HostStep, Goto, workerVars, numbered
  <2> QED
    BY Zenon, <1>2, <1>3, <2>3
<1>7. CASE outcome # "satisfied"
  <2>1. /\ Skip("termination_dependency", "termination_dependency", gate)
        /\ child' = numbered /\ UNCHANGED shm
    BY Zenon, <1>5, <1>7
  <2>2. "termination_dependency" \in EndReason \ {"completed", "protocol_violation"}
    BY DEF EndReason
  <2>3. cancelled' # None /\ cancelled' # "equipment_execution"
    BY <2>1 DEF Skip, None
  <2>4. SkipStep
    BY Zenon, <1>3, <1>4, <1>7, <2>1, <2>2, <2>3
    DEF Skip, SkipStep, HostFrame, HostStep, Advance, workerVars, numbered
  <2> QED
    BY Zenon, <2>4
<1> QED
  BY Zenon, <1>6, <1>7

LEMMA WalkSteps ==
  ASSUME TypeInv, LaunchInv, WalkInv, EnterVisit \/ observeTermination \/ VisitAction \/ EndVisit
  PROVE  HostMoves
<1>0. /\ visits \in [Phases -> Visit] /\ child \in [Actors -> Child] /\ shm \in Shm
      /\ cursor \in Nat \ {0} /\ "schedule" \in Stage /\ "termination_gate" \in Stage
      /\ "entry" \in Resumed /\ {} \in SUBSET Nat
  BY DEF TypeInv, Stage, Resumed
<1>1. ASSUME EnterVisit PROVE HostMoves
  <2>1. cursor \in Phases /\ hpc = "entry" /\ UNCHANGED <<pending, records, stopped, asked>>
    BY <1>0, <1>1, ScheduleType DEF EnterVisit
  <2>2. visits[cursor].gate \in Gate
    BY <1>0, <2>1 DEF Visit
  <2>3. \/ /\ UNCHANGED <<shm, child>>
           /\ \E r \in {"cancelled", "actor_unavailable"},
                 why \in {cancelled, "execution_allowance_exhausted", None} :
                /\ Skip(r, why, visits[cursor].gate)
                /\ why = None => cancelled = None /\ ~available(Schedule[cursor])
        \/ /\ cancelled = None /\ available(Schedule[cursor])
           /\ \/ Dependency[cursor] = 0 /\ activate(child, visits[cursor].gate)
              \/ /\ Dependency[cursor] # 0
                 /\ Goto("gate") /\ HostStep /\ UNCHANGED <<shm, child, visits, cancelled>>
    BY <1>1 DEF EnterVisit, None
  <2>4. CASE /\ UNCHANGED <<shm, child>>
             /\ \E r \in {"cancelled", "actor_unavailable"},
                   why \in {cancelled, "execution_allowance_exhausted", None} :
                  /\ Skip(r, why, visits[cursor].gate)
                  /\ why = None => cancelled = None /\ ~available(Schedule[cursor])
    <3>1. PICK r \in {"cancelled", "actor_unavailable"},
               why \in {cancelled, "execution_allowance_exhausted", None} :
            /\ Skip(r, why, visits[cursor].gate)
            /\ why = None => cancelled = None /\ ~available(Schedule[cursor])
      BY Zenon, <2>4
    <3>2. r \in EndReason \ {"completed", "protocol_violation"}
      BY DEF EndReason
    <3>3. why = "equipment_execution" => cancelled = "equipment_execution"
      BY DEF None
    <3>4. SkipStep
      BY Zenon, <2>1, <2>2, <2>4, <3>1, <3>2, <3>3
      DEF Skip, SkipStep, HostFrame, HostStep, Advance, workerVars
    <3> QED
      BY Zenon, <3>4 DEF HostMoves
  <2>5. CASE /\ cancelled = None /\ available(Schedule[cursor])
             /\ Dependency[cursor] = 0 /\ activate(child, visits[cursor].gate)
    <3>1. /\ shm'.activation = [shm.activation EXCEPT ![Schedule[cursor]] = cursor]
          /\ UNCHANGED <<shm.setup, shm.acknowledged, shm.completed, shm.proceed,
                         shm.exit_requested>>
      BY <1>0, <2>5 DEF activate, Shm
    <3>2. ActivateStep(child, visits[cursor].gate)
      BY Zenon, <2>1, <2>5, <3>1 DEF activate, ActivateStep, HostFrame, HostStep, Goto, workerVars
    <3> QED
      BY Zenon, <1>0, <2>2, <3>2 DEF HostMoves
  <2>6. CASE /\ cancelled = None /\ available(Schedule[cursor]) /\ Dependency[cursor] # 0
             /\ Goto("gate") /\ HostStep /\ UNCHANGED <<shm, child, visits, cancelled>>
    <3>1. Dependency[cursor] \in Phases
      BY <2>1, <2>6, DependencyAssumption, ScheduleType DEF Ordinals
    <3>2. GateEntered
      BY Zenon, <2>1, <2>6, <3>1 DEF GateEntered, HostFrame, HostStep, Goto, workerVars
    <3> QED
      BY Zenon, <3>2 DEF HostMoves
  <2> QED
    BY Zenon, <2>3, <2>4, <2>5, <2>6
<1>2. ASSUME observeTermination PROVE HostMoves
  <2>1. /\ UNCHANGED <<pending, records, stopped, asked>> /\ hpc = "gate" /\ cursor \in Phases
        /\ Dependency[cursor] \in Phases /\ cancelled = None /\ available(Schedule[cursor])
    BY Zenon, <1>2 DEF observeTermination, WalkInv
  <2>2. Source \in Actors
    BY <2>1, ScheduleType DEF Source
  <2>3. PICK outcome \in GateOutcomes :
          \/ outcome # "satisfied" /\ gateEnds(outcome, child, {})
          \/ \E o \in WaitObservation(Source) :
               LET c == waited(Source, o, "termination_gate") IN
               /\ gateEnds(outcome, c, Ordinal(c[Source].ownedReap))
               /\ outcome = "satisfied" =>
                    /\ visits[Dependency[cursor]].activationStored
                    /\ \E reap \in c[Source].ownedReap : reapOutcome(reap) = "satisfied"
    BY Zenon, <1>2, TerminationSteps
  <2>4. CASE outcome # "satisfied" /\ gateEnds(outcome, child, {})
    <3>1. ChildStep(child, "termination_gate") /\ {} \in {{}, Ordinal(child[Source].ownedReap)}
      BY Zenon, IdleSteps
    <3> QED
      BY Zenon, <1>0, <2>1, <2>4, <3>1, GateSteps DEF HostMoves
  <2>5. ASSUME NEW o \in WaitObservation(Source),
               LET c == waited(Source, o, "termination_gate") IN
               /\ gateEnds(outcome, c, Ordinal(c[Source].ownedReap))
               /\ outcome = "satisfied" =>
                    /\ visits[Dependency[cursor]].activationStored
                    /\ \E reap \in c[Source].ownedReap : reapOutcome(reap) = "satisfied"
        PROVE  HostMoves
    <3> DEFINE c == waited(Source, o, "termination_gate")
               seen == Ordinal(c[Source].ownedReap)
    <3>1. ChildStep(c, "termination_gate")
      BY Zenon, <1>0, <2>2, WaitSteps
    <3>2. /\ gateEnds(outcome, c, seen)
          /\ outcome = "satisfied" =>
               /\ visits[Dependency[cursor]].activationStored
               /\ \E reap \in c[Source].ownedReap : reapOutcome(reap) = "satisfied"
      BY Zenon, <2>5
    <3> HIDE DEF c
    <3>3. c \in [Actors -> Child]
      BY Zenon, <3>1 DEF ChildStep
    <3>4. seen \in SUBSET Nat
      BY <2>2, <3>3 DEF Ordinal, Child, Reap
    <3>5. seen \in {{}, Ordinal(c[Source].ownedReap)}
      OBVIOUS
    <3>6. seen = Ordinal(c[Source].ownedReap)
      OBVIOUS
    <3> HIDE DEF seen
    <3> QED
      BY Zenon, <2>1, <3>1, <3>2, <3>3, <3>4, <3>5, <3>6, GateSteps DEF HostMoves
  <2> QED
    BY Zenon, <2>3, <2>4, <2>5
<1>3. ASSUME VisitAction PROVE HostMoves
  <2>1. VisitStep
    BY Zenon, <1>3, VisitSteps
  <2>2. Schedule[cursor] \in Actors
    <3>1. cursor \in Phases
      BY Zenon, <2>1 DEF WalkInv, VisitStep, AtVisit, VisitPc
    <3> QED
      BY <3>1, ScheduleType
  <2>3. ChildStep(child, "schedule")
    BY Zenon, IdleSteps
  <2>4. \A o \in WaitObservation(Schedule[cursor]) :
          ChildStep(waited(Schedule[cursor], o, "schedule"), "schedule")
    BY Zenon, <1>0, <2>2, WaitSteps
  <2>5. ChildStep(child', "schedule")
    BY Zenon, <2>1, <2>3, <2>4 DEF VisitStep
  <2> QED
    BY Zenon, <2>1, <2>5 DEF HostMoves
<1>4. ASSUME EndVisit PROVE HostMoves
  <2>1. /\ hpc = "ending" /\ UNCHANGED <<pending, records, child, cancelled>>
        /\ visits' = [visits EXCEPT ![cursor].completionObserved = cursor \in shm.completed]
    BY Zenon, <1>4 DEF EndVisit
  <2>2. CASE /\ visits[cursor].endReason = "completed"
             /\ Advance("entry", cursor + 1) /\ HostStep /\ UNCHANGED <<shm, stopped, asked>>
    <3>1. VisitOver
      BY Zenon, <2>1, <2>2 DEF VisitOver, Advance, HostStep, HostFrame, workerVars
    <3> QED
      BY Zenon, <3>1 DEF HostMoves
  <2>3. CASE stopActor(Schedule[cursor], "entry")
    <3>1. Schedule[cursor] \in Actors /\ usable(Schedule[cursor])
      <4>1. cursor \in Phases /\ available(Schedule[cursor])
        BY Zenon, <2>1 DEF WalkInv, VisitPc, AtVisit
      <4> QED
        BY <4>1, ScheduleType DEF available
    <3>2. wpc[Schedule[cursor]] # "absent"
      BY Zenon, <3>1 DEF LaunchInv
    <3>3. StopStep(Schedule[cursor], "entry")
      BY Zenon, <1>0, <2>1, <2>3, <3>1, <3>2, StopWords DEF StopStep
    <3> QED
      BY Zenon, <1>0, <3>1, <3>3 DEF HostMoves
  <2> QED
    BY Zenon, <1>4, <2>2, <2>3 DEF EndVisit
<1> QED
  BY Zenon, <1>1, <1>2, <1>3, <1>4

LEMMA EndSteps ==
  ASSUME TypeInv, LaunchInv, WalkEnds \/ FinishNext \/ Return \/ StopEnds
  PROVE  HostMoves
<1>0. /\ cursor \in Nat \ {0} /\ shm \in Shm /\ records \in [Actors -> Record]
      /\ wpc \in [Actors -> WorkerPc] /\ child \in [Actors -> Child] /\ stopped \subseteq Actors
      /\ "finish" \in Resumed /\ "stop" \in Stage
  BY DEF TypeInv, Resumed, Stage
<1>1. CASE WalkEnds \/ Return
  <2>1. FinishStep
    BY Zenon, <1>1 DEF WalkEnds, Return, FinishStep, HostStep, HostFrame, Goto, Advance, workerVars
  <2> QED
    BY Zenon, <2>1 DEF HostMoves
<1>2. CASE FinishNext
  <2>1. cursor \in Actors
    BY <1>0, <1>2, ActorCountAssumption DEF FinishNext, Actors
  <2>2. CASE wpc[cursor] # "absent" /\ stopActor(cursor, "finish")
    <3>1. StopStep(cursor, "finish")
      BY Zenon, <1>0, <1>2, <2>1, <2>2, StopWords DEF FinishNext, StopStep
    <3> QED
      BY Zenon, <1>0, <2>1, <3>1 DEF HostMoves
  <2>3. CASE Advance("finish", cursor + 1) /\ HostStep /\ UNCHANGED <<shm, stopped, asked>>
    <3>1. FinishStep
      BY Zenon, <1>2, <2>3 DEF FinishNext, FinishStep, HostStep, HostFrame, Advance, workerVars
    <3> QED
      BY Zenon, <3>1 DEF HostMoves
  <2> QED
    BY Zenon, <1>2, <2>2, <2>3 DEF FinishNext
<1>3. CASE StopEnds
  <2> DEFINE a == stopping.actor
  <2>1. hpc = "stopping" /\ a \in Actors /\ stopping.then \in Resumed
    BY Zenon, <1>0, <1>3 DEF StopEnds, LaunchInv
  <2>2. PICK reaped \in BOOLEAN :
          /\ reaped \/ ~child[a].reaped
          /\ wpc' = IF reaped THEN [wpc EXCEPT ![a] = "exited"] ELSE wpc
          /\ child' = waited(a, IF reaped THEN "reaped" ELSE "failed", "stop")
          /\ records' = [records EXCEPT ![a].quiescence =
                           IF reaped THEN "reaped" ELSE "unresolved"]
          /\ cancelled' = Cancelled(reaped)
    BY Zenon, <1>3 DEF StopEnds, waitChild
  <2>3. /\ cancelled' = None => cancelled = None /\ (reaped \/ stopping.then = "finish")
        /\ cancelled' = "equipment_execution" => cancelled = "equipment_execution"
    BY <2>1, <2>2 DEF Cancelled, None, Resumed
  <2>4. child' \in [Actors -> Child]
    BY Zenon, <1>0, <2>1, <2>2, WaitedType
  <2> HIDE DEF a
  <2>5. /\ wpc'[a] = IF reaped THEN "exited" ELSE wpc[a]
        /\ records'[a].quiescence = IF reaped THEN "reaped" ELSE "unresolved"
        /\ records'[a].setupStatus = records[a].setupStatus
        /\ \A b \in Actors : b # a => wpc'[b] = wpc[b] /\ records'[b] = records[b]
    BY <1>0, <2>1, <2>2 DEF Record
  <2>6. \A b \in Actors : KeepsReap(child', b) \/ (b = a /\ reaped /\ Reaps(child', b, "stop"))
    <3> DEFINE o == IF reaped THEN "reaped" ELSE "failed"
    <3>1. child'[a] = observed(a, o, "stop") /\ \A b \in Actors : b # a => child'[b] = child[b]
      BY <1>0, <2>1, <2>2 DEF waited
    <3>2. \A b \in Actors : child[b].captured \in Nat /\ child[b].captured >= child[b].captured
      BY <1>0 DEF Child
    <3>3. ASSUME NEW b \in Actors, b # a PROVE KeepsReap(child', b)
      BY Zenon, <3>1, <3>2, <3>3 DEF KeepsReap
    <3>4. CASE reaped /\ ~child[a].reaped
      <4>1. Reaps(child', a, "stop")
        BY <1>0, <2>1, <3>1, <3>2, <3>4 DEF Reaps, observed
      <4> QED
        BY Zenon, <3>3, <3>4, <4>1
    <3>5. CASE ~(reaped /\ ~child[a].reaped)
      <4>1. child'[a] = [child[a] EXCEPT !.ownershipUnbroken = @ /\ o # "failed"]
        BY <3>1, <3>5 DEF observed
      <4>2. KeepsReap(child', a)
        BY <1>0, <2>1, <3>2, <4>1 DEF KeepsReap, Child
      <4> QED
        BY Zenon, <3>3, <4>2
    <3> QED
      BY Zenon, <3>4, <3>5
  <2>7. StopOver(a, reaped)
    BY Zenon, <1>3, <2>1, <2>2, <2>3, <2>4, <2>5, <2>6
    DEF StopEnds, StopOver, HostFrame, histVars, a
  <2> QED
    BY Zenon, <2>1, <2>7 DEF HostMoves, a
<1> QED
  BY Zenon, <1>1, <1>2, <1>3

LEMMA HostSteps ==
  ASSUME TypeInv, LaunchInv, WalkInv, Host
  PROVE  HostMoves
BY Zenon, LaunchSteps, WalkSteps, EndSteps DEF Host, VisitAction
=============================================================================
