------------------------ MODULE PhaseHandshakeProofs ------------------------
(***************************************************************************)
(* What a phase's evidence says of the order of queries and attempts is    *)
(* true for any number of phases and attempts, under every combination of  *)
(* faults.                                                                 *)
(***************************************************************************)
EXTENDS PhaseHandshake, TLAPS

\* The worker, whatever the host does: its phases are taken in order, slot by slot,
\* and it says done only after the last one or a published failure.
BeforeAttempts == {"setup", "arriving", "waiting", "loaded", "acking", "refusing", "failing"}
Leaving == {"leaving", "exiting", "exited"}

Told == \/ shm.completed = Phases /\ shm.failure = NoFailure
        \/ shm.completed # Phases /\ shm.failure.state = "published"

WorkerInv ==
  /\ firstSlot(visit) <= shm.slots /\ shm.slots <= endSlot(visit)
  /\ wpc \in BeforeAttempts => shm.slots = firstSlot(visit)
  /\ wpc = "calling" => shm.slots < endSlot(visit)
  /\ \/ shm.completed = 1..visit - 1
     \/ wpc \in Leaving /\ visit = PhaseCount /\ shm.completed = Phases
  /\ wpc \notin {"refusing", "failing"} \cup Leaving => shm.failure = NoFailure
  /\ wpc \in {"refusing", "failing"} => shm.failure.state = "writing"
  /\ wpc \in {"leaving", "exiting"} => Told
  /\ shm.done => wpc \in {"exiting", "exited"} /\ Told

\* An acknowledgement precedes every attempt of its phase, and follows no refusal.
AcknowledgedRange ==
  /\ shm.arrived \subseteq 1..visit
  /\ 1..visit - 1 \subseteq shm.acknowledged /\ shm.acknowledged \subseteq 1..visit

AppliedInv ==
  /\ wpc \in {"arriving", "waiting", "loaded", "acking", "attempting", "calling"}
       => shm.applied
  /\ \A p \in shm.arrived \cup shm.acknowledged : shm.applied

AcknowledgedInv ==
  /\ AcknowledgedRange
  /\ wpc \in BeforeAttempts => visit \notin shm.acknowledged
  /\ wpc \in {"attempting", "calling"} \/ shm.slots # firstSlot(visit)
       => visit \in shm.acknowledged
  /\ shm.failure.operation = "proceed" =>
       shm.failure.index = visit /\ shm.slots = firstSlot(visit) /\ visit \notin shm.acknowledged
  /\ AppliedInv

\* A phase attempted early shows it in the words the host reads when it closes the
\* collection of that phase.
EarlyInv ==
  /\ shm.attempt <= shm.slots + 1
  /\ wpc \notin {"calling", "exited"} => shm.attempt <= shm.slots
  /\ \A p \in early :
       /\ p <= visit /\ (wpc \in BeforeAttempts => p < visit)
       /\ shm.slots > firstSlot(p) \/ shm.attempt > firstSlot(p)
       /\ phaseOutputs[p].collectionClosed => phaseOutputs[p].violations # {}

\* The host releases phases in order, each after its collection.
AtPhase == {"wait1", "hook", "wait2", "recheck", "release"}

HostInv ==
  /\ hpc \in AtPhase => nextPhase <= PhaseCount /\ nextPhase \in shm.arrived
  /\ hpc \in {"wait2", "recheck", "release"} => phaseOutputs[nextPhase].collectionClosed
  /\ nextPhase <= PhaseCount => \A p \in 1..nextPhase - 1 : phaseOutputs[p].collectionClosed
  /\ shm.proceed < nextPhase
  /\ \A p \in 1..shm.proceed : phaseOutputs[p].collectionClosed
  /\ hpc = "release" /\ nextPhase > 1 => nextPhase - 1 \in shm.completed
  /\ \A p \in Phases :
       phaseOutputs[p].releaseSet => phaseOutputs[p].collectionClosed /\ shm.applied

\* A worker that keeps its gates is never ahead of the release ordinal.
GateInv ==
  ~jumped =>
    /\ seen <= shm.proceed /\ visit <= shm.proceed + 1
    /\ wpc \in {"acking", "attempting", "calling"} => seen = visit
    /\ shm.slots # firstSlot(visit) \/ shm.attempt > firstSlot(visit) => seen = visit
    /\ shm.acknowledged \subseteq 1..seen /\ shm.completed \subseteq 1..seen
    /\ shm.proceed_observed <= seen
    /\ early = {}
    /\ \A p \in Phases : phaseOutputs[p].violations = {}
    /\ \A p \in 1..shm.proceed : phaseOutputs[p].releaseSet

\* What the host knows of the process, and what it copied when it knew it.
ProcessInv ==
  /\ process.reaped => wpc = "exited"
  /\ process.childUnavailable => ~process.ownershipUnbroken
  /\ hpc \in {"reconcile", "collect", "collect_slots", "returned"} =>
       process.reaped \/ ~process.ownershipUnbroken \/ process.kill = "failed"
  /\ hpc \in {"collect", "collect_slots", "returned"} /\ process.reaped
       /\ process.ownershipUnbroken =>
         \A p \in Phases : phaseOutputs[p].releaseSet /\ p \in shm.acknowledged
                             => phaseOutputs[p].ownershipEstablished
  /\ hpc \in {"collect_slots", "returned"} =>
       /\ output \in Output
       /\ output.basis = IF process.reaped THEN "after_confirmed_reap"
                         ELSE "execution_may_continue"
       /\ process.reaped => /\ output.applied = shm.applied /\ output.done = shm.done
                            /\ output.acknowledged = shm.acknowledged
                            /\ output.completed = shm.completed
  /\ hpc = "returned" /\ process.reaped =>
       output.slots = shm.slots /\ output.failure = shm.failure

IInv == /\ TypeOK /\ WorkerInv /\ AcknowledgedInv /\ EarlyInv
        /\ HostInv /\ GateInv /\ ProcessInv

-----------------------------------------------------------------------------
(* Slots.                                                                   *)

LEMMA SlotFacts ==
  ASSUME NEW p \in Phases
  PROVE  /\ firstSlot(p) \in Nat /\ endSlot(p) \in Nat /\ SlotCount \in Nat
         /\ firstSlot(p) < endSlot(p) /\ endSlot(p) <= SlotCount
         /\ firstSlot(p + 1) = endSlot(p) /\ firstSlot(1) = 0
<1> USE PhaseCountAssumption, SlotsPerPhaseAssumption DEF Phases
<1>1. PICK k \in Nat : PhaseCount = p + k
  <2>1. PhaseCount - p \in Nat /\ PhaseCount = p + (PhaseCount - p)
    OBVIOUS
  <2> QED
    BY <2>1
<1>2. k * SlotsPerPhase \in Nat /\ p * SlotsPerPhase \in Nat /\ (p - 1) * SlotsPerPhase \in Nat
  OBVIOUS
<1>3. PhaseCount * SlotsPerPhase = p * SlotsPerPhase + k * SlotsPerPhase
  BY <1>1
<1>4. p * SlotsPerPhase = (p - 1) * SlotsPerPhase + SlotsPerPhase
  OBVIOUS
<1>5. (p + 1) - 1 = p /\ (1 - 1) * SlotsPerPhase = 0
  OBVIOUS
<1> QED
  BY <1>2, <1>3, <1>4, <1>5 DEF firstSlot, endSlot, SlotCount

LEMMA SlotOrder ==
  ASSUME NEW p \in Phases, NEW q \in Phases, p < q
  PROVE  endSlot(p) <= firstSlot(q)
<1> USE PhaseCountAssumption, SlotsPerPhaseAssumption DEF Phases
<1>1. PICK k \in Nat : q - 1 = p + k
  <2>1. q - 1 - p \in Nat /\ q - 1 = p + (q - 1 - p)
    OBVIOUS
  <2> QED
    BY <2>1
<1>2. k * SlotsPerPhase \in Nat /\ p * SlotsPerPhase \in Nat
  OBVIOUS
<1>3. (q - 1) * SlotsPerPhase = p * SlotsPerPhase + k * SlotsPerPhase
  BY <1>1
<1> QED
  BY <1>2, <1>3 DEF firstSlot, endSlot

-----------------------------------------------------------------------------
(* Who writes what.                                                         *)

WorkerSide == Worker \/ GateJump \/ Die \/ Killed
HostSide == Host \/ HostCrash \/ \E x \in {"sentinel", "grace", "proceed"} : TimePasses(x)

LEMMA Sides == [Next]_vars => WorkerSide \/ HostSide \/ UNCHANGED vars
  BY ZenonT(60) DEF Next, Environment, Finished, WorkerSide, HostSide

LEMMA HostFrame ==
  ASSUME TypeOK, HostSide
  PROVE  /\ UNCHANGED <<wpc, visit, seen, early, jumped>>
         /\ UNCHANGED <<shm.applied, shm.done, shm.proceed_observed, shm.arrived,
                        shm.acknowledged, shm.completed, shm.attempt, shm.slots, shm.failure>>
<1> USE DEF workerVars, hostVars
<1>1. shm \in Shm
  BY DEF TypeOK
<1>2. CASE releaseVisit
  BY <1>1, <1>2 DEF releaseVisit, Shm
<1>3. CASE requestExit
  BY <1>1, <1>3 DEF requestExit, Shm
<1>4. CASE UNCHANGED <<shm, workerVars>>
  BY <1>4
<1> QED
  BY <1>2, <1>3, <1>4
  DEF HostSide, Host, HostCrash, TimePasses, WriteComplete, WriteFailed, PollArrival,
      PollNothing, WaitBeforeCollection, CloseCollection, WaitAfterCollection, waitChild,
      RecheckBeforeRelease, ObserveDone, ExitCheck, ExitCheckNotDue, SleepOrExpire, Grace,
      Terminate, Reap, Reconcile, CollectHeader, CollectSlots

LEMMA WorkerFrame ==
  ASSUME TypeOK, WorkerSide
  PROVE  /\ UNCHANGED <<hpc, nextPhase, phaseOutputs, stop, process, transfer, output>>
         /\ shm'.proceed = shm.proceed
<1> USE DEF workerVars, hostVars
<1>1. shm \in Shm
  BY DEF TypeOK
<1> QED
  BY Zenon, <1>1
  DEF WorkerSide, Worker, GateJump, Die, Killed, SetUp, SetUpRefused, SetUpFailed, pw_failure,
      PublishFailure, Arrive, ProceedRefused, LoadProceed, LoadExitRequested, Acknowledge,
      StartAttempt, FinishAttempt, CompletePhase, publish_done_and_exit, WorkerGoto, Shm

-----------------------------------------------------------------------------
(* The worker.                                                              *)

LEMMA WorkerInvStep == IInv /\ [Next]_vars => WorkerInv'
<1> SUFFICES ASSUME IInv, [Next]_vars PROVE WorkerInv'
  OBVIOUS
<1>1. /\ TypeOK /\ WorkerInv /\ shm \in Shm /\ shm.failure \in Failure /\ visit \in Phases
      /\ shm.slots \in Nat
  BY SMT DEF IInv, TypeOK, Shm
<1>2. /\ firstSlot(visit) \in Nat /\ endSlot(visit) \in Nat /\ firstSlot(visit) < endSlot(visit)
      /\ firstSlot(visit + 1) = endSlot(visit)
      /\ visit < PhaseCount => /\ endSlot(visit) < endSlot(visit + 1)
                               /\ endSlot(visit + 1) \in Nat
  <2>1. visit < PhaseCount => visit + 1 \in Phases
    BY <1>1, PhaseCountAssumption DEF Phases
  <2> QED
    BY <1>1, <2>1, SlotFacts
<1>3. 1..visit - 1 # Phases
  BY <1>1, PhaseCountAssumption DEF Phases
<1>4. CASE HostSide \/ UNCHANGED vars
  <2>1. /\ UNCHANGED <<wpc, visit, shm.done, shm.completed, shm.slots, shm.failure>>
    BY <1>1, <1>4, HostFrame DEF vars, workerVars
  <2> QED
    BY <1>1, <2>1 DEF WorkerInv, Told
<1>5. CASE SetUp
  BY <1>1, <1>5 DEF SetUp, WorkerGoto, WorkerInv, Told, Shm, BeforeAttempts, Leaving
<1>6. CASE SetUpRefused \/ SetUpFailed \/ ProceedRefused
  BY <1>1, <1>3, <1>6
  DEF SetUpRefused, SetUpFailed, ProceedRefused, pw_failure, WorkerGoto, WorkerInv, Told, Shm,
      BeforeAttempts, Leaving
<1>7. CASE PublishFailure
  BY <1>1, <1>3, <1>7
  DEF PublishFailure, WorkerGoto, WorkerInv, Told, Shm, Failure, BeforeAttempts, Leaving
<1>8. CASE Arrive
  BY <1>1, <1>8 DEF Arrive, WorkerGoto, WorkerInv, Told, Shm, BeforeAttempts, Leaving
<1>9. CASE LoadProceed \/ LoadExitRequested \/ GateJump \/ Die \/ Killed
  BY <1>1, <1>9
  DEF LoadProceed, LoadExitRequested, GateJump, Die, Killed, WorkerGoto, WorkerInv, Told, Shm,
      BeforeAttempts, Leaving
<1>10. CASE Acknowledge
  BY <1>1, <1>10 DEF Acknowledge, WorkerGoto, WorkerInv, Told, Shm, BeforeAttempts, Leaving
<1>11. CASE StartAttempt
  BY <1>1, <1>11 DEF StartAttempt, WorkerGoto, WorkerInv, Told, Shm, BeforeAttempts, Leaving
<1>12. CASE FinishAttempt
  BY <1>1, <1>2, <1>12 DEF FinishAttempt, WorkerGoto, WorkerInv, Told, Shm, BeforeAttempts, Leaving
<1>13. CASE CompletePhase
  <2>1. /\ wpc = "attempting" /\ shm.slots = endSlot(visit)
        /\ shm'.completed = 1..visit /\ shm'.slots = shm.slots /\ shm'.failure = NoFailure
        /\ shm'.done = shm.done /\ ~shm.done
    BY <1>1, <1>13 DEF CompletePhase, WorkerInv, Shm, Phases, Leaving
  <2>2. CASE visit < PhaseCount
    BY SMTT(60), <1>1, <1>2, <1>13, <2>1, <2>2
    DEF CompletePhase, WorkerInv, Phases, Leaving, BeforeAttempts
  <2>3. CASE visit = PhaseCount
    BY <1>1, <1>2, <1>13, <2>1, <2>3
    DEF CompletePhase, WorkerInv, Told, Phases, Leaving, BeforeAttempts
  <2> QED
    BY <1>1, <2>2, <2>3, PhaseCountAssumption DEF Phases
<1>14. CASE publish_done_and_exit
  BY Zenon, <1>1, <1>14 DEF publish_done_and_exit, WorkerGoto, WorkerInv, Told, Shm, BeforeAttempts, Leaving
<1> QED
  BY <1>4, <1>5, <1>6, <1>7, <1>8, <1>9, <1>10, <1>11, <1>12, <1>13, <1>14, Sides
  DEF WorkerSide, Worker

LEMMA AppliedInvStep == IInv /\ [Next]_vars => AppliedInv'
<1> SUFFICES ASSUME IInv, [Next]_vars PROVE AppliedInv'
  OBVIOUS
<1>1. TypeOK /\ AppliedInv /\ shm \in Shm
  BY DEF IInv, AcknowledgedInv, TypeOK
<1>2. CASE HostSide \/ UNCHANGED vars
  <2>1. /\ UNCHANGED <<wpc, shm.applied, shm.arrived, shm.acknowledged>>
    BY <1>1, <1>2, HostFrame DEF vars, workerVars
  <2> QED
    BY <1>1, <2>1 DEF AppliedInv
<1>3. CASE SetUp
  BY <1>1, <1>3 DEF SetUp, WorkerGoto, AppliedInv, Shm
<1>4. CASE Arrive \/ Acknowledge
  <2>1. shm.applied /\ shm'.applied = shm.applied
    BY Zenon, <1>1, <1>4 DEF Arrive, Acknowledge, AppliedInv, Shm
  <2> QED
    BY <2>1 DEF AppliedInv
<1>5. CASE WorkerSide /\ ~SetUp /\ ~Arrive /\ ~Acknowledge
  <2>1. /\ UNCHANGED <<shm.applied, shm.arrived, shm.acknowledged>>
        /\ wpc' \in {"arriving", "waiting", "loaded", "acking", "attempting", "calling"} =>
             wpc \in {"arriving", "waiting", "loaded", "acking", "attempting", "calling"}
    BY <1>1, <1>5
    DEF WorkerSide, Worker, GateJump, Die, Killed, SetUpRefused, SetUpFailed, pw_failure,
        PublishFailure, ProceedRefused, LoadProceed, LoadExitRequested, StartAttempt,
        FinishAttempt, CompletePhase, publish_done_and_exit, WorkerGoto, Shm
  <2> QED
    BY <1>1, <2>1 DEF AppliedInv
<1> QED
  BY <1>2, <1>3, <1>4, <1>5, Sides

LEMMA AcknowledgedRangeStep == IInv /\ [Next]_vars => AcknowledgedRange'
<1> SUFFICES ASSUME IInv, [Next]_vars PROVE AcknowledgedRange'
  OBVIOUS
<1>1. /\ TypeOK /\ AcknowledgedRange /\ shm \in Shm
      /\ visit \in Nat /\ visit >= 1 /\ visit <= PhaseCount
  BY SMT, PhaseCountAssumption DEF IInv, AcknowledgedInv, TypeOK, Phases
<1>2. CASE UNCHANGED <<visit, shm.arrived, shm.acknowledged>>
  BY <1>1, <1>2 DEF AcknowledgedRange
<1>3. CASE Arrive
  BY <1>1, <1>3 DEF Arrive, WorkerGoto, AcknowledgedRange, Shm
<1>4. CASE Acknowledge
  BY <1>1, <1>4 DEF Acknowledge, WorkerGoto, AcknowledgedRange, Shm
<1>5. CASE CompletePhase /\ visit < PhaseCount
  <2>1. /\ UNCHANGED <<shm.arrived, shm.acknowledged>> /\ visit' = visit + 1
        /\ visit \in shm.acknowledged
    BY <1>1, <1>5 DEF CompletePhase, IInv, AcknowledgedInv, Shm
  <2> QED
    BY <1>1, <2>1 DEF AcknowledgedRange
<1>6. CASE WorkerSide /\ ~Arrive /\ ~Acknowledge /\ ~(CompletePhase /\ visit < PhaseCount)
  <2>1. UNCHANGED <<visit, shm.arrived, shm.acknowledged>>
    BY <1>1, <1>6
    DEF WorkerSide, Worker, GateJump, Die, Killed, SetUp, SetUpRefused, SetUpFailed, pw_failure,
        PublishFailure, ProceedRefused, LoadProceed, LoadExitRequested, StartAttempt,
        FinishAttempt, CompletePhase, publish_done_and_exit, WorkerGoto, Shm
  <2> QED
    BY <1>2, <2>1
<1>7. CASE HostSide \/ UNCHANGED vars
  BY Zenon, <1>1, <1>2, <1>7, HostFrame DEF vars, workerVars
<1> QED
  BY <1>3, <1>4, <1>5, <1>6, <1>7, Sides

LEMMA AcknowledgedInvStep == IInv /\ [Next]_vars => AcknowledgedInv'
<1> SUFFICES ASSUME IInv, [Next]_vars PROVE AcknowledgedInv'
  OBVIOUS
<1> DEFINE Order ==
      /\ wpc \in BeforeAttempts => visit \notin shm.acknowledged
      /\ wpc \in {"attempting", "calling"} \/ shm.slots # firstSlot(visit)
           => visit \in shm.acknowledged
      /\ shm.failure.operation = "proceed" =>
           /\ shm.failure.index = visit /\ shm.slots = firstSlot(visit)
           /\ visit \notin shm.acknowledged
<1>1. /\ TypeOK /\ Order /\ shm \in Shm /\ shm.failure \in Failure
      /\ wpc \in BeforeAttempts => shm.slots = firstSlot(visit)
      /\ wpc \notin {"refusing", "failing"} \cup Leaving => shm.failure.operation = "none"
  BY SMT DEF IInv, AcknowledgedInv, WorkerInv, TypeOK, Shm, NoFailure
<1> SUFFICES Order'
  BY AppliedInvStep, AcknowledgedRangeStep DEF AcknowledgedInv
<1>2. CASE HostSide \/ UNCHANGED vars
  <2>1. UNCHANGED <<wpc, visit, shm.acknowledged, shm.slots, shm.failure>>
    BY <1>1, <1>2, HostFrame DEF vars, workerVars
  <2> QED
    BY <1>1, <2>1
<1>3. CASE SetUp \/ Arrive
  <2>1. /\ wpc \in BeforeAttempts
        /\ UNCHANGED <<visit, shm.acknowledged, shm.slots, shm.failure>>
        /\ wpc' \in BeforeAttempts
    BY ZenonT(60), <1>1, <1>3 DEF SetUp, Arrive, WorkerGoto, Shm, BeforeAttempts
  <2> QED
    BY <1>1, <2>1 DEF BeforeAttempts
<1>4. CASE SetUpRefused \/ SetUpFailed \/ ProceedRefused
  <2>1. /\ wpc \in BeforeAttempts /\ wpc' \in {"refusing", "failing"}
        /\ UNCHANGED <<visit, shm.acknowledged, shm.slots>>
        /\ shm'.failure.operation = "proceed" => shm'.failure.index = visit
    BY <1>1, <1>4
    DEF SetUpRefused, SetUpFailed, ProceedRefused, pw_failure, WorkerGoto, Shm, BeforeAttempts
  <2> QED
    BY <1>1, <2>1 DEF BeforeAttempts
<1>5. CASE PublishFailure
  <2>1. /\ UNCHANGED <<visit, shm.acknowledged, shm.slots>>
        /\ wpc' \in Leaving
        /\ shm'.failure.operation = shm.failure.operation
        /\ shm'.failure.index = shm.failure.index
    BY <1>1, <1>5 DEF PublishFailure, WorkerGoto, Shm, Failure, Leaving
  <2> QED
    BY <1>1, <2>1 DEF BeforeAttempts, Leaving
<1>6. CASE LoadProceed \/ LoadExitRequested \/ GateJump \/ Die \/ Killed
  <2>1. /\ UNCHANGED <<shm, visit>>
        /\ \/ wpc' = "exited"
           \/ wpc \in {"waiting", "loaded"} /\ wpc' \in {"waiting", "loaded", "acking"}
    BY <1>6 DEF LoadProceed, LoadExitRequested, GateJump, Die, Killed, WorkerGoto
  <2> QED
    BY <1>1, <2>1 DEF BeforeAttempts
<1>7. CASE Acknowledge \/ StartAttempt \/ FinishAttempt
  <2>1. /\ wpc \in {"acking", "attempting", "calling"}
        /\ UNCHANGED <<visit, shm.failure>>
        /\ wpc' \in {"attempting", "calling"} /\ visit \in shm'.acknowledged
    <3>1. CASE Acknowledge
      BY <1>1, <3>1 DEF Acknowledge, WorkerGoto, Shm
    <3>2. CASE StartAttempt \/ FinishAttempt
      BY <1>1, <3>2 DEF StartAttempt, FinishAttempt, WorkerGoto, Shm
    <3> QED
      BY <1>7, <3>1, <3>2
  <2> QED
    BY <1>1, <2>1 DEF BeforeAttempts, Leaving
<1>8. CASE CompletePhase
  <2>1. /\ wpc = "attempting" /\ shm.slots = endSlot(visit)
        /\ UNCHANGED <<shm.acknowledged, shm.slots, shm.failure>>
        /\ \/ visit' = visit + 1 /\ wpc' = "arriving"
           \/ visit' = visit /\ wpc' = "leaving"
    BY <1>1, <1>8 DEF CompletePhase, Shm
  <2>2. firstSlot(visit + 1) = endSlot(visit)
    BY <1>1, SlotFacts DEF TypeOK
  <2>3. visit + 1 \notin shm.acknowledged
    BY SMT, <1>1 DEF IInv, AcknowledgedInv, AcknowledgedRange, TypeOK, Phases
  <2> QED
    BY <1>1, <2>1, <2>2, <2>3 DEF BeforeAttempts, Leaving
<1>9. CASE publish_done_and_exit
  <2>1. /\ UNCHANGED <<visit, shm.acknowledged, shm.slots, shm.failure>>
        /\ wpc' \in Leaving
    BY <1>1, <1>9 DEF publish_done_and_exit, WorkerGoto, Shm, Leaving
  <2> QED
    BY <1>1, <2>1 DEF BeforeAttempts, Leaving
<1> QED
  BY Zenon, <1>2, <1>3, <1>4, <1>5, <1>6, <1>7, <1>8, <1>9, Sides DEF WorkerSide, Worker

-----------------------------------------------------------------------------
(* What the host notes of the phases.                                       *)

LEMMA ObserveFacts ==
  ASSUME NEW outputs \in [Phases -> PhaseOutput], NEW proc, NEW p \in Phases
  PROVE  LET after == observeAcknowledgement(outputs, proc)
         IN /\ after \in [Phases -> PhaseOutput]
            /\ after[p].collectionClosed = outputs[p].collectionClosed
            /\ after[p].releaseSet = outputs[p].releaseSet
            /\ after[p].violations = outputs[p].violations
            /\ proc.ownershipUnbroken /\ outputs[p].releaseSet /\ p \in shm.acknowledged =>
                 after[p].ownershipEstablished
<1>1. \A q \in Phases : /\ outputs[q] \in PhaseOutput
                        /\ [outputs[q] EXCEPT !.ownershipEstablished = TRUE] \in PhaseOutput
  BY Zenon DEF PhaseOutput
<1>2. observeAcknowledgement(outputs, proc) \in [Phases -> PhaseOutput]
  BY <1>1 DEF observeAcknowledgement
<1>3. observeAcknowledgement(outputs, proc)[p]
        = IF proc.ownershipUnbroken /\ outputs[p].releaseSet /\ p \in shm.acknowledged
          THEN [outputs[p] EXCEPT !.ownershipEstablished = TRUE] ELSE outputs[p]
  BY DEF observeAcknowledgement
<1>4. outputs[p] \in PhaseOutput
  OBVIOUS
<1> QED
  BY <1>2, <1>3, <1>4 DEF PhaseOutput

LEMMA ViolationTypes ==
  ASSUME NEW p
  PROVE  /\ checkPrematurePublication(p) \in SUBSET Violation
         /\ arrivalViolations(p) \in SUBSET Violation
  BY DEF checkPrematurePublication, arrivalViolations, Violation

LEMMA PollArrivalEffect ==
  ASSUME TypeOK, PollArrival
  PROVE  /\ nextPhase \in Phases /\ phaseOutputs' \in [Phases -> PhaseOutput]
         /\ \A p \in Phases :
              /\ phaseOutputs'[p].collectionClosed = phaseOutputs[p].collectionClosed
              /\ phaseOutputs'[p].releaseSet = phaseOutputs[p].releaseSet
              /\ phaseOutputs'[p].violations =
                   IF p = nextPhase
                   THEN phaseOutputs[p].violations \cup arrivalViolations(nextPhase)
                   ELSE phaseOutputs[p].violations
<1> DEFINE found == arrivalViolations(nextPhase)
           noted == [phaseOutputs EXCEPT ![nextPhase].arrived = TRUE,
                                         ![nextPhase].violations = @ \cup found]
           o == phaseOutputs[nextPhase]
           n == [arrived |-> TRUE, collectionClosed |-> o.collectionClosed,
                 releaseSet |-> o.releaseSet, ownershipEstablished |-> o.ownershipEstablished,
                 violations |-> o.violations \cup found]
<1>1. nextPhase \in Phases /\ phaseOutputs \in [Phases -> PhaseOutput]
  BY PhaseCountAssumption DEF PollArrival, TypeOK, Phases
<1>2. phaseOutputs' = observeAcknowledgement(noted, process)
  BY DEF PollArrival
<1>3. found \in SUBSET Violation
  BY ViolationTypes
<1> HIDE DEF found
<1>4. \A p \in Phases : phaseOutputs[p] \in PhaseOutput
  BY <1>1
<1>5. \A p \in Phases : p # nextPhase => noted[p] = phaseOutputs[p]
  BY <1>1
<1>6. noted[nextPhase] = [[o EXCEPT !.arrived = TRUE] EXCEPT !.violations = o.violations \cup found]
  BY <1>1, <1>4 DEF PhaseOutput
<1>7. noted[nextPhase] = n
  BY Zenon, <1>1, <1>4, <1>6 DEF PhaseOutput
<1>8. n \in PhaseOutput
  BY <1>1, <1>3, <1>4 DEF PhaseOutput
<1>9. noted \in [Phases -> PhaseOutput]
  BY <1>1, <1>4, <1>5, <1>7, <1>8
<1> HIDE DEF noted
<1>10. ASSUME NEW p \in Phases
       PROVE  /\ noted[p].collectionClosed = phaseOutputs[p].collectionClosed
              /\ noted[p].releaseSet = phaseOutputs[p].releaseSet
              /\ noted[p].violations = IF p = nextPhase THEN phaseOutputs[p].violations \cup found
                                       ELSE phaseOutputs[p].violations
  <2>1. CASE p = nextPhase
    BY <1>7, <2>1
  <2>2. CASE p # nextPhase
    BY <1>5, <2>2
  <2> QED
    BY <2>1, <2>2
<1>11. ASSUME NEW p \in Phases
       PROVE  /\ phaseOutputs' \in [Phases -> PhaseOutput]
              /\ phaseOutputs'[p].collectionClosed = noted[p].collectionClosed
              /\ phaseOutputs'[p].releaseSet = noted[p].releaseSet
              /\ phaseOutputs'[p].violations = noted[p].violations
  BY <1>2, <1>9, ObserveFacts
<1> QED
  BY Zenon, <1>1, <1>10, <1>11 DEF found

LEMMA CloseCollectionEffect ==
  ASSUME TypeOK, HostInv, CloseCollection
  PROVE  /\ nextPhase \in Phases /\ phaseOutputs' \in [Phases -> PhaseOutput]
         /\ \A p \in Phases :
              /\ phaseOutputs'[p].collectionClosed
                   = (p = nextPhase \/ phaseOutputs[p].collectionClosed)
              /\ phaseOutputs'[p].releaseSet = phaseOutputs[p].releaseSet
              /\ phaseOutputs'[p].violations =
                   IF p = nextPhase
                   THEN phaseOutputs[p].violations \cup checkPrematurePublication(nextPhase)
                   ELSE phaseOutputs[p].violations
<1> DEFINE found == checkPrematurePublication(nextPhase)
           o == phaseOutputs[nextPhase]
           n == [arrived |-> o.arrived, collectionClosed |-> TRUE,
                 releaseSet |-> o.releaseSet, ownershipEstablished |-> o.ownershipEstablished,
                 violations |-> o.violations \cup found]
<1>1. nextPhase \in Phases /\ phaseOutputs \in [Phases -> PhaseOutput]
  BY PhaseCountAssumption DEF CloseCollection, HostInv, AtPhase, TypeOK, Phases
<1>2. phaseOutputs' = [phaseOutputs EXCEPT ![nextPhase].collectionClosed = TRUE,
                                           ![nextPhase].violations = @ \cup found]
  BY DEF CloseCollection
<1>3. found \in SUBSET Violation
  BY ViolationTypes
<1> HIDE DEF found
<1>4. \A p \in Phases : phaseOutputs[p] \in PhaseOutput
  BY <1>1
<1>5. \A p \in Phases : p # nextPhase => phaseOutputs'[p] = phaseOutputs[p]
  BY <1>1, <1>2
<1>6. phaseOutputs'[nextPhase]
        = [[o EXCEPT !.collectionClosed = TRUE] EXCEPT !.violations = o.violations \cup found]
  BY <1>1, <1>2, <1>4 DEF PhaseOutput
<1>7. phaseOutputs'[nextPhase] = n
  BY Zenon, <1>1, <1>4, <1>6 DEF PhaseOutput
<1>8. n \in PhaseOutput
  BY <1>1, <1>3, <1>4 DEF PhaseOutput
<1>9. phaseOutputs' \in [Phases -> PhaseOutput]
  BY <1>1, <1>2, <1>4, <1>5, <1>7, <1>8
<1>10. ASSUME NEW p \in Phases
       PROVE  /\ phaseOutputs'[p].collectionClosed
                   = (p = nextPhase \/ phaseOutputs[p].collectionClosed)
              /\ phaseOutputs'[p].releaseSet = phaseOutputs[p].releaseSet
              /\ phaseOutputs'[p].violations =
                   IF p = nextPhase THEN phaseOutputs[p].violations \cup found
                   ELSE phaseOutputs[p].violations
  <2>1. CASE p = nextPhase
    <3>1. /\ phaseOutputs'[p].collectionClosed = TRUE
          /\ phaseOutputs'[p].releaseSet = phaseOutputs[p].releaseSet
          /\ phaseOutputs'[p].violations = phaseOutputs[p].violations \cup found
      BY <1>7, <2>1
    <3> QED
      BY Zenon, <2>1, <3>1
  <2>2. CASE p # nextPhase
    <3>1. phaseOutputs[p].collectionClosed \in BOOLEAN
      BY <1>4 DEF PhaseOutput
    <3> QED
      BY <1>5, <2>2, <3>1
  <2> QED
    BY <2>1, <2>2
<1> QED
  BY Zenon, <1>1, <1>9, <1>10 DEF found

LEMMA releaseVisitEffect ==
  ASSUME TypeOK, HostInv, releaseVisit
  PROVE  /\ nextPhase \in Phases /\ phaseOutputs' \in [Phases -> PhaseOutput]
         /\ \A p \in Phases :
              /\ phaseOutputs'[p].collectionClosed = phaseOutputs[p].collectionClosed
              /\ phaseOutputs'[p].releaseSet = (p = nextPhase \/ phaseOutputs[p].releaseSet)
              /\ phaseOutputs'[p].violations = phaseOutputs[p].violations
<1> DEFINE n == [phaseOutputs[nextPhase] EXCEPT !.releaseSet = TRUE]
<1>1. nextPhase \in Phases /\ phaseOutputs \in [Phases -> PhaseOutput]
  BY PhaseCountAssumption DEF releaseVisit, HostInv, AtPhase, TypeOK, Phases
<1>2. \A p \in Phases : phaseOutputs[p] \in PhaseOutput
  BY <1>1
<1>3. phaseOutputs' = [phaseOutputs EXCEPT ![nextPhase] = n]
  BY DEF releaseVisit
<1>4. n \in PhaseOutput
  BY Zenon, <1>1, <1>2 DEF PhaseOutput
<1>5. /\ n.collectionClosed = phaseOutputs[nextPhase].collectionClosed /\ n.releaseSet = TRUE
      /\ n.violations = phaseOutputs[nextPhase].violations
  BY <1>1, <1>2 DEF PhaseOutput
<1>6. \A p \in Phases : phaseOutputs[p].releaseSet \in BOOLEAN
  BY <1>2 DEF PhaseOutput
<1> HIDE DEF n
<1> QED
  BY Zenon, <1>1, <1>3, <1>4, <1>5, <1>6

\* Every other step of the host observes at most.
LEMMA OutputsFrame ==
  ASSUME TypeOK, HostSide, ~PollArrival, ~CloseCollection, ~releaseVisit
  PROVE  /\ phaseOutputs' \in [Phases -> PhaseOutput]
         /\ \A p \in Phases :
              /\ phaseOutputs'[p].collectionClosed = phaseOutputs[p].collectionClosed
              /\ phaseOutputs'[p].releaseSet = phaseOutputs[p].releaseSet
              /\ phaseOutputs'[p].violations = phaseOutputs[p].violations
<1>1. phaseOutputs \in [Phases -> PhaseOutput]
  BY DEF TypeOK
<1>2. \/ phaseOutputs' = phaseOutputs
      \/ phaseOutputs' = observeAcknowledgement(phaseOutputs, process)
  BY DEF HostSide, Host, HostCrash, TimePasses, WriteComplete, WriteFailed, PollNothing,
         WaitBeforeCollection, WaitAfterCollection, waitChild, RecheckBeforeRelease,
         ObserveDone, ExitCheck, ExitCheckNotDue, SleepOrExpire, requestExit, Grace, Terminate,
         Reap, Reconcile, CollectHeader, CollectSlots, hostVars
<1>3. 1 \in Phases
  BY PhaseCountAssumption DEF Phases
<1>4. CASE phaseOutputs' = phaseOutputs
  BY <1>1, <1>4
<1>5. CASE phaseOutputs' = observeAcknowledgement(phaseOutputs, process)
  <2>1. ASSUME NEW p \in Phases
        PROVE  /\ phaseOutputs' \in [Phases -> PhaseOutput]
               /\ phaseOutputs'[p].collectionClosed = phaseOutputs[p].collectionClosed
               /\ phaseOutputs'[p].releaseSet = phaseOutputs[p].releaseSet
               /\ phaseOutputs'[p].violations = phaseOutputs[p].violations
    BY <1>1, <1>5, ObserveFacts
  <2> QED
    BY <1>3, <2>1
<1> QED
  BY <1>2, <1>4, <1>5

-----------------------------------------------------------------------------
(* Types.                                                                   *)

LEMMA WaitedFacts ==
  ASSUME process \in Process, NEW o
  PROVE  /\ Waited(o) \in Process
         /\ Waited(o).reaped = (o = "reaped")
         /\ Waited(o).childUnavailable = (process.childUnavailable \/ o = "unavailable")
         /\ Waited(o).ownershipUnbroken
              = (process.ownershipUnbroken /\ o \notin {"failed", "unavailable"})
         /\ Waited(o).kill = process.kill
         /\ [Waited(o) EXCEPT !.kill = "failed"] \in Process
<1> DEFINE r == o = "reaped"
           u == process.childUnavailable \/ o = "unavailable"
           w == process.ownershipUnbroken /\ o \notin {"failed", "unavailable"}
<1>1. Waited(o) = [process EXCEPT !.reaped = r, !.childUnavailable = u, !.ownershipUnbroken = w]
  BY DEF Waited
<1>2. r \in BOOLEAN /\ u \in BOOLEAN /\ w \in BOOLEAN
  OBVIOUS
<1> HIDE DEF r, u, w
<1>3. process.kill \in {"none", "sent", "failed"}
  BY DEF Process
<1>4. Waited(o) = [reaped |-> r, childUnavailable |-> u, ownershipUnbroken |-> w,
                   kill |-> process.kill]
  BY Zenon, <1>1 DEF Process
<1>5. Waited(o) \in Process
  BY <1>2, <1>3, <1>4 DEF Process
<1>6. /\ Waited(o).reaped = r /\ Waited(o).childUnavailable = u /\ Waited(o).ownershipUnbroken = w
      /\ Waited(o).kill = process.kill
  BY <1>4
<1>7. [Waited(o) EXCEPT !.kill = "failed"] \in Process
  BY <1>5 DEF Process
<1> QED
  BY <1>5, <1>6, <1>7 DEF r, u, w

LEMMA ShmStep == IInv /\ [Next]_vars => shm' \in Shm
<1> SUFFICES ASSUME IInv, [Next]_vars PROVE shm' \in Shm
  BY ZenonT(60)
<1>1. /\ TypeOK /\ shm \in Shm /\ shm.failure \in Failure /\ visit \in Phases
      /\ shm.slots \in Nat /\ shm.slots <= endSlot(visit)
      /\ wpc = "calling" => shm.slots < endSlot(visit)
      /\ hpc \in AtPhase => nextPhase <= PhaseCount
  BY SMT DEF IInv, TypeOK, Shm, WorkerInv, HostInv
<1>2. /\ endSlot(visit) \in Nat /\ endSlot(visit) <= SlotCount /\ SlotCount \in Nat
      /\ visit \in 0..PhaseCount
  BY <1>1, SlotFacts, PhaseCountAssumption DEF Phases
<1>3. CASE UNCHANGED shm
  BY <1>1, <1>3
<1>4. CASE SetUp \/ requestExit
  BY ZenonT(60), <1>1, <1>4 DEF SetUp, requestExit, Shm
<1>5. CASE SetUpRefused \/ SetUpFailed
  <2>1. [state |-> "writing", operation |-> "setup", index |-> 0] \in Failure
    BY PhaseCountAssumption DEF Failure
  <2>2. shm' = [shm EXCEPT !.failure = [state |-> "writing", operation |-> "setup", index |-> 0]]
    BY <1>5 DEF SetUpRefused, SetUpFailed, pw_failure
  <2> QED
    BY <1>1, <2>1, <2>2 DEF Shm
<1>6. CASE ProceedRefused
  <2>1. [state |-> "writing", operation |-> "proceed", index |-> visit] \in Failure
    BY <1>2 DEF Failure
  <2> QED
    BY <1>1, <1>6, <2>1 DEF ProceedRefused, pw_failure, Shm
<1>7. CASE PublishFailure
  <2>1. [shm.failure EXCEPT !.state = "published"] \in Failure
    BY <1>1 DEF Failure
  <2> QED
    BY <1>1, <1>7, <2>1 DEF PublishFailure, Shm
<1>8. CASE Arrive
  <2>1. shm' = [[shm EXCEPT !.attempt = 0] EXCEPT !.arrived = shm.arrived \cup {visit}]
    BY <1>1, <1>8 DEF Arrive, Shm
  <2>2. [shm EXCEPT !.attempt = 0] \in Shm
    BY <1>1, <1>2 DEF Shm
  <2>3. shm.arrived \cup {visit} \in SUBSET Phases
    BY <1>1 DEF Shm
  <2> QED
    BY Zenon, <2>1, <2>2, <2>3 DEF Shm
<1>9. CASE Acknowledge
  <2>1. shm' = [[shm EXCEPT !.acknowledged = shm.acknowledged \cup {visit}]
                  EXCEPT !.proceed_observed = visit]
    BY <1>1, <1>9 DEF Acknowledge, Shm
  <2>2. shm.acknowledged \cup {visit} \in SUBSET Phases
    BY <1>1 DEF Shm
  <2>3. [shm EXCEPT !.acknowledged = shm.acknowledged \cup {visit}] \in Shm
    BY <1>1, <2>2 DEF Shm
  <2> QED
    BY Zenon, <1>2, <2>1, <2>3 DEF Shm
<1>10. CASE StartAttempt
  BY <1>1, <1>2, <1>10 DEF StartAttempt, Shm
<1>11. CASE FinishAttempt
  BY <1>1, <1>2, <1>11 DEF FinishAttempt, Shm
<1>12. CASE CompletePhase
  <2>1. shm.completed \cup {visit} \in SUBSET Phases
    BY <1>1 DEF Shm
  <2> QED
    BY <1>1, <1>12, <2>1 DEF CompletePhase, Shm
<1>13. CASE publish_done_and_exit
  BY Zenon, <1>1, <1>13 DEF publish_done_and_exit, Shm
<1>14. CASE releaseVisit
  <2>1. nextPhase \in 0..PhaseCount
    BY <1>1, <1>14, PhaseCountAssumption DEF releaseVisit, AtPhase, TypeOK
  <2> QED
    BY <1>1, <1>14, <2>1 DEF releaseVisit, Shm
<1>15. CASE HostSide /\ ~requestExit /\ ~releaseVisit
  <2>1. UNCHANGED shm
    BY <1>15
    DEF HostSide, Host, HostCrash, TimePasses, WriteComplete, WriteFailed, PollArrival,
      PollNothing, WaitBeforeCollection, CloseCollection, WaitAfterCollection, waitChild,
      RecheckBeforeRelease, ObserveDone, ExitCheck, ExitCheckNotDue, SleepOrExpire, Grace,
      Terminate, Reap, Reconcile, CollectHeader, CollectSlots
  <2> QED
    BY ZenonT(60), <1>3, <2>1
<1>16. CASE LoadProceed \/ LoadExitRequested \/ GateJump \/ Die \/ Killed
  BY <1>1, <1>16 DEF LoadProceed, LoadExitRequested, GateJump, Die, Killed
<1> QED
  BY ZenonT(60), <1>3, <1>4, <1>5, <1>6, <1>7, <1>8, <1>9, <1>10, <1>11, <1>12, <1>13, <1>14, <1>15, <1>16,
     Sides
  DEF WorkerSide, Worker, vars

LEMMA OutputTypes ==
  ASSUME TypeOK
  PROVE  /\ CollectHeader => output' \in Output
         /\ CollectSlots /\ output \in Output =>
              /\ output' \in Output
              /\ UNCHANGED <<output.basis, output.applied, output.done, output.acknowledged,
                             output.completed>>
              /\ output'.slots = shm.slots /\ output'.failure = shm.failure
<1>1. /\ shm.applied \in BOOLEAN /\ shm.done \in BOOLEAN /\ shm.arrived \in SUBSET Phases
      /\ shm.acknowledged \in SUBSET Phases /\ shm.completed \in SUBSET Phases
      /\ shm.slots \in 0..SlotCount /\ shm.failure \in Failure
  BY DEF TypeOK, Shm
<1>2. 0 \in 0..SlotCount /\ NoFailure \in Failure
  <2>1. SlotCount \in Nat
    BY PhaseCountAssumption, SlotsPerPhaseAssumption DEF SlotCount
  <2> QED
    BY <2>1, PhaseCountAssumption DEF NoFailure, Failure
<1> DEFINE basis == IF process.reaped THEN "after_confirmed_reap" ELSE "execution_may_continue"
<1>3. basis \in {"after_confirmed_reap", "execution_may_continue"}
  BY Zenon
<1>4. ASSUME CollectHeader PROVE output' \in Output
  <2>1. output' = [basis |-> basis, applied |-> shm.applied, done |-> shm.done,
                   arrived |-> shm.arrived, acknowledged |-> shm.acknowledged,
                   completed |-> shm.completed, slots |-> 0, failure |-> NoFailure]
    BY <1>4 DEF CollectHeader
  <2> HIDE DEF basis
  <2> QED
    BY Zenon, <1>1, <1>2, <1>3, <2>1 DEF Output
<1>5. ASSUME CollectSlots, output \in Output
      PROVE  /\ output' \in Output
             /\ UNCHANGED <<output.basis, output.applied, output.done, output.acknowledged,
                            output.completed>>
             /\ output'.slots = shm.slots /\ output'.failure = shm.failure
  <2>1. output' = [[output EXCEPT !.slots = shm.slots] EXCEPT !.failure = shm.failure]
    BY <1>5 DEF CollectSlots, Output
  <2>2. [output EXCEPT !.slots = shm.slots] \in Output
    BY ZenonT(60), <1>1, <1>5 DEF Output
  <2> QED
    BY Zenon, <1>1, <1>5, <2>1, <2>2 DEF Output
<1> QED
  BY <1>4, <1>5

\* What a step of the host makes of the process: a wait, a signal, or nothing.
LEMMA ProcessStep ==
  ASSUME TypeOK, HostSide
  PROVE  \/ process' = process
         \/ hpc = "terminate" /\ process' = [process EXCEPT !.kill = "sent"]
         \/ \E o \in WaitObservation :
              \/ process' = Waited(o)
              \/ hpc = "terminate" /\ process' = [Waited(o) EXCEPT !.kill = "failed"]
  BY DEF HostSide, Host, HostCrash, TimePasses, WriteComplete, WriteFailed, PollArrival,
      PollNothing, WaitBeforeCollection, CloseCollection, WaitAfterCollection, waitChild,
      RecheckBeforeRelease, releaseVisit, ObserveDone, ExitCheck, ExitCheckNotDue, SleepOrExpire,
      requestExit, Grace, Terminate, Reap, Reconcile, CollectHeader, CollectSlots, hostVars

LEMMA HostTypes ==
  ASSUME IInv, HostSide
  PROVE  /\ hpc' \in {"transfer", "poll", "wait1", "hook", "wait2", "recheck", "release",
                      "observe", "exitcheck", "expire", "request_exit", "grace", "terminate",
                      "reap", "reconcile", "collect", "collect_slots", "returned", "crashed"}
         /\ nextPhase' \in 1..PhaseCount + 1
         /\ stop' \in {"sentinel_deadline", "policy_transfer", "child_reaped", "wait_error", "done"}
         /\ transfer' \in {"open", "complete", "cut"}
         /\ late' \subseteq {"sentinel", "grace", "proceed"}
         /\ process' \in Process
         /\ output' \in Output \cup {NoOutput}
         /\ phaseOutputs' \in [Phases -> PhaseOutput]
<1>1. /\ TypeOK /\ HostInv /\ process \in Process
      /\ hpc = "collect_slots" => output \in Output
  BY ZenonT(60) DEF IInv, TypeOK, ProcessInv
<1>2. phaseOutputs' \in [Phases -> PhaseOutput]
  BY <1>1, PollArrivalEffect, CloseCollectionEffect, releaseVisitEffect, OutputsFrame
<1>3. process' \in Process
  <2>1. ASSUME NEW o PROVE Waited(o) \in Process /\ [Waited(o) EXCEPT !.kill = "failed"] \in Process
    BY <1>1, WaitedFacts
  <2>2. [process EXCEPT !.kill = "sent"] \in Process
    BY <1>1 DEF Process
  <2> QED
    BY Zenon, <1>1, <2>1, <2>2, ProcessStep
<1>4. output' \in Output \cup {NoOutput}
  <2>1. CASE CollectHeader \/ CollectSlots
    BY <1>1, <2>1, OutputTypes DEF CollectSlots
  <2>2. CASE ~CollectHeader /\ ~CollectSlots
    <3>1. output' = output
      BY <2>2
      DEF HostSide, Host, HostCrash, TimePasses, WriteComplete, WriteFailed, PollArrival,
        PollNothing, WaitBeforeCollection, CloseCollection, WaitAfterCollection, waitChild,
        RecheckBeforeRelease, releaseVisit, ObserveDone, ExitCheck, ExitCheckNotDue,
        SleepOrExpire, requestExit, Grace, Terminate, Reap, Reconcile, hostVars
    <3> QED
      BY ZenonT(60), <1>1, <3>1 DEF TypeOK
  <2> QED
    BY <2>1, <2>2
<1>5. nextPhase' \in 1..PhaseCount + 1
  <2>1. /\ nextPhase \in 1..PhaseCount + 1
        /\ hpc \in {"recheck", "release"} => nextPhase <= PhaseCount
    BY Zenon, <1>1 DEF TypeOK, HostInv, AtPhase
  <2>2. \/ nextPhase' = nextPhase \/ nextPhase' = PhaseCount + 1
        \/ hpc \in {"recheck", "release"} /\ nextPhase' = nextPhase + 1
    BY ZenonT(60) DEF HostSide, Host, HostCrash, TimePasses, WriteComplete, WriteFailed, PollArrival,
        PollNothing, WaitBeforeCollection, CloseCollection, WaitAfterCollection, waitChild,
        RecheckBeforeRelease, releaseVisit, ObserveDone, ExitCheck, ExitCheckNotDue,
        SleepOrExpire, requestExit, Grace, Terminate, Reap, Reconcile, CollectHeader,
        CollectSlots, hostVars
  <2> QED
    BY SMTT(60), <2>1, <2>2, PhaseCountAssumption
<1>6. /\ stop' \in {"sentinel_deadline", "policy_transfer", "child_reaped", "wait_error", "done"}
      /\ transfer' \in {"open", "complete", "cut"}
  <2>1. /\ stop \in {"sentinel_deadline", "policy_transfer", "child_reaped", "wait_error", "done"}
        /\ transfer \in {"open", "complete", "cut"}
    BY <1>1 DEF TypeOK
  <2> QED
    BY <2>1
    DEF HostSide, Host, HostCrash, TimePasses, WriteComplete, WriteFailed, PollArrival,
        PollNothing, WaitBeforeCollection, CloseCollection, WaitAfterCollection, waitChild,
        RecheckBeforeRelease, releaseVisit, ObserveDone, ExitCheck, ExitCheckNotDue,
        SleepOrExpire, requestExit, Grace, Terminate, Reap, Reconcile, CollectHeader,
        CollectSlots, hostVars
<1>7. late' \subseteq {"sentinel", "grace", "proceed"}
  <2>1. late \subseteq {"sentinel", "grace", "proceed"}
    BY ZenonT(60), <1>1 DEF TypeOK
  <2>2. late' = late \/ \E x \in {"sentinel", "grace", "proceed"} : late' = late \cup {x}
    BY DEF HostSide, Host, HostCrash, TimePasses, WriteComplete, WriteFailed, PollArrival,
        PollNothing, WaitBeforeCollection, CloseCollection, WaitAfterCollection, waitChild,
        RecheckBeforeRelease, releaseVisit, ObserveDone, ExitCheck, ExitCheckNotDue,
        SleepOrExpire, requestExit, Grace, Terminate, Reap, Reconcile, CollectHeader,
        CollectSlots
  <2> QED
    BY Zenon, <2>1, <2>2
<1>8. hpc' \in {"transfer", "poll", "wait1", "hook", "wait2", "recheck", "release",
                "observe", "exitcheck", "expire", "request_exit", "grace", "terminate",
                "reap", "reconcile", "collect", "collect_slots", "returned", "crashed"}
  <2>1. CASE hpc' = hpc
    BY ZenonT(60), <1>1, <2>1 DEF TypeOK
  <2>2. CASE hpc' # hpc
    BY <2>2
    DEF HostSide, Host, HostCrash, TimePasses, WriteComplete, WriteFailed, PollArrival,
        PollNothing, WaitBeforeCollection, CloseCollection, WaitAfterCollection, waitChild,
        RecheckBeforeRelease, releaseVisit, ObserveDone, ExitCheck, ExitCheckNotDue,
        SleepOrExpire, requestExit, Grace, Terminate, Reap, Reconcile, CollectHeader,
        CollectSlots, hostVars
  <2> QED
    BY <2>1, <2>2
<1> QED
  BY Zenon, <1>2, <1>3, <1>4, <1>5, <1>6, <1>7, <1>8

LEMMA WorkerTypes ==
  ASSUME TypeOK, WorkerSide
  PROVE  /\ wpc' \in {"setup", "refusing", "failing", "arriving", "waiting", "loaded", "acking",
                      "attempting", "calling", "leaving", "exiting", "exited"}
         /\ visit' \in Phases /\ seen' \in 0..PhaseCount
         /\ late' \subseteq {"sentinel", "grace", "proceed"}
         /\ early' \subseteq Phases /\ jumped' \in BOOLEAN
<1> USE DEF WorkerSide, Worker, GateJump, Die, Killed, SetUp, SetUpRefused, SetUpFailed,
      pw_failure, PublishFailure, Arrive, ProceedRefused, LoadProceed, LoadExitRequested,
      Acknowledge, StartAttempt, FinishAttempt, CompletePhase, publish_done_and_exit, WorkerGoto
<1>1. /\ visit \in Phases /\ visit \in Nat /\ visit >= 1 /\ visit <= PhaseCount
      /\ seen \in 0..PhaseCount /\ early \subseteq Phases /\ jumped \in BOOLEAN
      /\ late \subseteq {"sentinel", "grace", "proceed"} /\ shm.proceed \in 0..PhaseCount
  BY SMTT(60), PhaseCountAssumption DEF TypeOK, Phases, Shm
<1>2. wpc' \in {"setup", "refusing", "failing", "arriving", "waiting", "loaded", "acking",
                "attempting", "calling", "leaving", "exiting", "exited"}
  BY DEF TypeOK
<1>3. visit' = visit \/ (visit < PhaseCount /\ visit' = visit + 1)
  OBVIOUS
<1>4. seen' = seen \/ seen' = shm.proceed \/ seen' = visit
  OBVIOUS
<1>5. late' = late \/ late' = late \ {"proceed"}
  OBVIOUS
<1>6. early' = early \/ early' = early \cup {visit}
  OBVIOUS
<1>7. jumped' = jumped \/ jumped' = TRUE
  OBVIOUS
<1>8. visit' \in Phases /\ seen' \in 0..PhaseCount
  BY ONLY <1>1, <1>3, <1>4, PhaseCountAssumption DEF Phases
<1>9. late' \subseteq {"sentinel", "grace", "proceed"} /\ early' \subseteq Phases
  BY ONLY Zenon, <1>1, <1>5, <1>6
<1>10. jumped' \in BOOLEAN
  BY ONLY Zenon, <1>1, <1>7
<1> QED
  BY ONLY <1>2, <1>8, <1>9, <1>10

LEMMA TypeStep == IInv /\ [Next]_vars => TypeOK'
<1> SUFFICES ASSUME IInv, [Next]_vars PROVE TypeOK'
  OBVIOUS
<1>1. TypeOK /\ shm' \in Shm
  BY Zenon, ShmStep DEF IInv
<1>2. CASE HostSide
  BY Zenon, <1>1, <1>2, HostTypes, HostFrame DEF TypeOK
<1>3. CASE WorkerSide
  <2>1. UNCHANGED <<hpc, nextPhase, phaseOutputs, stop, process, transfer, output>>
    BY Zenon, <1>1, <1>3, WorkerFrame
  <2>2. /\ (hpc \in {"transfer", "poll", "wait1", "hook", "wait2", "recheck", "release", "observe",
                   "exitcheck", "expire", "request_exit", "grace", "terminate", "reap",
                   "reconcile", "collect", "collect_slots", "returned", "crashed"})'
        /\ (nextPhase \in 1..PhaseCount + 1)' /\ (phaseOutputs \in [Phases -> PhaseOutput])'
        /\ (stop \in {"sentinel_deadline", "policy_transfer", "child_reaped", "wait_error",
                     "done"})'
        /\ (process \in Process)' /\ (transfer \in {"open", "complete", "cut"})'
        /\ (output \in Output \cup {NoOutput})'
    <3>1. /\ hpc' = hpc /\ nextPhase' = nextPhase /\ phaseOutputs' = phaseOutputs
          /\ stop' = stop /\ process' = process /\ transfer' = transfer /\ output' = output
      BY ONLY Zenon, <2>1
    <3> QED
      BY ONLY ZenonT(60), <1>1, <3>1 DEF TypeOK
  <2>3. /\ wpc' \in {"setup", "refusing", "failing", "arriving", "waiting", "loaded", "acking",
                     "attempting", "calling", "leaving", "exiting", "exited"}
        /\ visit' \in Phases /\ seen' \in 0..PhaseCount
        /\ late' \subseteq {"sentinel", "grace", "proceed"}
        /\ early' \subseteq Phases /\ jumped' \in BOOLEAN
    BY Zenon, <1>1, <1>3, WorkerTypes
  <2> QED
    BY ONLY Zenon, <1>1, <2>2, <2>3 DEF TypeOK
<1>4. CASE UNCHANGED vars
  BY <1>1, <1>4 DEF TypeOK, vars, workerVars, hostVars
<1> QED
  BY <1>2, <1>3, <1>4, Sides

-----------------------------------------------------------------------------
(* Attempts that came too early.                                            *)

LEMMA SlotBehind ==
  ASSUME TypeOK, WorkerInv, NEW p \in Phases, p <= visit
  PROVE  /\ firstSlot(p) \in Nat /\ firstSlot(p) <= shm.slots
         /\ p < visit => firstSlot(p) < shm.slots
<1>1. visit \in Phases /\ shm.slots \in Nat /\ firstSlot(visit) <= shm.slots
  BY SMT DEF TypeOK, WorkerInv, Shm
<1>2. /\ firstSlot(p) \in Nat /\ endSlot(p) \in Nat /\ firstSlot(p) < endSlot(p)
      /\ firstSlot(visit) \in Nat
  BY <1>1, SlotFacts
<1>3. CASE p = visit
  BY <1>1, <1>2, <1>3, PhaseCountAssumption DEF Phases
<1>4. CASE p < visit
  BY <1>1, <1>2, <1>4, SlotOrder
<1> QED
  BY SMTT(60), <1>1, <1>3, <1>4, PhaseCountAssumption DEF Phases

LEMMA EarlyInvStep == IInv /\ [Next]_vars => EarlyInv'
<1> SUFFICES ASSUME IInv, [Next]_vars PROVE EarlyInv'
  OBVIOUS
<1>1. /\ TypeOK /\ WorkerInv /\ HostInv /\ EarlyInv /\ shm \in Shm
      /\ visit \in Phases /\ visit \in Nat
      /\ shm.slots \in Nat /\ shm.attempt \in Nat /\ early \subseteq Phases
  BY SMTT(60), PhaseCountAssumption DEF IInv, TypeOK, Shm, Phases, SlotCount
<1>2. CASE HostSide
  <2>1. UNCHANGED <<wpc, visit, early, shm.attempt, shm.slots>>
    BY <1>1, <1>2, HostFrame
  <2>2. ASSUME NEW p \in early, phaseOutputs'[p].collectionClosed
        PROVE  phaseOutputs'[p].violations # {}
    <3>1. /\ p \in Phases /\ (shm.slots > firstSlot(p) \/ shm.attempt > firstSlot(p))
          /\ phaseOutputs[p].collectionClosed => phaseOutputs[p].violations # {}
      BY Zenon, <1>1 DEF EarlyInv
    <3>2. CASE CloseCollection
      <4>1. "attempt_before_release" \in checkPrematurePublication(p)
        BY <3>1 DEF checkPrematurePublication
      <4> QED
        BY Zenon, <1>1, <2>2, <3>1, <3>2, <4>1, CloseCollectionEffect
    <3>3. CASE PollArrival
      BY Zenon, <1>1, <2>2, <3>1, <3>3, PollArrivalEffect
    <3>4. CASE releaseVisit
      BY Zenon, <1>1, <2>2, <3>1, <3>4, releaseVisitEffect
    <3>5. CASE ~PollArrival /\ ~CloseCollection /\ ~releaseVisit
      BY <1>1, <1>2, <2>2, <3>1, <3>5, OutputsFrame
    <3> QED
      BY Zenon, <3>2, <3>3, <3>4, <3>5
  <2> QED
    BY <1>1, <2>1, <2>2 DEF EarlyInv
<1>3. CASE UNCHANGED vars
  BY Zenon, <1>1, <1>3 DEF EarlyInv, vars, workerVars, hostVars
<1>4. CASE Arrive
  <2>1. /\ wpc \in BeforeAttempts /\ UNCHANGED <<visit, early, phaseOutputs, shm.slots>>
        /\ shm'.attempt = 0 /\ wpc' = "waiting"
    BY <1>1, <1>4 DEF Arrive, WorkerGoto, hostVars, Shm, BeforeAttempts
  <2>2. ASSUME NEW p \in early PROVE p < visit /\ shm.slots > firstSlot(p)
    <3>1. p \in Phases /\ p < visit
      BY Zenon, <1>1, <2>1 DEF EarlyInv
    <3> QED
      BY SMTT(60), <1>1, <3>1, SlotBehind DEF Phases
  <2> QED
    BY <1>1, <2>1, <2>2 DEF EarlyInv
<1>5. CASE StartAttempt
  <2>1. /\ wpc = "attempting" /\ UNCHANGED <<visit, phaseOutputs, shm.slots>>
        /\ shm'.attempt = shm.slots + 1 /\ wpc' = "calling"
        /\ early' = IF phaseOutputs[visit].collectionClosed THEN early ELSE early \cup {visit}
    BY Zenon, <1>1, <1>5 DEF StartAttempt, hostVars, Shm
  <2>2. ASSUME NEW p \in early'
        PROVE  /\ p <= visit /\ shm'.attempt > firstSlot(p)
               /\ phaseOutputs[p].collectionClosed => phaseOutputs[p].violations # {}
    <3>1. /\ p \in Phases /\ p <= visit
          /\ phaseOutputs[p].collectionClosed => phaseOutputs[p].violations # {}
      BY SMTT(60), <1>1, <2>1 DEF EarlyInv
    <3> QED
      BY SMTT(60), <1>1, <2>1, <3>1, SlotBehind
  <2> QED
    BY <1>1, <2>1, <2>2 DEF EarlyInv, BeforeAttempts
<1>6. CASE FinishAttempt
  <2>1. /\ wpc = "calling" /\ UNCHANGED <<visit, early, phaseOutputs, shm.attempt>>
        /\ shm'.slots = shm.slots + 1 /\ wpc' = "attempting"
    BY Zenon, <1>1, <1>6 DEF FinishAttempt, WorkerGoto, hostVars, Shm
  <2>2. ASSUME NEW p \in early PROVE shm'.slots > firstSlot(p)
    BY SMTT(60), <1>1, <2>1, SlotBehind DEF EarlyInv
  <2> QED
    BY <1>1, <2>1, <2>2 DEF EarlyInv, BeforeAttempts
<1>7. CASE CompletePhase
  <2>1. /\ wpc = "attempting" /\ UNCHANGED <<early, phaseOutputs, shm.attempt, shm.slots>>
        /\ \/ visit' = visit + 1 /\ wpc' = "arriving"
           \/ visit' = visit /\ wpc' = "leaving"
    BY <1>1, <1>7 DEF CompletePhase, hostVars, Shm
  <2>2. ASSUME NEW p \in early PROVE p \in Nat /\ p <= visit
    BY SMTT(60), <1>1, PhaseCountAssumption DEF EarlyInv, Phases
  <2> QED
    BY <1>1, <2>1, <2>2 DEF EarlyInv, BeforeAttempts
<1>8. CASE WorkerSide /\ ~Arrive /\ ~StartAttempt /\ ~FinishAttempt /\ ~CompletePhase
  <2>1. /\ UNCHANGED <<visit, early, phaseOutputs, shm.attempt, shm.slots>>
        /\ wpc' \in {"calling", "exited"} => wpc' = "exited"
        /\ wpc' # "exited" => wpc \notin {"calling", "exited"}
        /\ wpc' \in BeforeAttempts => wpc \in BeforeAttempts
    BY Zenon, <1>1, <1>8
    DEF WorkerSide, Worker, GateJump, Die, Killed, SetUp, SetUpRefused, SetUpFailed, pw_failure,
        PublishFailure, ProceedRefused, LoadProceed, LoadExitRequested, Acknowledge,
        publish_done_and_exit, WorkerGoto, hostVars, Shm, BeforeAttempts
  <2> QED
    BY Zenon, <1>1, <2>1 DEF EarlyInv
<1> QED
  BY Zenon, <1>2, <1>3, <1>4, <1>5, <1>6, <1>7, <1>8, Sides

-----------------------------------------------------------------------------
(* The host.                                                                *)

LEMMA HostInvStep == IInv /\ [Next]_vars => HostInv'
<1> SUFFICES ASSUME IInv, [Next]_vars PROVE HostInv'
  OBVIOUS
<1>1. /\ TypeOK /\ HostInv /\ AppliedInv /\ shm \in Shm
      /\ nextPhase \in Nat /\ nextPhase >= 1 /\ nextPhase <= PhaseCount + 1
      /\ shm.proceed \in Nat /\ shm.proceed <= PhaseCount /\ PhaseCount \in Nat
  BY SMT, PhaseCountAssumption DEF IInv, AcknowledgedInv, TypeOK, Shm
<1>2. ASSUME NEW p, p \in 1..PhaseCount PROVE p \in Phases
  BY Zenon, <1>2 DEF Phases
<1>3. CASE WorkerSide
  <2>1. /\ UNCHANGED <<hpc, nextPhase, phaseOutputs>> /\ shm'.proceed = shm.proceed
    BY <1>1, <1>3, WorkerFrame
  <2>2. /\ shm.arrived \subseteq shm'.arrived /\ shm.completed \subseteq shm'.completed
        /\ shm.applied => shm'.applied
    BY ZenonT(60), <1>1, <1>3
    DEF WorkerSide, Worker, GateJump, Die, Killed, SetUp, SetUpRefused, SetUpFailed, pw_failure,
        PublishFailure, Arrive, ProceedRefused, LoadProceed, LoadExitRequested, Acknowledge,
        StartAttempt, FinishAttempt, CompletePhase, publish_done_and_exit, WorkerGoto, Shm
  <2> QED
    BY <1>1, <2>1, <2>2 DEF HostInv
<1>4. CASE UNCHANGED vars
  BY <1>1, <1>4 DEF HostInv, vars, hostVars
<1>5. CASE releaseVisit
  <2>1. /\ hpc = "release" /\ nextPhase' = nextPhase + 1 /\ hpc' = "observe"
        /\ shm'.proceed = nextPhase /\ shm'.applied = shm.applied
    BY Zenon, <1>1, <1>5 DEF releaseVisit, Shm
  <2>2. /\ nextPhase <= PhaseCount /\ nextPhase \in shm.arrived
        /\ phaseOutputs[nextPhase].collectionClosed
        /\ \A p \in 1..nextPhase - 1 : phaseOutputs[p].collectionClosed
    BY Zenon, <1>1, <2>1 DEF HostInv, AtPhase
  <2>3. shm.applied
    BY Zenon, <1>1, <2>2 DEF AppliedInv
  <2>4. ASSUME NEW p \in Phases
        PROVE  /\ phaseOutputs'[p].collectionClosed = phaseOutputs[p].collectionClosed
               /\ phaseOutputs'[p].releaseSet = (p = nextPhase \/ phaseOutputs[p].releaseSet)
    BY <1>1, <1>5, releaseVisitEffect
  <2>5. ASSUME NEW p \in 1..nextPhase PROVE phaseOutputs'[p].collectionClosed
    <3>1. p \in Phases /\ (p = nextPhase \/ p \in 1..nextPhase - 1)
      BY SMTT(60), <1>1, <2>2 DEF Phases
    <3> QED
      BY <2>2, <2>4, <3>1
  <2>6. ASSUME NEW p \in Phases, phaseOutputs'[p].releaseSet
        PROVE  phaseOutputs'[p].collectionClosed /\ shm'.applied
    BY Zenon, <1>1, <2>1, <2>2, <2>3, <2>4, <2>6 DEF HostInv
  <2> QED
    BY <1>1, <2>1, <2>5, <2>6 DEF HostInv, AtPhase
<1>6. CASE CloseCollection
  <2>1. /\ hpc = "hook" /\ nextPhase' = nextPhase /\ hpc' = "wait2" /\ shm' = shm
    BY <1>6 DEF CloseCollection
  <2>2. ASSUME NEW p \in Phases
        PROVE  /\ phaseOutputs'[p].collectionClosed
                    = (p = nextPhase \/ phaseOutputs[p].collectionClosed)
               /\ phaseOutputs'[p].releaseSet = phaseOutputs[p].releaseSet
    BY Zenon, <1>1, <1>6, CloseCollectionEffect
  <2>3. nextPhase \in Phases
    BY <1>1, <1>6, CloseCollectionEffect
  <2>4. ASSUME NEW p \in Phases, phaseOutputs[p].collectionClosed
        PROVE  phaseOutputs'[p].collectionClosed
    BY Zenon, <2>2, <2>4
  <2>5. /\ nextPhase <= PhaseCount => \A p \in 1..nextPhase - 1 : phaseOutputs'[p].collectionClosed
        /\ \A p \in 1..shm.proceed : phaseOutputs'[p].collectionClosed
    BY <1>1, <2>4 DEF HostInv, Phases
  <2>6. phaseOutputs'[nextPhase].collectionClosed
    BY Zenon, <2>2, <2>3
  <2> QED
    BY <1>1, <2>1, <2>2, <2>4, <2>5, <2>6 DEF HostInv, AtPhase
<1>7. CASE HostSide /\ ~CloseCollection /\ ~releaseVisit
  <2>1. ASSUME NEW p \in Phases
        PROVE  /\ phaseOutputs'[p].collectionClosed = phaseOutputs[p].collectionClosed
               /\ phaseOutputs'[p].releaseSet = phaseOutputs[p].releaseSet
    BY ZenonT(60), <1>1, <1>7, PollArrivalEffect, OutputsFrame
  <2>2. UNCHANGED <<shm.applied, shm.arrived, shm.completed>>
    BY <1>1, <1>7, HostFrame
  <2>3. shm'.proceed = shm.proceed
    <3>1. CASE requestExit
      BY ZenonT(60), <1>1, <3>1 DEF requestExit, Shm
    <3>2. CASE ~requestExit
      BY <1>7, <3>2
      DEF HostSide, Host, HostCrash, TimePasses, WriteComplete, WriteFailed, PollArrival,
        PollNothing, WaitBeforeCollection, WaitAfterCollection, waitChild,
        RecheckBeforeRelease, ObserveDone, ExitCheck, ExitCheckNotDue, SleepOrExpire, Grace,
        Terminate, Reap, Reconcile, CollectHeader, CollectSlots
    <3> QED
      BY <3>1, <3>2
  <2>4. /\ \/ nextPhase' = nextPhase
           \/ nextPhase' = PhaseCount + 1 /\ hpc' = "poll"
           \/ hpc = "recheck" /\ nextPhase' = nextPhase + 1 /\ hpc' = "observe"
        /\ hpc' \in AtPhase =>
             /\ nextPhase' = nextPhase
             /\ hpc \in AtPhase \/ (nextPhase <= PhaseCount /\ nextPhase \in shm.arrived)
        /\ hpc' \in {"wait2", "recheck", "release"} => hpc \in {"wait2", "recheck", "release"}
        /\ hpc' = "release" =>
             hpc = "release" \/ (nextPhase > 1 => nextPhase - 1 \in shm.completed)
    <3>1. CASE PollArrival
      BY Zenon, <3>1 DEF PollArrival, AtPhase
    <3>2. CASE RecheckBeforeRelease
      BY <3>2 DEF RecheckBeforeRelease, Releasable, AtPhase
    <3>3. CASE WaitBeforeCollection \/ WaitAfterCollection \/ ExitCheck
      BY Zenon, <3>3 DEF WaitBeforeCollection, WaitAfterCollection, ExitCheck, waitChild, AtPhase
    <3>4. CASE /\ HostSide /\ ~PollArrival /\ ~RecheckBeforeRelease /\ ~WaitBeforeCollection
               /\ ~WaitAfterCollection /\ ~ExitCheck /\ ~CloseCollection /\ ~releaseVisit
      <4>1. nextPhase' = nextPhase /\ (hpc' = hpc \/ hpc' \notin AtPhase)
        BY Zenon, <3>4
        DEF HostSide, Host, HostCrash, TimePasses, WriteComplete, WriteFailed, PollNothing,
            ObserveDone, ExitCheckNotDue, SleepOrExpire, requestExit, Grace, Terminate, Reap,
            Reconcile, CollectHeader, CollectSlots, hostVars, AtPhase
      <4> QED
        BY Zenon, <4>1 DEF AtPhase
    <3> QED
      BY Zenon, <1>7, <3>1, <3>2, <3>3, <3>4
  <2>5. /\ shm'.proceed < nextPhase'
        /\ hpc' \in AtPhase => nextPhase' <= PhaseCount /\ nextPhase' \in shm'.arrived
        /\ hpc' = "release" /\ nextPhase' > 1 => nextPhase' - 1 \in shm'.completed
    BY SMTT(60), <1>1, <2>2, <2>3, <2>4 DEF HostInv, AtPhase
  <2>6. hpc' \in {"wait2", "recheck", "release"} => phaseOutputs'[nextPhase'].collectionClosed
    <3>1. ASSUME hpc' \in {"wait2", "recheck", "release"}
          PROVE  /\ nextPhase' = nextPhase /\ nextPhase \in Phases
                 /\ phaseOutputs[nextPhase].collectionClosed
      BY SMTT(60), <1>1, <2>4, <3>1 DEF HostInv, AtPhase, Phases
    <3> QED
      BY Zenon, <2>1, <3>1
  <2>7. nextPhase' <= PhaseCount =>
          \A p \in 1..nextPhase' - 1 : phaseOutputs'[p].collectionClosed
    <3>1. ASSUME nextPhase' <= PhaseCount, NEW p \in 1..nextPhase' - 1
          PROVE  p \in Phases /\ phaseOutputs[p].collectionClosed
      <4>1. CASE nextPhase' = nextPhase
        BY SMTT(60), <1>1, <3>1, <4>1 DEF HostInv, Phases
      <4>2. CASE hpc = "recheck" /\ nextPhase' = nextPhase + 1
        <5>1. p \in Phases /\ (p = nextPhase \/ p \in 1..nextPhase - 1)
          BY SMTT(60), <1>1, <3>1, <4>2 DEF Phases
        <5>2. /\ phaseOutputs[nextPhase].collectionClosed /\ nextPhase <= PhaseCount
          BY Zenon, <1>1, <4>2 DEF HostInv, AtPhase
        <5> QED
          BY Zenon, <1>1, <5>1, <5>2 DEF HostInv
      <4> QED
        BY SMTT(60), <1>1, <2>4, <3>1, <4>1, <4>2
    <3> QED
      BY Zenon, <2>1, <3>1
  <2>8. \A p \in 1..shm'.proceed : phaseOutputs'[p].collectionClosed
    <3>1. ASSUME NEW p \in 1..shm.proceed PROVE p \in Phases /\ phaseOutputs[p].collectionClosed
      BY SMTT(60), <1>1 DEF HostInv, Phases
    <3> QED
      BY Zenon, <2>1, <2>3, <3>1
  <2>9. \A p \in Phases :
          phaseOutputs'[p].releaseSet => phaseOutputs'[p].collectionClosed /\ shm'.applied
    BY Zenon, <1>1, <2>1, <2>2 DEF HostInv
  <2> QED
    BY <2>5, <2>6, <2>7, <2>8, <2>9 DEF HostInv
<1> QED
  BY <1>3, <1>4, <1>5, <1>6, <1>7, Sides

-----------------------------------------------------------------------------
(* A worker that keeps its gates.                                           *)

\* The phase the host is at is the one the worker waits at, and nothing of it has
\* been published but its arrival.
LEMMA PausedAtPhase ==
  ASSUME IInv, ~jumped, nextPhase \in Phases, nextPhase \in shm.arrived
  PROVE  /\ visit = nextPhase /\ seen < visit
         /\ wpc \notin {"acking", "attempting", "calling"}
         /\ shm.slots = firstSlot(nextPhase)
         /\ checkPrematurePublication(nextPhase) = {}
         /\ arrivalViolations(nextPhase) = {}
<1>1. /\ TypeOK /\ WorkerInv /\ GateInv /\ AcknowledgedRange
      /\ visit \in Phases /\ shm.proceed < nextPhase
  BY Zenon DEF IInv, AcknowledgedInv, HostInv, TypeOK
<1>2. /\ visit \in Nat /\ visit >= 1 /\ visit <= PhaseCount /\ seen \in Nat /\ nextPhase \in Nat
      /\ shm.proceed \in Nat /\ shm.proceed_observed \in Nat /\ shm.attempt \in Nat
      /\ PhaseCount \in Nat /\ firstSlot(visit) \in Nat /\ shm.slots \in Nat
  <2>1. firstSlot(visit) \in Nat /\ SlotCount \in Nat
    BY Zenon, <1>1, SlotFacts
  <2> QED
    BY SMTT(60), <1>1, <2>1, PhaseCountAssumption DEF TypeOK, Phases, Shm
<1>3. /\ seen <= shm.proceed /\ visit <= shm.proceed + 1
      /\ wpc \in {"acking", "attempting", "calling"} => seen = visit
      /\ shm.slots # firstSlot(visit) \/ shm.attempt > firstSlot(visit) => seen = visit
      /\ shm.acknowledged \subseteq 1..seen /\ shm.completed \subseteq 1..seen
      /\ shm.proceed_observed <= seen
  BY Zenon, <1>1 DEF GateInv
<1>4. nextPhase <= visit
  BY SMTT(60), <1>1, <1>2 DEF AcknowledgedRange
<1>5. visit = nextPhase /\ seen < visit
  BY SMTT(60), <1>1, <1>2, <1>3, <1>4
<1>6. /\ wpc \notin {"acking", "attempting", "calling"} /\ shm.slots = firstSlot(visit)
      /\ ~(shm.attempt > firstSlot(visit)) /\ ~(shm.proceed_observed >= visit)
      /\ ~(shm.slots > firstSlot(visit))
  BY SMTT(60), <1>2, <1>3, <1>5
<1>7. visit \notin shm.acknowledged /\ visit \notin shm.completed
  BY SMTT(60), <1>2, <1>3, <1>5
<1>8. visit > 1 => visit - 1 \in shm.completed
  <2>1. shm.completed = 1..visit - 1
    BY <1>1, <1>7 DEF WorkerInv
  <2> QED
    BY SMTT(60), <1>2, <2>1
<1>9. checkPrematurePublication(visit) = {}
  BY <1>6, <1>7 DEF checkPrematurePublication
<1>10. arrivalViolations(visit) = {}
  BY Zenon, <1>7, <1>8, <1>9 DEF arrivalViolations
<1> QED
  BY Zenon, <1>5, <1>6, <1>9, <1>10

LEMMA GateInvStep == IInv /\ [Next]_vars => GateInv'
<1> SUFFICES ASSUME IInv, [Next]_vars, ~jumped' PROVE GateInv'
  BY DEF GateInv
<1>1. ~jumped
  <2>1. jumped' = jumped \/ jumped'
    <3>1. CASE HostSide \/ UNCHANGED vars
      BY <3>1, HostFrame DEF IInv, vars, workerVars
    <3>2. CASE WorkerSide
      BY Zenon, <3>2
      DEF WorkerSide, Worker, GateJump, Die, Killed, SetUp, SetUpRefused, SetUpFailed, pw_failure,
          PublishFailure, Arrive, ProceedRefused, LoadProceed, LoadExitRequested, Acknowledge,
          StartAttempt, FinishAttempt, CompletePhase, publish_done_and_exit, WorkerGoto
    <3> QED
      BY Zenon, <3>1, <3>2, Sides
  <2> QED
    BY <2>1
<1>2. /\ TypeOK /\ HostInv /\ WorkerInv /\ EarlyInv /\ shm \in Shm
      /\ visit \in Phases /\ visit \in Nat /\ visit >= 1 /\ seen \in Nat /\ shm.proceed \in Nat
      /\ shm.proceed_observed \in Nat /\ shm.attempt \in Nat /\ shm.slots \in Nat
      /\ nextPhase \in Nat /\ PhaseCount \in Nat /\ shm.proceed <= PhaseCount
  <2>1. SlotCount \in Nat
    BY PhaseCountAssumption, SlotsPerPhaseAssumption DEF SlotCount
  <2> QED
    BY SMTT(60), <2>1, PhaseCountAssumption DEF IInv, TypeOK, Shm, Phases
<1>3. firstSlot(visit) \in Nat /\ firstSlot(visit + 1) = endSlot(visit)
  BY <1>2, SlotFacts
<1> DEFINE Ordinals ==
      /\ seen <= shm.proceed /\ visit <= shm.proceed + 1
      /\ wpc \in {"acking", "attempting", "calling"} => seen = visit
      /\ shm.slots # firstSlot(visit) \/ shm.attempt > firstSlot(visit) => seen = visit
      /\ shm.proceed_observed <= seen
    Published == shm.acknowledged \subseteq 1..seen /\ shm.completed \subseteq 1..seen
    Clean == /\ early = {} /\ \A p \in Phases : phaseOutputs[p].violations = {}
             /\ \A p \in 1..shm.proceed : phaseOutputs[p].releaseSet
<1>4. Ordinals /\ Published /\ Clean
  BY Zenon, <1>1 DEF IInv, GateInv
<1> SUFFICES Ordinals' /\ Published' /\ Clean'
  BY Zenon DEF GateInv
<1>5. CASE HostSide
  <2>1. UNCHANGED <<wpc, visit, seen, early, shm.proceed_observed, shm.acknowledged, shm.completed,
                    shm.attempt, shm.slots>>
    BY Zenon, <1>2, <1>5, HostFrame
  <2>2. Published'
    BY Zenon, <1>4, <2>1
  <2>3. CASE releaseVisit
    <3>1. /\ hpc = "release" /\ shm'.proceed = nextPhase /\ shm.proceed < nextPhase
      BY Zenon, <1>2, <2>3 DEF releaseVisit, Shm, HostInv
    <3>2. ASSUME NEW p \in 1..nextPhase, p # nextPhase PROVE phaseOutputs[p].releaseSet
      <4>1. nextPhase - 1 \in shm.completed
        BY SMTT(60), <1>2, <3>1, <3>2 DEF HostInv
      <4>2. nextPhase - 1 <= shm.proceed
        BY SMTT(60), <1>2, <1>4, <4>1
      <4> QED
        BY SMTT(60), <1>2, <1>4, <3>2, <4>2
    <3>3. nextPhase \in Phases
      BY Zenon, <1>2, <2>3, releaseVisitEffect
    <3>4. ASSUME NEW p \in 1..nextPhase PROVE phaseOutputs'[p].releaseSet
      <4>1. p \in Phases
        BY SMTT(60), <1>2, <3>3 DEF Phases
      <4> QED
        BY Zenon, <1>2, <2>3, <3>2, <4>1, releaseVisitEffect
    <3>5. \A p \in Phases : phaseOutputs'[p].violations = {}
      BY Zenon, <1>2, <1>4, <2>3, releaseVisitEffect
    <3>6. Ordinals'
      BY SMTT(60), <1>2, <1>4, <2>1, <3>1
    <3> QED
      BY Zenon, <1>4, <2>1, <2>2, <3>1, <3>4, <3>5, <3>6
  <2>4. CASE ~releaseVisit
    <3>1. shm'.proceed = shm.proceed
      <4>1. CASE requestExit
        BY Zenon, <1>2, <4>1 DEF requestExit, Shm
      <4>2. CASE ~requestExit
        BY Zenon, <1>5, <2>4, <4>2
        DEF HostSide, Host, HostCrash, TimePasses, WriteComplete, WriteFailed, PollArrival,
          PollNothing, WaitBeforeCollection, CloseCollection, WaitAfterCollection, waitChild,
          RecheckBeforeRelease, ObserveDone, ExitCheck, ExitCheckNotDue, SleepOrExpire, Grace,
          Terminate, Reap, Reconcile, CollectHeader, CollectSlots
      <4> QED
        BY <4>1, <4>2
    <3>2. ASSUME NEW p \in Phases
          PROVE  /\ phaseOutputs'[p].violations = {}
                 /\ phaseOutputs'[p].releaseSet = phaseOutputs[p].releaseSet
      <4>1. phaseOutputs[p].violations = {}
        BY Zenon, <1>4
      <4>2. CASE PollArrival
        <5>1. nextPhase \in Phases /\ nextPhase \in shm.arrived
          BY <1>2, <4>2, PollArrivalEffect DEF PollArrival
        <5>2. arrivalViolations(nextPhase) = {}
          BY Zenon, <1>1, <5>1, PausedAtPhase
        <5> QED
          BY Zenon, <1>2, <4>1, <4>2, <5>2, PollArrivalEffect
      <4>3. CASE CloseCollection
        <5>1. nextPhase \in Phases /\ nextPhase \in shm.arrived
          BY ZenonT(60), <1>2, <4>3, CloseCollectionEffect DEF CloseCollection, HostInv, AtPhase
        <5>2. checkPrematurePublication(nextPhase) = {}
          BY Zenon, <1>1, <5>1, PausedAtPhase
        <5> QED
          BY Zenon, <1>2, <4>1, <4>3, <5>2, CloseCollectionEffect
      <4>4. CASE ~PollArrival /\ ~CloseCollection
        BY Zenon, <1>2, <1>5, <2>4, <4>1, <4>4, OutputsFrame
      <4> QED
        BY Zenon, <4>2, <4>3, <4>4
    <3>3. \A p \in 1..shm.proceed : phaseOutputs'[p].releaseSet
      BY SMTT(60), <1>2, <1>4, <3>2 DEF Phases
    <3>4. Ordinals'
      BY <1>2, <1>4, <2>1, <3>1
    <3> QED
      BY Zenon, <1>4, <2>1, <2>2, <3>1, <3>2, <3>3, <3>4
  <2> QED
    BY Zenon, <2>3, <2>4
<1>6. CASE UNCHANGED vars
  BY Zenon, <1>4, <1>6 DEF vars, workerVars, hostVars
<1>7. CASE WorkerSide
  <2>1. UNCHANGED phaseOutputs /\ shm'.proceed = shm.proceed
    BY Zenon, <1>2, <1>7, WorkerFrame
  <2>2. CASE LoadProceed
    <3>1. /\ wpc = "waiting" /\ wpc' = "loaded" /\ seen' = shm.proceed
          /\ UNCHANGED <<shm, visit, early>>
      BY Zenon, <2>2 DEF LoadProceed
    <3>2. shm.slots = firstSlot(visit) /\ shm.attempt <= shm.slots
      BY Zenon, <1>2, <3>1 DEF WorkerInv, EarlyInv, BeforeAttempts
    <3>3. Ordinals'
      BY SMTT(60), <1>2, <1>3, <1>4, <3>1, <3>2
    <3>4. Published'
      BY SMTT(60), <1>2, <1>4, <3>1
    <3> QED
      BY Zenon, <1>4, <2>1, <3>1, <3>3, <3>4
  <2>3. CASE Acknowledge
    <3>1. /\ wpc = "acking" /\ wpc' = "attempting" /\ UNCHANGED <<visit, seen, early>>
          /\ shm'.acknowledged = shm.acknowledged \cup {visit} /\ shm'.proceed_observed = visit
          /\ UNCHANGED <<shm.completed, shm.attempt, shm.slots>>
      BY Zenon, <1>2, <2>3 DEF Acknowledge, WorkerGoto, Shm
    <3>2. seen = visit
      BY Zenon, <1>4, <3>1
    <3>3. Ordinals'
      BY SMTT(60), <1>2, <1>4, <2>1, <3>1, <3>2
    <3>4. Published'
      BY SMTT(60), <1>2, <1>4, <3>1, <3>2
    <3> QED
      BY <1>4, <2>1, <3>1, <3>3, <3>4
  <2>4. CASE StartAttempt
    <3>1. /\ wpc = "attempting" /\ wpc' = "calling" /\ UNCHANGED <<visit, seen>>
          /\ UNCHANGED <<shm.acknowledged, shm.completed, shm.proceed_observed, shm.slots>>
          /\ early' = IF phaseOutputs[visit].collectionClosed THEN early ELSE early \cup {visit}
      BY Zenon, <1>2, <2>4 DEF StartAttempt, Shm
    <3>2. seen = visit
      BY Zenon, <1>4, <3>1
    <3>3. phaseOutputs[visit].collectionClosed
      BY SMTT(60), <1>2, <1>4, <3>2 DEF HostInv
    <3>4. Ordinals'
      BY Zenon, <1>2, <1>4, <2>1, <3>1, <3>2
    <3> QED
      BY <1>4, <2>1, <3>1, <3>3, <3>4
  <2>5. CASE FinishAttempt
    <3>1. /\ wpc = "calling" /\ wpc' = "attempting" /\ UNCHANGED <<visit, seen, early>>
          /\ UNCHANGED <<shm.acknowledged, shm.completed, shm.proceed_observed>>
      BY Zenon, <1>2, <2>5 DEF FinishAttempt, WorkerGoto, Shm
    <3> QED
      BY <1>2, <1>4, <2>1, <3>1
  <2>6. CASE CompletePhase
    <3>1. /\ wpc = "attempting" /\ shm.slots = endSlot(visit) /\ UNCHANGED <<seen, early>>
          /\ UNCHANGED <<shm.acknowledged, shm.proceed_observed, shm.attempt, shm.slots>>
          /\ shm'.completed = shm.completed \cup {visit}
          /\ \/ visit' = visit + 1 /\ wpc' = "arriving"
             \/ visit' = visit /\ wpc' = "leaving"
      BY Zenon, <1>2, <2>6 DEF CompletePhase, Shm
    <3>2. seen = visit /\ shm.attempt <= shm.slots
      BY Zenon, <1>2, <1>4, <3>1 DEF EarlyInv
    <3>3. Ordinals'
      <4>1. /\ visit \in Nat /\ seen \in Nat /\ shm.proceed \in Nat /\ shm.proceed' = shm.proceed
            /\ firstSlot(visit + 1) = endSlot(visit) /\ seen <= shm.proceed
            /\ shm.proceed_observed <= seen /\ shm.attempt \in Nat /\ shm.slots \in Nat
        BY Zenon, <1>2, <1>3, <1>4, <2>1
      <4> QED
        BY SMTT(60), <3>1, <3>2, <4>1
    <3>4. Published'
      BY SMTT(60), <1>2, <1>4, <3>1, <3>2
    <3> QED
      BY <1>4, <2>1, <3>1, <3>3, <3>4
  <2>7. CASE Arrive
    <3>1. /\ wpc' = "waiting" /\ UNCHANGED <<visit, seen, early>> /\ shm'.attempt = 0
          /\ UNCHANGED <<shm.acknowledged, shm.completed, shm.proceed_observed, shm.slots>>
      BY Zenon, <1>2, <2>7 DEF Arrive, WorkerGoto, Shm
    <3> QED
      BY <1>2, <1>3, <1>4, <2>1, <3>1
  <2>8. CASE /\ ~LoadProceed /\ ~Acknowledge /\ ~StartAttempt /\ ~FinishAttempt
             /\ ~CompletePhase /\ ~Arrive
    <3>1. /\ UNCHANGED <<visit, seen, early>>
          /\ UNCHANGED <<shm.acknowledged, shm.completed, shm.proceed_observed, shm.attempt,
                         shm.slots>>
          /\ wpc' \in {"acking", "attempting", "calling"} => seen = visit
      <4>1. ~GateJump
        BY DEF GateJump
      <4> QED
        BY SMTT(60), <1>2, <1>7, <2>8, <4>1
        DEF WorkerSide, Worker, Die, Killed, SetUp, SetUpRefused, SetUpFailed, pw_failure,
            PublishFailure, ProceedRefused, LoadExitRequested, publish_done_and_exit, WorkerGoto,
            Shm
    <3> QED
      BY Zenon, <1>2, <1>4, <2>1, <3>1
  <2> QED
    BY Zenon, <2>2, <2>3, <2>4, <2>5, <2>6, <2>7, <2>8
<1> QED
  BY Zenon, <1>5, <1>6, <1>7, Sides

-----------------------------------------------------------------------------
(* The process and the output.                                              *)

LEMMA ExitedIsFinal == WorkerSide => wpc # "exited"
  BY Zenon DEF WorkerSide, Worker, GateJump, Die, Killed, SetUp, SetUpRefused, SetUpFailed,
         PublishFailure, Arrive, ProceedRefused, LoadProceed, LoadExitRequested, Acknowledge,
         StartAttempt, FinishAttempt, CompletePhase, publish_done_and_exit

LEMMA WaitedIsTrue ==
  ASSUME TypeOK, ProcessInv, NEW o \in WaitObservation
  PROVE  /\ Waited(o).reaped => wpc = "exited"
         /\ Waited(o).childUnavailable => ~Waited(o).ownershipUnbroken
         /\ o # "pending" => Waited(o).reaped \/ ~Waited(o).ownershipUnbroken
<1>1. /\ Waited(o).reaped = (o = "reaped")
      /\ Waited(o).childUnavailable = (process.childUnavailable \/ o = "unavailable")
      /\ Waited(o).ownershipUnbroken
           = (process.ownershipUnbroken /\ o \notin {"failed", "unavailable"})
  BY ZenonT(60), WaitedFacts DEF TypeOK
<1>2. /\ o \in {"reaped", "pending", "failed", "unavailable"}
      /\ o = "reaped" => process.reaped \/ wpc = "exited"
  BY ZenonT(60) DEF WaitObservation
<1>3. /\ process.reaped => wpc = "exited"
      /\ process.childUnavailable => ~process.ownershipUnbroken
  BY DEF ProcessInv
<1> QED
  BY Zenon, <1>1, <1>2, <1>3

LEMMA ProcessInvStep == IInv /\ [Next]_vars => ProcessInv'
<1> SUFFICES ASSUME IInv, [Next]_vars PROVE ProcessInv'
  OBVIOUS
<1>1. /\ TypeOK /\ ProcessInv /\ shm \in Shm /\ process \in Process
      /\ phaseOutputs \in [Phases -> PhaseOutput]
  BY Zenon DEF IInv, TypeOK
<1>2. CASE WorkerSide
  <2>1. UNCHANGED <<hpc, phaseOutputs, process, output>>
    BY Zenon, <1>1, <1>2, WorkerFrame
  <2>2. ~process.reaped
    BY Zenon, <1>1, <1>2, ExitedIsFinal DEF ProcessInv
  <2> QED
    BY Zenon, <1>1, <2>1, <2>2 DEF ProcessInv
<1>3. CASE UNCHANGED vars
  BY Zenon, <1>1, <1>3 DEF ProcessInv, vars, workerVars, hostVars
<1>4. CASE HostSide
  <2>1. UNCHANGED <<wpc, shm.applied, shm.done, shm.acknowledged, shm.completed, shm.slots,
                    shm.failure>>
    BY <1>1, <1>4, HostFrame
  <2>2. /\ process'.reaped => wpc' = "exited"
        /\ process'.childUnavailable => ~process'.ownershipUnbroken
    <3>1. CASE process' = process
      BY <1>1, <2>1, <3>1 DEF ProcessInv
    <3>2. CASE process' = [process EXCEPT !.kill = "sent"]
      BY ZenonT(60), <1>1, <2>1, <3>2 DEF ProcessInv, Process
    <3>3. ASSUME NEW o \in WaitObservation,
                 process' = Waited(o) \/ process' = [Waited(o) EXCEPT !.kill = "failed"]
          PROVE  /\ process'.reaped => wpc' = "exited"
                 /\ process'.childUnavailable => ~process'.ownershipUnbroken
      <4>1. Waited(o) \in Process
        BY Zenon, <1>1, WaitedFacts
      <4>2. /\ process'.reaped = Waited(o).reaped
            /\ process'.childUnavailable = Waited(o).childUnavailable
            /\ process'.ownershipUnbroken = Waited(o).ownershipUnbroken
        BY ZenonT(60), <3>3, <4>1 DEF Process
      <4> QED
        BY <1>1, <2>1, <4>2, WaitedIsTrue
    <3> QED
      BY ZenonT(60), <1>1, <1>4, <3>1, <3>2, <3>3, ProcessStep
  <2>3. CASE requestExit
    <3>1. hpc' \in {"reconcile", "grace"} /\ process' = process
          /\ (hpc' = "reconcile" => process.reaped \/ process.childUnavailable)
      BY ZenonT(60), <2>3 DEF requestExit
    <3> QED
      BY <1>1, <2>2, <3>1 DEF ProcessInv
  <2>4. CASE Terminate
    <3>1. /\ hpc' \in {"reconcile", "reap"}
          /\ hpc' = "reconcile" =>
               \/ process' = process /\ (process.reaped \/ process.childUnavailable)
               \/ process'.kill = "failed"
      <4>1. ASSUME NEW o PROVE [Waited(o) EXCEPT !.kill = "failed"].kill = "failed"
        <5>1. Waited(o) \in Process
          BY Zenon, <1>1, WaitedFacts
        <5> QED
          BY <5>1 DEF Process
      <4> QED
        BY Zenon, <2>4, <4>1 DEF Terminate
    <3> QED
      BY <1>1, <2>2, <3>1 DEF ProcessInv
  <2>5. CASE Reap
    <3>1. hpc' = "reconcile"
      BY Zenon, <2>5 DEF Reap
    <3>2. process'.reaped \/ ~process'.ownershipUnbroken
      BY Zenon, <1>1, <2>5, WaitedIsTrue DEF Reap
    <3> QED
      BY <2>2, <3>1, <3>2 DEF ProcessInv
  <2>6. CASE Reconcile
    <3>1. /\ hpc = "reconcile" /\ hpc' = "collect" /\ process' = process /\ shm' = shm
          /\ process.reaped => phaseOutputs' = observeAcknowledgement(phaseOutputs, process)
      BY Zenon, <2>6 DEF Reconcile
    <3>2. ASSUME process.reaped, process.ownershipUnbroken, NEW p \in Phases,
                 phaseOutputs'[p].releaseSet, p \in shm.acknowledged
          PROVE  phaseOutputs'[p].ownershipEstablished
      BY SMTT(60), <1>1, <3>1, <3>2, ObserveFacts
    <3> QED
      BY Zenon, <1>1, <2>2, <3>1, <3>2 DEF ProcessInv
  <2>7. CASE CollectHeader
    <3>1. /\ hpc = "collect" /\ hpc' = "collect_slots"
          /\ UNCHANGED <<process, phaseOutputs, shm>>
          /\ output'.basis = IF process.reaped THEN "after_confirmed_reap"
                             ELSE "execution_may_continue"
          /\ output'.applied = shm.applied /\ output'.done = shm.done
          /\ output'.acknowledged = shm.acknowledged /\ output'.completed = shm.completed
      BY Zenon, <2>7 DEF CollectHeader
    <3>2. output' \in Output
      BY Zenon, <1>1, <2>7, OutputTypes
    <3> QED
      BY Zenon, <1>1, <2>2, <3>1, <3>2 DEF ProcessInv
  <2>8. CASE CollectSlots
    <3>1. /\ hpc = "collect_slots" /\ hpc' = "returned"
          /\ UNCHANGED <<process, phaseOutputs, shm>>
      BY Zenon, <2>8 DEF CollectSlots
    <3>2. output \in Output
      BY Zenon, <1>1, <3>1 DEF ProcessInv
    <3>3. /\ output' \in Output
          /\ UNCHANGED <<output.basis, output.applied, output.done, output.acknowledged,
                         output.completed>>
          /\ output'.slots = shm.slots /\ output'.failure = shm.failure
      BY Zenon, <1>1, <2>8, <3>2, OutputTypes
    <3> QED
      BY <1>1, <2>2, <3>1, <3>3 DEF ProcessInv
  <2>9. CASE \E x \in {"sentinel", "grace", "proceed"} : TimePasses(x)
    <3>1. UNCHANGED <<hpc, process, phaseOutputs, output, shm, wpc>>
      BY Zenon, <2>9 DEF TimePasses, hostVars, workerVars
    <3> QED
      BY Zenon, <1>1, <3>1 DEF ProcessInv
  <2>10. CASE /\ ~requestExit /\ ~Terminate /\ ~Reap /\ ~Reconcile /\ ~CollectHeader
              /\ ~CollectSlots /\ ~(\E x \in {"sentinel", "grace", "proceed"} : TimePasses(x))
    <3>1. hpc' \notin {"reconcile", "collect", "collect_slots", "returned"}
      BY <1>4, <2>10
      DEF HostSide, Host, HostCrash, WriteComplete, WriteFailed, PollArrival, PollNothing,
          WaitBeforeCollection, CloseCollection, WaitAfterCollection, waitChild,
          RecheckBeforeRelease, releaseVisit, ObserveDone, ExitCheck, ExitCheckNotDue,
          SleepOrExpire, Grace
    <3> QED
      BY Zenon, <2>2, <3>1 DEF ProcessInv
  <2> QED
    BY ZenonT(60), <2>3, <2>4, <2>5, <2>6, <2>7, <2>8, <2>9, <2>10
<1> QED
  BY Zenon, <1>2, <1>3, <1>4, Sides

-----------------------------------------------------------------------------
(* The theorems.                                                            *)

LEMMA InitIInv == Init => IInv
<1> SUFFICES ASSUME Init PROVE IInv
  OBVIOUS
<1>1. /\ 1 \in Phases /\ 0 \in 0..PhaseCount /\ 1 \in 1..PhaseCount + 1 /\ SlotCount \in Nat
      /\ firstSlot(1) = 0 /\ endSlot(1) \in Nat
  <2>1. 1 \in Phases
    BY SMTT(60), PhaseCountAssumption DEF Phases
  <2> QED
    BY <2>1, SlotFacts, PhaseCountAssumption
<1>2. NoFailure \in Failure
  BY Zenon, <1>1 DEF NoFailure, Failure
<1>3. /\ shm.applied = FALSE /\ shm.done = FALSE /\ shm.proceed = 0 /\ shm.proceed_observed = 0
      /\ shm.arrived = {} /\ shm.acknowledged = {} /\ shm.completed = {} /\ shm.attempt = 0
      /\ shm.slots = 0 /\ shm.failure = NoFailure
      /\ wpc = "setup" /\ visit = 1 /\ seen = 0 /\ hpc = "transfer" /\ nextPhase = 1
      /\ early = {} /\ jumped = FALSE
  BY Zenon DEF Init
<1>4. shm \in Shm
  <2>1. 0 \in 0..SlotCount
    BY SMTT(60), <1>1
  <2> QED
    BY ZenonT(60), <1>1, <1>2, <2>1 DEF Init, Shm
<1>5. \A p \in Phases : /\ phaseOutputs[p] \in PhaseOutput
                        /\ phaseOutputs[p].violations = {} /\ phaseOutputs[p].releaseSet = FALSE
  BY ZenonT(60) DEF Init, PhaseOutput
<1>6. phaseOutputs \in [Phases -> PhaseOutput]
  BY Zenon, <1>5 DEF Init
<1>7. process \in Process /\ process.reaped = FALSE /\ process.childUnavailable = FALSE
  BY Zenon DEF Init, Process
<1>8. TypeOK
  BY ZenonT(60), <1>1, <1>3, <1>4, <1>6, <1>7 DEF TypeOK, Init
<1>9. WorkerInv
  BY SMTT(60), <1>1, <1>3 DEF WorkerInv, BeforeAttempts, Leaving
<1>10. AcknowledgedInv
  BY SMTT(60), <1>1, <1>3 DEF AcknowledgedInv, AcknowledgedRange, AppliedInv, BeforeAttempts, NoFailure
<1>11. EarlyInv
  BY SMTT(60), <1>3 DEF EarlyInv
<1>12. HostInv
  BY SMTT(60), <1>3, <1>5 DEF HostInv, AtPhase
<1>13. GateInv
  BY SMTT(60), <1>1, <1>3, <1>5 DEF GateInv
<1>14. ProcessInv
  BY <1>3, <1>7 DEF ProcessInv
<1> QED
  BY <1>8, <1>9, <1>10, <1>11, <1>12, <1>13, <1>14 DEF IInv

\* The inductive invariant: what the worker has published, what the host has noted
\* and how far each may be ahead of the other.
THEOREM Invariance == Spec => []IInv
<1>1. IInv /\ [Next]_vars => IInv'
  BY TypeStep, WorkerInvStep, AcknowledgedInvStep, EarlyInvStep, HostInvStep, GateInvStep,
     ProcessInvStep
  DEF IInv
<1> QED
  BY <1>1, InitIInv, PTL DEF Spec

\* Type correctness: ordinals, slots and records of both processes keep their ranges,
\* so that no phase past the last is collected or released.
THEOREM TypeCorrect == Spec => []TypeOK
<1>1. IInv => TypeOK
  BY DEF IInv
<1> QED
  BY <1>1, Invariance, PTL

\* Unless the worker breaks its gate, no attempt of a phase begins before the
\* collection of that phase's predictions is closed, and none runs while it is open.
THEOREM QueryFirstHolds == Spec => []QueryFirst
<1>1. IInv => QueryFirst
  <2> SUFFICES ASSUME IInv, ~jumped
               PROVE  /\ early = {}
                      /\ hpc = "hook" => /\ wpc \notin {"attempting", "calling"}
                                         /\ shm.slots = firstSlot(nextPhase)
    BY Zenon DEF QueryFirst
  <2>1. early = {}
    BY Zenon DEF IInv, GateInv
  <2>2. ASSUME hpc = "hook"
        PROVE  wpc \notin {"attempting", "calling"} /\ shm.slots = firstSlot(nextPhase)
    <3>1. nextPhase \in Phases /\ nextPhase \in shm.arrived
      BY SMTT(60), <2>2, PhaseCountAssumption DEF IInv, HostInv, TypeOK, AtPhase, Phases
    <3> QED
      BY Zenon, <3>1, PausedAtPhase
  <2> QED
    BY <2>1, <2>2
<1> QED
  BY <1>1, Invariance, PTL

\* An output said to rest on a confirmed reap is final and complete, one that is not
\* says that execution may continue, and done is said only after the last phase or a
\* published failure.
THEOREM OutputBasisIsTrueHolds == Spec => []OutputBasisIsTrue
<1>1. IInv => OutputBasisIsTrue
  <2> SUFFICES ASSUME IInv PROVE OutputBasisIsTrue
    BY Zenon
  <2>1. ProcessInv /\ (shm.done => Told)
    BY Zenon DEF IInv, WorkerInv
  <2> QED
    BY <2>1 DEF OutputBasisIsTrue, ProcessInv, Told
<1> QED
  BY <1>1, Invariance, PTL

\* What was collected after a confirmed reap accuses no worker that kept its gates.
LEMMA NoFalseAccusation ==
  ASSUME IInv, ~jumped, hpc = "returned", process.reaped, NEW p \in Phases
  PROVE  /\ protocol_violations(p) = {}
         /\ p \in shm.acknowledged =>
              phaseOutputs[p].releaseSet /\ phaseOutputs[p].collectionClosed
<1>1. /\ TypeOK /\ WorkerInv /\ AcknowledgedInv /\ AcknowledgedRange /\ AppliedInv /\ HostInv
      /\ GateInv /\ ProcessInv
  BY Zenon DEF IInv, AcknowledgedInv
<1>2. /\ visit \in Phases /\ visit \in Nat /\ p \in Nat /\ p >= 1 /\ seen \in Nat
      /\ shm.proceed \in Nat /\ shm.slots \in Nat /\ shm.slots <= endSlot(visit)
  BY SMTT(60), <1>1, PhaseCountAssumption DEF TypeOK, WorkerInv, Shm, Phases
<1>3. /\ output.applied = shm.applied /\ output.acknowledged = shm.acknowledged
      /\ output.slots = shm.slots /\ output.failure = shm.failure
  BY Zenon, <1>1 DEF ProcessInv
<1>4. phaseOutputs[p].violations = {}
  BY Zenon, <1>1 DEF GateInv
<1>5. p \in shm.acknowledged => phaseOutputs[p].releaseSet
  <2>1. p \in shm.acknowledged => p \in 1..shm.proceed
    BY SMTT(60), <1>1, <1>2 DEF GateInv
  <2> QED
    BY Zenon, <1>1, <2>1 DEF GateInv
<1>6. phaseOutputs[p].releaseSet => phaseOutputs[p].collectionClosed /\ shm.applied
  BY Zenon, <1>1 DEF HostInv
<1>7. shm.slots > firstSlot(p) => p \in shm.acknowledged
  <2> SUFFICES ASSUME shm.slots > firstSlot(p) PROVE p \in shm.acknowledged
    BY Zenon
  <2>1. firstSlot(p) \in Nat /\ endSlot(visit) \in Nat
    BY Zenon, <1>2, SlotFacts
  <2>2. ~(visit < p)
    BY SMTT(60), <1>2, <2>1, SlotOrder
  <2>3. CASE p = visit
    BY SMTT(60), <1>1, <1>2, <2>1, <2>3 DEF AcknowledgedInv
  <2>4. CASE p < visit
    BY SMTT(60), <1>1, <1>2, <2>4 DEF AcknowledgedRange
  <2> QED
    BY SMTT(60), <1>2, <2>2, <2>3, <2>4
<1>8. shm.failure.operation = "proceed" /\ shm.failure.index = p =>
        p \notin shm.acknowledged /\ ~(shm.slots > firstSlot(p))
  <2>1. firstSlot(p) \in Nat
    BY Zenon, SlotFacts
  <2> QED
    BY SMTT(60), <1>1, <1>2, <2>1 DEF AcknowledgedInv
<1> QED
  BY Zenon, <1>3, <1>4, <1>5, <1>6, <1>7, <1>8 DEF protocol_violations

\* The claims about the order of queries and attempts.  No evidence supports
\* "query_first" for a phase attempted early; a worker that kept its gates is not
\* accused once reaped; and what it acknowledged has its order established.
THEOREM OrderingEvidenceIsTrueHolds == Spec => []OrderingEvidenceIsTrue
<1>1. IInv => OrderingEvidenceIsTrue
  <2> SUFFICES ASSUME IInv, hpc = "returned", NEW p \in Phases
               PROVE  /\ chainEstablished(p) => p \notin early
                      /\ ~jumped /\ output.basis = "after_confirmed_reap" =>
                           protocol_violations(p) = {}
                      /\ ~jumped /\ p \in shm.acknowledged /\ process.reaped
                           /\ process.ownershipUnbroken => chainEstablished(p)
    BY DEF OrderingEvidenceIsTrue
  <2>1. EarlyInv /\ ProcessInv
    BY Zenon DEF IInv
  <2>2. chainEstablished(p) => p \notin early
    <3>1. protocol_violations(p) = {} => phaseOutputs[p].violations = {}
      BY Zenon DEF protocol_violations
    <3> QED
      BY Zenon, <2>1, <3>1 DEF chainEstablished, EarlyInv
  <2>3. output.basis = "after_confirmed_reap" => process.reaped
    BY Zenon, <2>1 DEF ProcessInv
  <2>4. ASSUME ~jumped, p \in shm.acknowledged, process.reaped, process.ownershipUnbroken
        PROVE  chainEstablished(p)
    <3>1. /\ protocol_violations(p) = {} /\ phaseOutputs[p].releaseSet
          /\ phaseOutputs[p].collectionClosed
      BY ZenonT(60), <2>4, NoFalseAccusation
    <3>2. output.acknowledged = shm.acknowledged /\ phaseOutputs[p].ownershipEstablished
      BY <2>1, <2>4, <3>1 DEF ProcessInv
    <3> QED
      BY Zenon, <2>4, <3>1, <3>2 DEF chainEstablished
  <2> QED
    BY Zenon, <2>2, <2>3, <2>4, NoFalseAccusation
<1> QED
  BY <1>1, Invariance, PTL
=============================================================================
