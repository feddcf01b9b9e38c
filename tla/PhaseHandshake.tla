--------------------------- MODULE PhaseHandshake ---------------------------
(***************************************************************************)
(* The host's side and the worker's side of one specimen: runCWorker over  *)
(* an ActorSession (Swift) polls a shared memory region that               *)
(* pw-probe-runner (C) publishes into.  The worker applies the policy and  *)
(* then, phase by phase, stops at a gate.  The host collects the           *)
(* predictions of the phase while the worker is paused and only then       *)
(* releases it, so that every prediction precedes the attempts it is       *)
(* compared with (order "query_first").                                    *)
(*                                                                         *)
(* Every action is one load or store of a shared word that another process *)
(* can tell apart, with the local computation around it.  Elapsed time is  *)
(* the set late of the allowances that have run out; the time the host     *)
(* spends in a collection is not charged to its sentinel allowance.        *)
(* Waiting for the ready byte only delays the host and is left out.        *)
(***************************************************************************)
EXTENDS Naturals, FiniteSets

CONSTANTS PhaseCount,      \* phases of the specimen
          SlotsPerPhase,   \* attempts in each phase
          Faults           \* the faults the environment may inject

ASSUME PhaseCountAssumption == PhaseCount \in Nat \ {0}
ASSUME SlotsPerPhaseAssumption == SlotsPerPhase \in Nat \ {0}
ASSUME FaultsAssumption ==
  Faults \subseteq {"transfer", "setup", "worker_clock", "worker_death", "gate_jump",
                    "wait_error", "echild", "kill_error", "host_crash"}

VARIABLES
  shm,            \* the shared region: pw_shm_header_t, phases, slots, evidence
  wpc, visit,     \* the worker: its program counter and its phase_index + 1,
  seen,           \*   and the release ordinal it last loaded
  hpc, nextPhase, \* the host: its program counter and nextPhase + 1,
  phaseOutputs,   \*   what it has observed of each phase,
  stop, process,  \*   pollStopReason and ChildProcessState
  transfer,       \* the policy pipe: open, complete, or closed too early
  late,           \* the allowances that have run out
  output,         \* CWorkerOutput, once collected
  early,          \* history: phases attempted before their collection closed,
  jumped          \*   and whether the worker left a gate without a release

workerVars == <<wpc, visit, seen, early, jumped>>
hostVars == <<hpc, nextPhase, phaseOutputs, stop, process, transfer, output>>
vars == <<shm, workerVars, hostVars, late>>

Phases == 1..PhaseCount
firstSlot(p) == (p - 1) * SlotsPerPhase
endSlot(p) == p * SlotsPerPhase
SlotCount == PhaseCount * SlotsPerPhase

NoFailure == [state |-> "none", operation |-> "none", index |-> 0]
Failure == [state : {"none", "writing", "published"},
            operation : {"none", "setup", "proceed"}, index : 0..PhaseCount]
Shm == [applied : BOOLEAN, done : BOOLEAN, exit_requested : BOOLEAN,
        proceed : 0..PhaseCount, proceed_observed : 0..PhaseCount,
        arrived : SUBSET Phases, acknowledged : SUBSET Phases, completed : SUBSET Phases,
        attempt : 0..SlotCount,        \* progress word: the attempt it names, or 0
        slots : 0..SlotCount,          \* slots published as completed
        failure : Failure]

Violation == {"acknowledgement_before_release", "attempt_before_release",
              "arrival_without_previous_completion", "completion_before_release"}
PhaseOutput == [arrived : BOOLEAN, collectionClosed : BOOLEAN, releaseSet : BOOLEAN,
                ownershipEstablished : BOOLEAN, violations : SUBSET Violation]
Process == [reaped : BOOLEAN, childUnavailable : BOOLEAN, ownershipUnbroken : BOOLEAN,
            kill : {"none", "sent", "failed"}]
NoOutput == [basis |-> "none"]
Output == [basis : {"after_confirmed_reap", "execution_may_continue"},
           applied : BOOLEAN, done : BOOLEAN, arrived : SUBSET Phases,
           acknowledged : SUBSET Phases, completed : SUBSET Phases,
           slots : 0..SlotCount, failure : Failure]

TypeOK ==
  /\ shm \in Shm
  /\ wpc \in {"setup", "refusing", "failing", "arriving", "waiting", "loaded", "acking",
              "attempting", "calling", "leaving", "exiting", "exited"}
  /\ visit \in Phases /\ seen \in 0..PhaseCount
  /\ hpc \in {"transfer", "poll", "wait1", "hook", "wait2", "recheck", "release", "observe",
              "exitcheck", "expire", "request_exit", "grace", "terminate", "reap",
              "reconcile", "collect", "collect_slots", "returned", "crashed"}
  /\ nextPhase \in 1..PhaseCount + 1
  /\ phaseOutputs \in [Phases -> PhaseOutput]
  /\ stop \in {"sentinel_deadline", "policy_transfer", "child_reaped", "wait_error", "done"}
  /\ process \in Process
  /\ transfer \in {"open", "complete", "cut"}
  /\ late \subseteq {"sentinel", "grace", "proceed"}
  /\ output \in Output \cup {NoOutput}
  /\ early \subseteq Phases /\ jumped \in BOOLEAN

Init ==
  /\ shm = [applied |-> FALSE, done |-> FALSE, exit_requested |-> FALSE, proceed |-> 0,
            proceed_observed |-> 0, arrived |-> {}, acknowledged |-> {}, completed |-> {},
            attempt |-> 0, slots |-> 0, failure |-> NoFailure]
  /\ wpc = "setup" /\ visit = 1 /\ seen = 0
  /\ hpc = "transfer" /\ nextPhase = 1
  /\ phaseOutputs = [p \in Phases |-> [arrived |-> FALSE, collectionClosed |-> FALSE,
       releaseSet |-> FALSE, ownershipEstablished |-> FALSE, violations |-> {}]]
  /\ stop = "sentinel_deadline"
  /\ process = [reaped |-> FALSE, childUnavailable |-> FALSE, ownershipUnbroken |-> TRUE,
                kill |-> "none"]
  /\ transfer = "open" /\ late = {} /\ output = NoOutput /\ early = {} /\ jumped = FALSE

-----------------------------------------------------------------------------
(* The worker, pw_probe_runner.c.                                           *)

WorkerGoto(pc) == wpc' = pc /\ UNCHANGED <<visit, seen, early, jumped>>

\* pw_failure marks the record as being written before it fills it in.
pw_failure(operation, index, pc) ==
  /\ shm' = [shm EXCEPT !.failure = [state |-> "writing", operation |-> operation,
                                     index |-> index]]
  /\ WorkerGoto(pc)
  /\ UNCHANGED <<hostVars, late>>

PublishFailure ==
  /\ wpc \in {"refusing", "failing"}
  /\ shm' = [shm EXCEPT !.failure.state = "published"]
  /\ WorkerGoto(IF wpc = "refusing" THEN "exited" ELSE "leaving")
  /\ UNCHANGED <<hostVars, late>>

\* Everything before the phases.  The policy is read to end of file and refused
\* unless its length is the one the host announced.
SetUp ==
  /\ wpc = "setup"
  /\ transfer = "complete"
  /\ shm' = [shm EXCEPT !.applied = TRUE]
  /\ WorkerGoto("arriving")
  /\ UNCHANGED <<hostVars, late>>

\* A refusal leaves by an exit code, without done.
SetUpRefused ==
  /\ wpc = "setup"
  /\ transfer = "cut" \/ "setup" \in Faults
  /\ pw_failure("setup", 0, "refusing")

\* Parameters, compilation or application failed: published, then done.
SetUpFailed ==
  /\ wpc = "setup" /\ transfer = "complete" /\ "setup" \in Faults
  /\ pw_failure("setup", 0, "failing")

\* wait_for_proceed up to its loop.
Arrive ==
  /\ wpc = "arriving"
  /\ shm' = [shm EXCEPT !.attempt = 0, !.arrived = @ \cup {visit}]
  /\ WorkerGoto("waiting")
  /\ late' = late \ {"proceed"}
  /\ UNCHANGED hostVars

\* Mutant of ProceedRefused: an expired allowance is renewed.
ProceedRefused_Renews ==
  /\ wpc = "waiting" /\ "proceed" \in late
  /\ late' = late \ {"proceed"}
  /\ UNCHANGED <<shm, workerVars, hostVars>>

\* One pass of its loop: clock and allowance first, then the release ordinal.
ProceedRefused ==
  /\ wpc = "waiting"
  /\ "worker_clock" \in Faults \/ "proceed" \in late \/ shm.proceed > visit
  /\ pw_failure("proceed", visit, "failing")

LoadProceed ==
  /\ wpc = "waiting"
  /\ "proceed" \notin late /\ shm.proceed <= visit
  /\ wpc' = "loaded" /\ seen' = shm.proceed
  /\ UNCHANGED <<shm, visit, early, jumped, hostVars, late>>

\* Then the cancellation; only then is the ordinal acted on.
LoadExitRequested ==
  /\ wpc = "loaded"
  /\ WorkerGoto(IF shm.exit_requested THEN "exited"
                ELSE IF seen = visit THEN "acking" ELSE "waiting")
  /\ UNCHANGED <<shm, hostVars, late>>

Acknowledge ==
  /\ wpc = "acking"
  /\ shm' = [shm EXCEPT !.acknowledged = @ \cup {visit}, !.proceed_observed = visit]
  /\ WorkerGoto("attempting")
  /\ UNCHANGED <<hostVars, late>>

StartAttempt ==
  /\ wpc = "attempting" /\ shm.slots < endSlot(visit)
  /\ shm' = [shm EXCEPT !.attempt = shm.slots + 1]
  /\ wpc' = "calling"
  /\ early' = IF phaseOutputs[visit].collectionClosed THEN early ELSE early \cup {visit}
  /\ UNCHANGED <<visit, seen, jumped, hostVars, late>>

FinishAttempt ==
  /\ wpc = "calling"
  /\ shm' = [shm EXCEPT !.slots = @ + 1]
  /\ WorkerGoto("attempting")
  /\ UNCHANGED <<hostVars, late>>

CompletePhase ==
  /\ wpc = "attempting" /\ shm.slots = endSlot(visit)
  /\ shm' = [shm EXCEPT !.completed = @ \cup {visit}]
  /\ IF visit < PhaseCount
     THEN wpc' = "arriving" /\ visit' = visit + 1
     ELSE wpc' = "leaving" /\ visit' = visit
  /\ UNCHANGED <<seen, early, jumped, hostVars, late>>

publish_done_and_exit ==
  \/ /\ wpc = "leaving"
     /\ shm' = [shm EXCEPT !.done = TRUE]
     /\ WorkerGoto("exiting")
     /\ UNCHANGED <<hostVars, late>>
  \/ /\ wpc = "exiting"
     /\ WorkerGoto("exited")
     /\ UNCHANGED <<shm, hostVars, late>>

\* The fault the host's premature-publication checks are there to notice: the
\* worker leaves its gate without a release.
GateJump ==
  /\ "gate_jump" \in Faults /\ ~jumped /\ wpc \in {"waiting", "loaded"}
  /\ wpc' = "acking" /\ seen' = visit /\ jumped' = TRUE
  /\ UNCHANGED <<shm, visit, early, hostVars, late>>

\* A signal: the policy, a crash, an operator, or the host's SIGKILL.
Die ==
  /\ wpc # "exited"
  /\ "worker_death" \in Faults
  /\ WorkerGoto("exited")
  /\ UNCHANGED <<shm, hostVars, late>>

Killed ==
  /\ wpc # "exited" /\ process.kill = "sent"
  /\ WorkerGoto("exited")
  /\ UNCHANGED <<shm, hostVars, late>>

-----------------------------------------------------------------------------
(* The host, runCWorker and ActorSession.                                   *)

\* What waitpid can say now, and what ChildProcessState.wait makes of it.
\* Interrupted calls are retried inside it.
WaitObservation ==
  IF process.reaped THEN {"reaped"}
  ELSE {IF wpc = "exited" THEN "reaped" ELSE "pending"}
         \cup {o \in {"failed"} : "wait_error" \in Faults}
         \cup {o \in {"unavailable"} : "echild" \in Faults}

Waited(o) ==
  [process EXCEPT !.reaped = (o = "reaped"),
                  !.childUnavailable = @ \/ o = "unavailable",
                  !.ownershipUnbroken = @ /\ o \notin {"failed", "unavailable"}]

observeAcknowledgement(outputs, proc) ==
  [p \in Phases |->
     IF proc.ownershipUnbroken /\ outputs[p].releaseSet /\ p \in shm.acknowledged
     THEN [outputs[p] EXCEPT !.ownershipEstablished = TRUE] ELSE outputs[p]]

checkPrematurePublication(p) ==
  {v \in {"acknowledgement_before_release"} :
     p \in shm.acknowledged \/ shm.proceed_observed >= p}
  \cup {v \in {"attempt_before_release"} :
     shm.slots > firstSlot(p) \/ shm.attempt > firstSlot(p)}

arrivalViolations(p) ==
  checkPrematurePublication(p)
  \cup {v \in {"arrival_without_previous_completion"} : p > 1 /\ p - 1 \notin shm.completed}
  \cup {v \in {"completion_before_release"} : p \in shm.completed}

WriteComplete ==
  /\ hpc = "transfer"
  /\ transfer' = "complete" /\ hpc' = "poll"
  /\ UNCHANGED <<shm, workerVars, nextPhase, phaseOutputs, stop, process, output, late>>

\* writePolicy stopped short: deadline, write error, or the worker gone.
WriteFailed ==
  /\ hpc = "transfer" /\ ("transfer" \in Faults \/ wpc = "exited")
  /\ transfer' = "cut" /\ stop' = "policy_transfer" /\ hpc' = "request_exit"
  /\ UNCHANGED <<shm, workerVars, nextPhase, phaseOutputs, process, output, late>>

\* The head of the polling loop: may the next phase collect its predictions?
PollArrival ==
  /\ hpc = "poll"
  /\ shm.applied /\ nextPhase <= PhaseCount /\ ~shm.done /\ nextPhase \in shm.arrived
  /\ phaseOutputs' = observeAcknowledgement(
       [phaseOutputs EXCEPT ![nextPhase].arrived = TRUE,
                            ![nextPhase].violations = @ \cup arrivalViolations(nextPhase)],
       process)
  /\ IF arrivalViolations(nextPhase) = {} THEN hpc' = "wait1" /\ nextPhase' = nextPhase
     ELSE hpc' = "poll" /\ nextPhase' = PhaseCount + 1
  /\ UNCHANGED <<shm, workerVars, stop, process, transfer, output, late>>

PollNothing ==
  /\ hpc = "poll"
  /\ ~(shm.applied /\ nextPhase <= PhaseCount /\ ~shm.done /\ nextPhase \in shm.arrived)
  /\ hpc' = "observe"
  /\ UNCHANGED <<shm, workerVars, nextPhase, phaseOutputs, stop, process, transfer, output, late>>

\* waitChild at a point of the loop; anything but a live child ends the loop.
waitChild(pc) ==
  /\ \E o \in WaitObservation :
       /\ process' = Waited(o)
       /\ hpc' = IF o = "pending" THEN pc ELSE "request_exit"
       /\ stop' = CASE o = "pending" -> stop [] o = "reaped" -> "child_reaped"
                    [] OTHER -> "wait_error"
  /\ UNCHANGED <<shm, workerVars, nextPhase, phaseOutputs, transfer, output, late>>

\* Mutant of WaitBeforeCollection: the phase is released before it is collected.
WaitBeforeCollection_Releases == hpc = "wait1" /\ waitChild("release")

WaitBeforeCollection == hpc = "wait1" /\ waitChild("hook")

\* The phase hook returns: the validator's records for this phase are final.
CloseCollection ==
  /\ hpc = "hook"
  /\ phaseOutputs' = [phaseOutputs EXCEPT
       ![nextPhase].collectionClosed = TRUE,
       ![nextPhase].violations = @ \cup checkPrematurePublication(nextPhase)]
  /\ hpc' = "wait2"
  /\ UNCHANGED <<shm, workerVars, nextPhase, stop, process, transfer, output, late>>

WaitAfterCollection == hpc = "wait2" /\ waitChild("recheck")

Releasable(p) ==
  /\ ~shm.done /\ p \in shm.arrived
  /\ p \notin shm.acknowledged /\ p \notin shm.completed
  /\ p > 1 => p - 1 \in shm.completed
  /\ phaseOutputs[p].violations = {}

RecheckBeforeRelease ==
  /\ hpc = "recheck"
  /\ IF Releasable(nextPhase) THEN hpc' = "release" /\ nextPhase' = nextPhase
     ELSE hpc' = "observe" /\ nextPhase' = nextPhase + 1
  /\ UNCHANGED <<shm, workerVars, phaseOutputs, stop, process, transfer, output, late>>

releaseVisit ==
  /\ hpc = "release"
  /\ shm' = [shm EXCEPT !.proceed = nextPhase]
  /\ phaseOutputs' = [phaseOutputs EXCEPT ![nextPhase].releaseSet = TRUE]
  /\ nextPhase' = nextPhase + 1
  /\ hpc' = "observe"
  /\ UNCHANGED <<workerVars, stop, process, transfer, output, late>>

ObserveDone ==
  /\ hpc = "observe"
  /\ phaseOutputs' = observeAcknowledgement(phaseOutputs, process)
  /\ IF shm.done THEN stop' = "done" /\ hpc' = "request_exit"
     ELSE stop' = stop /\ hpc' = "exitcheck"
  /\ UNCHANGED <<shm, workerVars, nextPhase, process, transfer, output, late>>

\* Every 50 ms or so the loop asks whether the child is still there.
ExitCheck == hpc = "exitcheck" /\ waitChild("expire")

ExitCheckNotDue ==
  /\ hpc = "exitcheck" /\ hpc' = "expire"
  /\ UNCHANGED <<shm, workerVars, nextPhase, phaseOutputs, stop, process, transfer, output, late>>

\* Mutant of SleepOrExpire: the sentinel allowance is never charged.
SleepOrExpire_Forever ==
  /\ hpc = "expire" /\ hpc' = "poll"
  /\ UNCHANGED <<shm, workerVars, nextPhase, phaseOutputs, stop, process, transfer, output, late>>

SleepOrExpire ==
  /\ hpc = "expire"
  /\ hpc' = IF "sentinel" \in late THEN "request_exit" ELSE "poll"
  /\ UNCHANGED <<shm, workerVars, nextPhase, phaseOutputs, stop, process, transfer, output, late>>

requestExit ==
  /\ hpc = "request_exit"
  /\ shm' = [shm EXCEPT !.exit_requested = TRUE]
  /\ hpc' = IF process.reaped \/ process.childUnavailable THEN "reconcile" ELSE "grace"
  /\ UNCHANGED <<workerVars, nextPhase, phaseOutputs, stop, process, transfer, output, late>>

\* finishCleanup: one pass of the grace loop.
Grace ==
  /\ hpc = "grace"
  /\ phaseOutputs' = observeAcknowledgement(phaseOutputs, process)
  /\ \E o \in WaitObservation :
       /\ process' = Waited(o)
       /\ hpc' = IF o = "pending" /\ "grace" \notin late THEN "grace" ELSE "terminate"
  /\ UNCHANGED <<shm, workerVars, nextPhase, stop, transfer, output, late>>

\* terminate: nothing is signalled once the child is reaped or not ours.  A
\* failed kill permits one wait that does not block.
Terminate ==
  /\ hpc = "terminate"
  /\ phaseOutputs' = observeAcknowledgement(phaseOutputs, process)
  /\ \/ /\ process.reaped \/ process.childUnavailable
        /\ hpc' = "reconcile" /\ UNCHANGED process
     \/ /\ ~process.reaped /\ ~process.childUnavailable
        /\ hpc' = "reap" /\ process' = [process EXCEPT !.kill = "sent"]
     \/ /\ ~process.reaped /\ ~process.childUnavailable
        /\ "kill_error" \in Faults
        /\ hpc' = "reconcile"
        /\ \E o \in WaitObservation : process' = [Waited(o) EXCEPT !.kill = "failed"]
  /\ UNCHANGED <<shm, workerVars, nextPhase, stop, transfer, output, late>>

\* After a successful kill the host blocks until the child is gone.
Reap ==
  /\ hpc = "reap"
  /\ \E o \in WaitObservation \ {"pending"} : process' = Waited(o)
  /\ hpc' = "reconcile"
  /\ UNCHANGED <<shm, workerVars, nextPhase, phaseOutputs, stop, transfer, output, late>>

Reconcile ==
  /\ hpc = "reconcile"
  /\ phaseOutputs' = IF process.reaped THEN observeAcknowledgement(phaseOutputs, process)
                     ELSE phaseOutputs
  /\ hpc' = "collect"
  /\ UNCHANGED <<shm, workerVars, nextPhase, stop, process, transfer, output, late>>

\* Mutant of CollectHeader: a delivered SIGKILL is taken for a reap.
CollectHeader_KillIsEnough ==
  /\ hpc = "collect"
  /\ output' = [basis |-> IF process.reaped \/ process.kill = "sent"
                          THEN "after_confirmed_reap" ELSE "execution_may_continue",
                applied |-> shm.applied, done |-> shm.done, arrived |-> shm.arrived,
                acknowledged |-> shm.acknowledged, completed |-> shm.completed,
                slots |-> 0, failure |-> NoFailure]
  /\ hpc' = "collect_slots"
  /\ UNCHANGED <<shm, workerVars, nextPhase, phaseOutputs, stop, process, transfer, late>>

\* collectOutput reads the header and the phases first, the slots later: a
\* worker that was not reaped may publish in between.
CollectHeader ==
  /\ hpc = "collect"
  /\ output' = [basis |-> IF process.reaped THEN "after_confirmed_reap"
                          ELSE "execution_may_continue",
                applied |-> shm.applied, done |-> shm.done, arrived |-> shm.arrived,
                acknowledged |-> shm.acknowledged, completed |-> shm.completed,
                slots |-> 0, failure |-> NoFailure]
  /\ hpc' = "collect_slots"
  /\ UNCHANGED <<shm, workerVars, nextPhase, phaseOutputs, stop, process, transfer, late>>

CollectSlots ==
  /\ hpc = "collect_slots"
  /\ output' = [output EXCEPT !.slots = shm.slots, !.failure = shm.failure]
  /\ hpc' = "returned"
  /\ UNCHANGED <<shm, workerVars, nextPhase, phaseOutputs, stop, process, transfer, late>>

\* The host process dies; the kernel closes its end of the policy pipe.
HostCrash ==
  /\ "host_crash" \in Faults /\ hpc \notin {"returned", "crashed"}
  /\ hpc' = "crashed"
  /\ transfer' = IF transfer = "open" THEN "cut" ELSE transfer
  /\ UNCHANGED <<shm, workerVars, nextPhase, phaseOutputs, stop, process, output, late>>

\* Time the collection takes is excluded from the sentinel allowance.
TimePasses(x) ==
  /\ x \notin late
  /\ \/ x = "sentinel" /\ hpc \in {"poll", "wait1", "wait2", "recheck", "release", "observe",
                                   "exitcheck", "expire"}
     \/ x = "grace" /\ hpc = "grace"
     \/ x = "proceed" /\ wpc \in {"waiting", "loaded"}
  /\ late' = late \cup {x}
  /\ UNCHANGED <<shm, workerVars, hostVars>>

-----------------------------------------------------------------------------
Worker ==
  \/ SetUp \/ SetUpRefused \/ SetUpFailed \/ PublishFailure
  \/ Arrive \/ ProceedRefused \/ LoadProceed \/ LoadExitRequested \/ Acknowledge
  \/ StartAttempt \/ FinishAttempt \/ CompletePhase \/ publish_done_and_exit

Host ==
  \/ WriteComplete \/ WriteFailed
  \/ PollArrival \/ PollNothing \/ WaitBeforeCollection \/ CloseCollection
  \/ WaitAfterCollection \/ RecheckBeforeRelease \/ releaseVisit
  \/ ObserveDone \/ ExitCheck \/ ExitCheckNotDue \/ SleepOrExpire
  \/ requestExit \/ Grace \/ Terminate \/ Reap \/ Reconcile
  \/ CollectHeader \/ CollectSlots

Environment ==
  \/ GateJump \/ Die \/ Killed \/ HostCrash
  \/ \E x \in {"sentinel", "grace", "proceed"} : TimePasses(x)

\* Both processes have come to rest.
Finished ==
  /\ hpc \in {"returned", "crashed"} /\ wpc = "exited"
  /\ UNCHANGED vars

Next == Worker \/ Host \/ Environment \/ Finished

Spec == Init /\ [][Next]_vars

\* The host's steps always come, its allowances run out and a SIGKILL takes
\* effect; nothing is assumed of the worker, which may hang anywhere.
HostFairSpec ==
  /\ Spec /\ WF_vars(Host) /\ WF_vars(Killed)
  /\ WF_vars(TimePasses("sentinel")) /\ WF_vars(TimePasses("grace"))

-----------------------------------------------------------------------------
(* The claims made from the output.                                         *)

\* buildPhaseOrdering, on the words collectOutput read.
protocol_violations(p) ==
  LET observed == p \in output.acknowledged
      released == phaseOutputs[p].releaseSet
      attempted == output.slots > firstSlot(p)
      refused == output.failure.state = "published" /\ output.failure.operation = "proceed"
                   /\ output.failure.index = p
  IN phaseOutputs[p].violations
     \cup {v \in {"acknowledgement_without_release"} : observed /\ ~released}
     \cup {v \in {"release_without_collection_closure"} :
             released /\ ~phaseOutputs[p].collectionClosed}
     \cup {v \in {"release_without_successful_application"} :
             (released \/ observed) /\ ~output.applied}
     \cup {v \in {"attempt_without_acknowledgement"} : attempted /\ ~observed}
     \cup {v \in {"attempt_or_acknowledgement_after_proceed_failure"} :
             refused /\ (observed \/ attempted)}

\* Mutant of chainEstablished: an acknowledgement is taken for a release.
chainEstablished_AckOnly(p) == phaseOutputs[p].collectionClosed /\ p \in output.acknowledged

\* PWRunnerOrdering.chainEstablished: what order "query_first" rests on.
chainEstablished(p) ==
  /\ phaseOutputs[p].collectionClosed /\ phaseOutputs[p].releaseSet
  /\ p \in output.acknowledged /\ phaseOutputs[p].ownershipEstablished
  /\ protocol_violations(p) = {}

-----------------------------------------------------------------------------
(* Properties.                                                              *)

\* No attempt of a phase begins before the collection of its predictions is
\* closed, and while a collection is open (the validator is querying the
\* worker's pid) the worker of that pid is not in an attempt.
QueryFirst ==
  ~jumped =>
    /\ early = {}
    /\ hpc = "hook" => wpc \notin {"attempting", "calling"} /\ shm.slots = firstSlot(nextPhase)

\* The claims made of the order of queries and attempts.  Even from a worker that
\* jumps its gate, the evidence never supports "query_first" for a phase whose
\* attempts did not wait.  A worker that keeps the protocol is never accused of
\* breaking it once its reap is confirmed, whatever timed out or died; and a phase
\* it acknowledged has its order established, wherever the host was when the
\* acknowledgement came, if the child stayed the host's to the end.
OrderingEvidenceIsTrue ==
  hpc = "returned" =>
    \A p \in Phases :
      /\ chainEstablished(p) => p \notin early
      /\ ~jumped /\ output.basis = "after_confirmed_reap" => protocol_violations(p) = {}
      /\ ~jumped /\ p \in shm.acknowledged /\ process.reaped /\ process.ownershipUnbroken =>
           chainEstablished(p)

\* The output says what it rests on.  After a confirmed reap it is final: nothing the
\* worker published is missing and nothing can be published later.  The driver
\* returns with a live worker only after a wait or a kill failed, and then says that
\* execution may continue.  done is never the word of a worker that stopped half way.
OutputBasisIsTrue ==
  /\ hpc = "returned" /\ output.basis = "after_confirmed_reap" =>
       /\ wpc = "exited"
       /\ output.done = shm.done /\ output.acknowledged = shm.acknowledged
       /\ output.completed = shm.completed /\ output.slots = shm.slots
       /\ output.failure = shm.failure
  /\ hpc = "returned" /\ wpc # "exited" =>
       /\ output.basis = "execution_may_continue"
       /\ ~process.ownershipUnbroken \/ process.kill = "failed"
  /\ shm.done => \/ shm.completed = Phases /\ shm.failure = NoFailure
                 \/ shm.completed # Phases /\ shm.failure.state = "published"

\* The driver returns, whatever the worker does and wherever it hangs.
HostReturns == <>(hpc \in {"returned", "crashed"})

\* No worker whose own steps come (its native calls return, its gate allowance runs
\* out) outlives that allowance: it leaves even if its host is dead.
WorkerLeaves == (WF_vars(Worker) /\ WF_vars(TimePasses("proceed"))) => <>(wpc = "exited")

=============================================================================
