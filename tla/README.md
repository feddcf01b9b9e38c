# PolicyWitness in TLA+

PolicyWitness runs a *specimen* (a sandbox policy and a list of attempts to make under it), asks a
validator what the policy predicts, and reports whether observation and prediction agree. The value of
a report rests on things no single test shows: that a specimen ran exactly once, that a prediction was
taken before the attempt it is compared with, that evidence read from shared memory was final when it
was read, that the record of a run which failed half way is neither false nor refused by its reader.
This directory states those promises, checks them on small instances with TLC and proves the most
important ones with TLAPS.

## The system

| Part | Where | State | Interacts with |
| --- | --- | --- | --- |
| Controller: run flow | `controller/src/run_flow.rs` and the files it calls | what it read of request, manifest, registry, augments and binaries | spawns pw-runner-client and sbpl-check |
| Controller: evidence reader | `runner_client.rs`, `disposition.rs`, `actor_evidence.rs` | none: it recomputes every claim from the raw facts of a reply | the host's records |
| Controller: runner manager | `runner_manager.rs`, `runner_commands.rs` | registry, lock file, plists, launchd jobs | file system, launchd, other commands |
| Client session | `runner/Clients/PWRunnerClient` | phase, attempt list, capture, deadlines | the host, over XPC |
| Admission | `PWRunnerReservation.swift`, `PWRunnerService.swift` | one slot: free, reserved, executing, retiring | clients, launchd |
| Host driver | `CWorker.swift`, `ActorSession.swift` | loop position, per-phase observations, child state | the worker, over shared memory and signals |
| Worker | `controller/tools/pw_probe_runner` | shared header, phases, slots, failure record, exec children | the host driver |
| Validator collection | `ValidatorClient.swift`, `CWorkerOrchestrator.swift` | records read, a shared time budget | the paused worker's pid |
| Actor scheduler | `ActorScheduler.swift`, `ActorOrchestration.swift` | several workers, one active at a time | workers, authority custody |
| Authority custody | `AuthorityCustody.swift`, `pw_authority_region.h` | who holds which token bytes | actors |
| Disposition | `CWorkerDisposition.swift` | the claims about a worker | the controller |

What is hard about it: late, lost and repeated XPC messages; a host that crashes and is relaunched on
demand; leases and deadlines that expire while an answer is on the way; two processes that share
memory without a lock; a worker that hangs or dies anywhere; `waitpid` and `kill` that fail; inputs that
are replaced while a run reads them; and records written in Swift and C whose reader, in Rust, checks
every claim again. `PROJECT.json` lists these hazards at the lines where they bite, with the properties
that would catch each of them.

## Modules

### State machines

**`Admission`** composes one PWRunner service with any number of clients. The host's variables are the
process (`up`, `inst`, `exitScheduled`) and its slot (`slot`, `lapsed`, `closed`, `minted`);
`reserve`, `submit`, `expire`, `disconnected` and `complete` are the methods of `PWRunnerAdmission`, each a
decision that the action of the service applies. A client's variables are its `phase`, its `capture` and
the two deadlines it watches. Messages are a set: they are taken in any order, or never. A deadline is
the fact that the clock has reached it. `ClientCapture` is the document the client prints (the record
`PWRunnerClientCapture`) and `ValidCapture`, the controller's `validate_capture`. `SpecimenService` is what
callers rely on, without hosts or messages: a specimen is executed at most once, and what its client
reports stays true. `Admission` implements it (`ImplementsService`).

**`PhaseHandshake`** is one specimen: `runCWorker` over an `ActorSession` on the host's side,
`pw_probe_runner.c` on the worker's. Every action is one load or store of a shared word the other
process can tell apart. The program counters `hpc` and `wpc` name the points of the two programs;
`shm` is the shared region; `phaseOutputs`, `process` and `output` are the host's records.
`protocol_violations` and `chainEstablished` are the evidence rules a report of order `query_first` rests
on.

**`ActorScheduler`** is the actor form: `ActorScheduler.swift` over several workers in their actor modes.
`hpc` and `cursor` name the point of `run`, `launchAndSetUp`, `walkSchedule`, `observeTermination`,
`stopActor` and `finish` the host is at; `records`, `visits`, `stopped`, `child` and `cancelled` are the
fields of the class and of its sessions. Loads that the worker can interleave with (`arrived`, `done`,
`completed`, `waitpid`) are steps of their own. Stopping an actor is two steps, since `PhaseHandshake` has
the details. `ActorEvidence` adds the account of the termination gates and its reader in the controller;
`SerialSchedule` is what the schedule promises: phases execute one at a time and in order
(`ImplementsSerial`).

**`AuthorityCustody`** is the passing of extension tokens between the actors of a schedule: `out`, `inb` and
`cell` are the words and bytes of the shared region, `custody` is `TokenCustody`, and `Plan` the sequence of
issue, transfer, consume and release operations. The host's service pass is split wherever an actor can act
in between; an access to a payload has a beginning and an end, so that `ExclusivePayload` can say that
accesses do not overlap. Bytes are `empty`, `token` or `other`; the fault `alteration` lets the content of an
actor's region change where that actor could write it. `ExtensionAccount` is the account of events, transfers
and resources that `assembleActorReply` makes of both sides of the exchanges, and the rules by which the
controller relates them.

**`RunnerManager`** is the controller's `runner install`, `runner remove` and `runner validate` as processes
that run at the same time and may be killed: `registry` is `runners.json`, `lock` its lock file, `plist`
and `job` what launchd has of a service name. A step is one file operation, one tool or one observation.
A runner is its bundle; service name, executable and plist content are functions of it.

### Evidence, from the one who records it to the one who reads it

These modules have one variable each, a record with its own program counter `pc`, and share the run
`evidence`. Each ends in a record as the reply carries it, and in the controller's rules for that record.

**`WorkerDisposition`** (`wd`): a worker that publishes progress words and result slots, a host that stops
polling, asks it to leave, kills, reaps and collects, and `resolveDisposition` over what was collected, claim
by claim. The steps of the phase protocol are `PhaseHandshake`'s; here a gate may open at any time.
**`DispositionReader`** is `disposition.rs`: it accepts a record when every claim is what the raw facts beside
it support.

**`ExecAttempt`** (`ex`): `pw_worker_exec.h`. Pipes, fork, a child in its own process group whose descendant may
keep the pipes open, collection until exit and end of file or a deadline, the group kill, the reap, and the
observation that comes of it.

**`ValidatorCollection`** (`vc`): the plan of a phase's queries, the clamped deadline (with the saturating
arithmetic of `MonotonicDeadline`), the records a validator answers, the charge to the shared budget from a
clock that can fail, and the association of records with queries by host and controller.

**`AuthoritySetup`** (`su`): the host's region and custody buffer made and torn down operation by operation, the
worker's own setup published cell by cell, and the decoding of those cells while the worker may still write
them.

**`EquipmentBinding`** (`eq`): worker roles bound to the sealed inventory, live code inspected against the binding,
and files replaced in between.

### The controller's run

**`RunFlow`** (`rf`) is `policy-witness run`, from the arguments to the envelope and exit code, with every early
return. Request, manifest, registry, augments and binaries may be replaced between any two of its steps.
**`RunnerSelect`** (the selector and what it is resolved against) and **`SpecimenDossier`** (augments, policy
dossiers, records of the binaries) are the functions it is made of.

**`SbplLex`** (`lx`) is the import lexer, checked against a definition of what a reference is. **`SbplImports`**
(`im`) is the bounded walk over the import closure, as the dossier makes it and as `sbpl-check` makes it
before it calls the native compiler, whose objects must each be freed once.

**`ChildDelivery`** (`cd`) is `run_with_stdin`: a writer thread, two collected streams and a child that reads and
writes in any order, over bounded pipes.

### Instances and proofs

`MCAdmission`, `MCPhaseHandshake`, `MCActorScheduler`, `MCAuthorityCustody`, `MCRunnerManager`, `MCEvidence` and
`MCController` instantiate these for TLC. The last two hold several modules that do not interact: the variable
`part` says which of them a behaviour is about, and the others keep their first state. `AdmissionProofs`,
`PhaseHandshakeProofs`, `ActorSchedulerSteps`, `ActorSchedulerInvariant`, `ActorSchedulerProofs`,
`AuthorityCustodyProofs`, `RunnerManagerProofs` and `ControllerProofs` hold the theorems.

## Runs

| Run | Instance | Shows |
| --- | --- | --- |
| `admission_contention` | 2 clients, 1 attempt, 2 hosts, crashes and XPC errors, fair | the refinement of the service (`ImplementsService`); sessions end (`ClientsFinish`), leases end (`ReservationEnds`) |
| `admission_faults` | 1 client, 2 attempts, 3 hosts, every fault | every capture is admitted by the controller (`CapturesAdmitted`) |
| `handshake` | 2 phases of 1 slot, every fault, a worker that leaves its gate included; fair host | `QueryFirst`, `OrderingEvidenceIsTrue`, `OutputBasisIsTrue`; the driver returns though the worker hangs (`HostReturns`), the worker leaves though its host is gone (`WorkerLeaves`) |
| `scheduler` | 2 actors, schedule 2-1-2 with a termination gate, every fault but a rogue actor, fair host | natural terminations and an account of them the controller admits (`GatesAreTrue`), no attempt before its collection closed and no two actors active (`ProtocolKept`), every process accounted for (`EveryActorAccounted`), no activation over an orphan; the scheduler returns |
| `scheduler_rogue` | the schedule without the gate, an actor that leaves its gate | phases execute serially and in order (`ImplementsSerial`); no premature visit counts as completed |
| `scheduler_end_reason` | no fault at all | a disagreement, see below |
| `custody` | 2 actors, a token sent to the other and to its issuer and one never sent; timeouts, failed issues, altered bytes, cut off and unstoppable actors | payloads are exclusive, only equal and settled bytes are consumed, deliveries settle once, nothing is left behind |
| `custody_account` | 2 actors, one delivery consumed twice and a released handle; every fault, fair host | the account of the exchanges is admitted (`ExtensionAccountAccepted`); the host finishes though actors may hang |
| `manager` | 2 processes, 2 bundles with one name, 1 kill, every fault | nothing installed is unrecorded and one runner has a name (`RegistryIsTrue`), only a plist re-inspected as the runner's is unlinked (`ForeignSpared`), reports are true (`ReportsAreTrue`) |
| `manager_recovery` | 1 process, 2 bundles with a name each, 2 kills | repeating a removal completes it (`RecoveryCompletes`) |
| `evidence` | 3 steps in 2 phases (an issue, a probe and a transfer, or three probes); 2 probe phases under one budget; 2 actors; one failing operation, one replaced file | each record is true of what happened and admitted by its reader; no claim is accepted that nothing witnesses |
| `controller` | 258 starts of a run (arguments, request, manifest, registry, files) with one replaced input, 32 client results and 9 check results; 11,069 texts of up to 4 fragments; 629 file trees under 11 policies; 6 children | the dossier describes what is sent, the selection is what the request asked for, one outcome and exit code per ending, imports accounted for, native objects freed, the request delivered |

Bounds. Two clients are what contention needs: every property of the admission is about one host and one
specimen, or a pair of them. Two attempts make a retry and its late grant; three hosts let a crash happen
on both. Two phases make the order of completion, arrival and release matter; more phases and slots are the
business of the proofs. The schedule 2-1-2 has an actor that is visited twice with another one in between,
the least for which skipped visits, per-actor order and a gate on a finished actor all occur. The custody
plans have the last use of a token behind an earlier use, a copy that is consumed twice and an actor that is
both source and recipient. Two bundles with one name make the conflicts of the registry; the second kill lets
an interrupted recovery be interrupted. In `evidence` the clock starts at zero or two ticks below its maximum,
where deadlines saturate. In `controller` the inputs are one base case and every replacement of one field of
it, which is what distinguishes the order of the early returns, plus the pairs of `--runner-mode` and the
request's runner, which are compared; four files have cycles, shared imports and an alias, and a walk of depth
2 and 3 records meets both limits (the count is looked at first, so the depth limit is met only where it is
the smaller, as it is in the code); a request of three chunks over pipes of one fills each pipe.

Some runs admit only some of the faults, to stay within minutes. The safety properties of the admission, the
handshake, the scheduler, the custody and the manager are proved for every set of faults, and those of a controller run
for any number of replaced inputs. For the others and for liveness, combinations of faults that no run admits are not
checked.

Of some 1,250 arms of `IF` and `CASE` in the definitions that model code about fifty are taken in no run. Most
are a reader's answer to a form the runner does not write, or a second look at what an earlier check has
excluded: an unsupported attempt, which the validation of the request refuses, an actor without phases, a
repeated set-up slot, entitlements that were required of the binding already. The others are in
`DispositionReader`: the diagnostics of a reply without a worker, and of one in which the readers of the other
records found a fault.

Where the deadlock check is off the system does come to rest: every session is over, every record made, or the
bound on hosts is reached.

Fairness. `FairSpec` of `Admission` assumes that time advances, that the timers of client and host fire
and that `exit(0)` runs; no message needs to be delivered. `HostFairSpec` assumes that the host's steps
come, that its allowances run out and that a delivered SIGKILL takes effect, and nothing of the worker;
`WorkerLeaves` carries its own premise, that the worker's native calls return and its gate allowance runs
out, whatever the host does. `FairSpec` of `ActorScheduler` and of `AuthorityCustody` assume the same of their
host as `HostFairSpec`. `RecoverySpec` of `RunnerManager` assumes that commands go on, that launchd finishes a
teardown and that the operator runs `runner remove` again, which is what its report of a retained cleanup
asks for; the repetition is strongly fair because other commands may come in between. `FairSpec` of
`MCController` assumes that the threads of `run_with_stdin` and the child are scheduled; its child reads, writes
and exits, as a child that hangs hangs the controller. A run with a fair specification checks its invariants
on the same states as without: fairness restricts no finite behaviour.

A disagreement. `scheduler_end_reason` is expected to fail. The completion loop of `walkSchedule` loads
`completed`, then `done`, then waits for the child. A worker that completes its last visit and publishes
`done` between the first two loads is recorded as `ended_before_completion`, with `completionObserved` true
in the same record, and is stopped as a failed actor; a later phase that waits for its natural
termination is then refused. The comment on `endReason` says "completed, or the first failure that ended
the visit". Sampling `completed` once more before settling on the failure would close the window.

What the properties do not say. Three limits showed up as counterexamples to stronger statements, none of
which the repository promises. A source whose waits end early can request the last use of a token before the
host has seen the token; the request is refused and the token stays in custody until teardown
(`NothingLeftBehind`). A removal inspects the plist again right before it unlinks it, which leaves a
window between the two calls in which the path can change hands; it does not inspect the job again before
bootout, so a name that changed hands since the observation is booted out (`ForeignSpared` says exactly this
much). A plist left half written by a killed installer can never be shown to be the runner's, so its cleanup
is retained until somebody deletes the file (`RecoveryCompletes`).

## Proofs

The assumptions are the named ones of the modules: bounds are positive, `Faults` is a set of known faults, a
child's script is made of known operations, and what a controller run reads has the form of what it reads: an optional
value is there at most once, an array is a sequence, an augment's text is known by its name (`InputAssumption`).
Three are about plans, and say what `ActorPlan.swift` has checked before
a plan is run. In `ActorScheduler` a phase depends only on an earlier one that is the last of its actor. In `AuthorityCustody`
phases follow each other and each belongs to one actor (`PlanAssumption`); a token has one issue and a delivery one
later transfer, by the actor that issued its token, and a copy is consumed by its recipient after the transfer
(`AssignmentAssumption`). Nothing is assumed of the number of actors, phases, tokens, clients, commands or bundles.

**`AdmissionProofs`**, for every set of clients, every bound on hosts and attempts and every set of
faults: `TypeOK`, `SingleUse`, `RunsOnlyItsGrant`, `TruthfulReports`, `ExitIffRetired`,
`SlotNeverReopens`, `ExecutionKept`, the refinement `ImplementsService` and `CapturesAdmitted`. The first seven have no run: the
proof covers every instance. Every action of a client is first shown to be one of two summaries (`QuietStep`:
the session moves on and sends nothing a host could execute; `SubmitStep`: a grant becomes a submission), and
every step of the transport a `TransportStep`. Type correctness needs a little more than `TypeOK`: the
number of attempts is bounded by the phase the session is in, and error callbacks carry nothing but an XPC
error. None of the safety invariants is inductive by itself. The strengthening `IInv` adds that a client
has at most one submission in flight and none once its specimen ran (`SubmissionInv`), that answers on the
way and reports already made are true and stay true (`ReplyInv`, `ReportInv`), that a capture says
invoked whenever a submission, an answer or an execution exists (`InvocationInv`), and that the slot
accounts for what its process granted and executed (`SlotInv`). The one step that executes,
`RunReservedSpecimen`, then has everything it needs: a reserved slot means nothing ran in this process,
and a submission in flight means nothing ran for this client. `CapturesAdmitted` has an invariant of its own,
`CaptureInv`, with a shape for the capture in each phase of a session: between attempts, with one under way, with
a grant on record, finished. Each way a session can end is shown to turn the shape it starts from into a capture
that `validate_capture` admits.

**`PhaseHandshakeProofs`**, for any number of phases and attempts per phase and every set of faults: `TypeOK`,
`QueryFirst`, `OrderingEvidenceIsTrue` and `OutputBasisIsTrue`. The inductive invariant has a part per party.
`WorkerInv` and `AcknowledgedInv` are about the worker alone: slots, completed phases and acknowledgements
follow its visit, and done comes after the last phase or a published failure. `HostInv` is about the host
alone: releases follow collections, in order. `GateInv` ties them together for a worker that keeps its gates:
it has seen no release that was not stored, so nothing it publishes is ahead of the release ordinal. `EarlyInv`
is for one that does not: an attempt that was too early shows in the words the host reads when it closes the
collection. `ProcessInv` says that what was copied after a confirmed reap cannot change any more.

**`ControllerProofs`**, for any set of starts, of files that replace those read, of client results and of check results,
and any number of replacements: `OutcomeIsTrue`, `SelectionIsTrue` and `SpecimenDescribed`. `EndInv` says what an
envelope can be before and after a client was invoked; with what `admit_reply` lets through it gives `OutcomeIsTrue`.
`InputInv` carries the form of the inputs and what is known once the arguments are parsed, `SelectInv` that the target
was resolved from the manifest and registry on record and that the request still has the selector it was submitted
with. `ActorInv` is the loop over the actors: those before the one at hand have been spliced and have a dossier of
what they became, those after it are as submitted, and a refusal ends the loop (`Resolving`). `ServeInv` holds these facts to
the specimen and the bytes that are sent. The lemmas are about the operators: which record a selector finds and
what is then known of it (`TargetSelected`), that the records of the binaries compare with the manifest
(`ObservedBinaries`), that a splice appends one text per name (`SplicedTexts`, `Augmented`), that a deadline
rounded up leaves the whole timeout (`DeadlineLeaves`).

The same module has `DeliveryIsTrue`, for a request of any length, pipes of any size and any set of child scripts. The
invariant accounts for every chunk (written is received plus in the pipe, produced is collected plus in the pipe)
and for when each end of a pipe closes.

**`ActorSchedulerSteps`**, **`ActorSchedulerInvariant`** and **`ActorSchedulerProofs`**, for any number of actors, any
schedule, any admitted dependencies and any faults: the refinement `ImplementsSerial`, `EveryActorAccounted`,
`CompletedAfterCollection`, `GatesAreTrue` and the action property `NoActivationOverOrphan`; `ProtocolKept` when no
actor jumps its gate, which is what it is about. The first module states the invariant and reduces the actions to
a few summaries (`WorkerMoves`, `HostMoves`) and proves type correctness; the second shows each part of the invariant
preserved. The heart is `ActivationInv`: an actor that executes, or can come to without another word from the host, is
at the latest activation, and between visits there is none. That in turn needs `WalkInv` (the walk goes on only while
every actor it has stopped is gone, and every past visit of an actor that is still to be had was completed) and
`NextInv` (an actor's next visit is its first one not completed). `LaunchInv`, `ExecutionInv`, `VisitInv` and
`CollectionInv` are what the host knows of launched actors, of executions, and of the record of a visit, whose fields
are written in the order of its steps. The gates need two more, `ReapInv` (an owned reap is of an exited process, there
is one per child, and its stage and ordinal say when) and `GateInv` (an open gate names the natural reap of its source).

**`AuthorityCustodyProofs`**, for any number of actors, any admitted plan and any faults: `ExclusivePayload`,
`ConsumesWhatWasIssued`, `NothingLeftBehind` and `DeliveriesSettle`. The invariant follows a slot through its life.
`PlaceInv` and `BusyInv` say where in the plan the host and the actor at an operation are, `FramingInv` that an actor
reads only a delivery to itself that it has not answered, `OutboundInv` that an outbound slot is committed in its issue
and answered once. `InboundInv` carries a delivery from its request to its answer: committed only while the host serves
it or once it is answered, usable only if the token was accepted, and out of custody after the last use. `BytesInv` says
that a usable copy keeps its bytes until its last consume or until its recipient has left, which is what makes the bytes
given to the native call the ones that were issued. Exclusion then follows from where each party is: a word that one of
them stores before it lets go excludes every place at which the other has the payload in hand.

**`RunnerManagerProofs`**, for any number of commands, bundles, names and kills and any faults: `RegistryIsTrue` and the
action properties `ForeignSpared` and `ReportsAreTrue`. The invariant has three parts. `LockInv`: one command has the
lock, from its load to its exit, and its copy of the registry is the file. `FileInv`: plists and jobs of runners are
under their own names and on the file, which has a name once and a bundle either as a runner or as a pending cleanup.
`ProcInv` is what a command on its way knows: an installer past its first save has its record on the file and, from the
bootstrap on, a whole plist; a removal has its cleanup on the file, and where it has seen plist or job gone without a
warning, no runner can have brought them back, because only a command with the lock installs and a login loads only from
a plist that is there. The reports need that much: a retired cleanup was the last trace of its name.

Only model-checked. Liveness under fairness (`ClientsFinish`, `ReservationEnds`, `WorkerLeaves`, `HostReturns`,
`SchedulerReturns`, `HostFinishes`, `RecoveryCompletes`, `DeliveryReturns`), which is beyond the prover.
`ImportsAccounted` and `NativeReleased`: the lexer and the import walk are recursive, and what a recursion computes for
every input cannot be proved there. `ExtensionAccountAccepted` and the records of `evidence`: each
compares the whole of a record with what a reader of it recomputes, over inputs that the runs enumerate; they are not
proved.

## Not modelled

- Parsing, admission and JSON encoding of requests and replies (`CWorkerRequestPlanning.swift`,
  `PWRunnerCoding.swift`, `json_contract.rs`, `shape.rs`): conversion of data without state that interacts. The
  readers modelled here start from decoded values; what decoding rejects is one value, `Mistyped`.
- Host facts, bundle and plist reading, digests and argument dispatch: reads of the operating system.
- What a single attempt does to files, sockets and processes (one step of the worker; an exec attempt is
  `ExecAttempt`), the capture of the compiled profile, and the kernel's answer to a validator.
- The rows that compare predictions with attempts, and the wording of diagnostics.
- `runner list`, `status`, `verify` and `reconcile`, which only read; code signing and entitlement read-back, each
  one step that may fail.
- Build scripts, generators and test equipment.
