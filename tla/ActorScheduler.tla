--------------------------- MODULE ActorScheduler ---------------------------
(***************************************************************************)
(* The actor form's host driver: several workers are launched and set up,  *)
(* then a global schedule of phases is walked serially.  Each phase        *)
(* activates its actor, waits for its arrival, collects predictions        *)
(* against it, releases it and waits for its completion.  An actor that    *)
(* fails is stopped before the schedule advances.                          *)
(*                                                                         *)
(* A phase of the schedule is one visit of one actor, so the phase words   *)
(* of all the actors' regions are sets of phases here.  Stopping an actor  *)
(* (exit request, grace, SIGKILL, reap: the module PhaseHandshake has the  *)
(* steps) takes two steps, between which the actor keeps running.  An      *)
(* allowance is the fact that it has run out; a host clock that fails      *)
(* counts as run out, as it does in the code.  Authority mailboxes are the *)
(* module AuthorityCustody.                                                *)
(***************************************************************************)
EXTENDS Naturals, Sequences, FiniteSets, FiniteSetsExt

CONSTANTS ActorCount,   \* actors of the specimen
          Schedule,     \* the actor of each phase
          Dependency,   \* for each phase, the source's final phase it waits for, or 0
          Inspects,     \* is there an equipment inspection (didSetUp)?
          Faults        \* the faults the environment may inject

ASSUME ActorCountAssumption == ActorCount \in Nat \ {0}
Actors == 1..ActorCount
Phases == 1..Len(Schedule)
visitsOf(a) == {p \in Phases : Schedule[p] = a}
ASSUME ScheduleAssumption == Schedule \in Seq(Actors) /\ Len(Schedule) > 0
ASSUME DependencyAssumption ==
  /\ Dependency \in [Phases -> 0..Len(Schedule)]
  /\ \A p \in Phases : Dependency[p] # 0 =>
       /\ Dependency[p] < p
       /\ \A q \in visitsOf(Schedule[Dependency[p]]) : q <= Dependency[p]
ASSUME InspectsAssumption == Inspects \in BOOLEAN
ASSUME FaultsAssumption ==
  Faults \subseteq {"authority", "launch", "transfer", "setup", "inspection", "expiry",
                    "death", "gate_jump", "wait_error", "unresolved"}

VARIABLES
  shm,         \* the words of the actors' regions
  wpc, next,   \* per worker: its program counter and the phase of its next visit, or 0
  hpc, cursor, \* the host: its program counter, the actor or phase it is at,
  stopping,    \*   the actor it is stopping, and the loop that goes on afterwards,
  pending,     \*   the actors whose setup it awaits,
  records,     \*   ActorSessionRecord per actor,
  stopped,     \*   the actors it has stopped,
  child,       \*   ChildProcessState per actor,
  visits,      \*   ActorVisitRecord per phase,
  cancelled,   \*   why the rest of the schedule is cancelled
  late,        \* the allowances that have run out
  asked, early \* history: actors asked to leave while alive; phases executed before
               \*   their collection closed

workerVars == <<wpc, next>>
hostVars == <<hpc, cursor, stopping, pending, records, stopped, child, visits, cancelled>>
histVars == <<asked, early>>
vars == <<shm, workerVars, hostVars, late, histVars>>

None == "none"
\* The phase of a's next visit after phase p, or 0.
nextVisit(a, p) == LET q == {x \in visitsOf(a) : x > p} IN IF q = {} THEN 0 ELSE Min(q)
usable(a) == records[a].setupStatus = "applied"

Init ==
  /\ shm = [setup |-> {}, done |-> {}, exit_requested |-> {},
            activation |-> [a \in Actors |-> 0], proceed |-> {},
            arrived |-> {}, acknowledged |-> {}, completed |-> {}]
  /\ wpc = [a \in Actors |-> "absent"] /\ next = [a \in Actors |-> nextVisit(a, 0)]
  /\ hpc = "launch" /\ cursor = 1 /\ stopping = [actor |-> 0, then |-> None]
  /\ pending = {} /\ stopped = {}
  /\ records = [a \in Actors |-> [setupStatus |-> "not_launched",
                                  quiescence |-> "never_launched"]]
  /\ child = [a \in Actors |-> [reaped |-> FALSE, ownershipUnbroken |-> TRUE,
                                captured |-> 0, ownedReap |-> {}]]
  /\ visits = [p \in Phases |-> [activationStored |-> FALSE, activation |-> 0,
                                 collectionClosed |-> FALSE, releaseStored |-> FALSE,
                                 completionObserved |-> FALSE, endReason |-> "not_reached",
                                 gate |-> [outcome |-> "not_reached", observation |-> {},
                                           capture_ordinal |-> 0]]]
  /\ cancelled = None /\ late = {} /\ asked = {} /\ early = {}
-----------------------------------------------------------------------------
(* The workers, pw_probe_runner.c in its actor modes.                       *)

WorkerStep(a, pc) == wpc' = [wpc EXCEPT ![a] = pc] /\ UNCHANGED <<next, hostVars, late, asked>>

\* Application, or the declaration that none is made; then the parked wait.
ActorSetUp(a) ==
  /\ wpc[a] = "setup"
  /\ shm' = [shm EXCEPT !.setup = @ \cup {a}]
  /\ WorkerStep(a, IF next[a] = 0 THEN "leaving" ELSE "parked")
  /\ UNCHANGED early

ActorSetUpFailed(a) ==
  /\ wpc[a] = "setup" /\ "setup" \in Faults
  /\ WorkerStep(a, "leaving")
  /\ UNCHANGED <<shm, early>>

\* One pass of wait_for_activation or wait_for_proceed that refuses: an expired
\* cutoff or allowance, or an unusable clock.
Expire(a) ==
  /\ wpc[a] \in {"parked", "gate"} /\ "expiry" \in Faults
  /\ WorkerStep(a, "leaving")
  /\ UNCHANGED <<shm, early>>

\* A pass that finds the exit request leaves without done.
ObserveExitRequest(a) ==
  /\ wpc[a] \in {"parked", "gate"} /\ a \in shm.exit_requested
  /\ WorkerStep(a, "exited")
  /\ UNCHANGED <<shm, early>>

\* wait_for_activation finds an activation.  One that names a later phase than
\* the next visit is refused; otherwise the worker arrives.
ObserveActivation(a) ==
  /\ wpc[a] = "parked" /\ shm.activation[a] >= next[a]
  /\ IF shm.activation[a] = next[a]
     THEN /\ shm' = [shm EXCEPT !.arrived = @ \cup {next[a]}]
          /\ WorkerStep(a, "gate")
     ELSE WorkerStep(a, "leaving") /\ UNCHANGED shm
  /\ UNCHANGED early

Acknowledge(a) ==
  /\ shm' = [shm EXCEPT !.acknowledged = @ \cup {next[a]}]
  /\ early' = IF visits[next[a]].collectionClosed THEN early ELSE early \cup {next[a]}
  /\ WorkerStep(a, "running")

\* wait_for_proceed finds its release; the attempts of the visit begin.
ObserveRelease(a) ==
  /\ wpc[a] = "gate" /\ next[a] \in shm.proceed
  /\ Acknowledge(a)

\* The fault the host's premature-publication checks are there to notice.
GateJump(a) ==
  /\ wpc[a] = "gate" /\ "gate_jump" \in Faults
  /\ Acknowledge(a)

CompleteVisit(a) ==
  /\ wpc[a] = "running"
  /\ shm' = [shm EXCEPT !.completed = @ \cup {next[a]}]
  /\ next' = [next EXCEPT ![a] = nextVisit(a, @)]
  /\ wpc' = [wpc EXCEPT ![a] = IF next'[a] = 0 THEN "leaving" ELSE "parked"]
  /\ UNCHANGED <<hostVars, late, histVars>>

publish_done_and_exit(a) ==
  \/ /\ wpc[a] = "leaving"
     /\ shm' = [shm EXCEPT !.done = @ \cup {a}]
     /\ WorkerStep(a, "exiting") /\ UNCHANGED early
  \/ /\ wpc[a] = "exiting"
     /\ WorkerStep(a, "exited") /\ UNCHANGED <<shm, early>>

Die(a) ==
  /\ wpc[a] \notin {"absent", "exited"} /\ "death" \in Faults
  /\ WorkerStep(a, "exited")
  /\ UNCHANGED <<shm, early>>

-----------------------------------------------------------------------------
(* Launch and setup, launchAndSetUp.                                        *)

HostStep == UNCHANGED <<workerVars, late, early>>

Goto(pc) == hpc' = pc /\ UNCHANGED <<cursor, stopping>>
Advance(pc, at) == hpc' = pc /\ cursor' = at /\ UNCHANGED stopping

\* What waitpid can say of actor a now, and what ChildProcessState makes of it:
WaitObservation(a) ==
  IF child[a].reaped THEN {"reaped"}
  ELSE {IF wpc[a] = "exited" THEN "reaped" ELSE "pending"}
         \cup {o \in {"failed"} : "wait_error" \in Faults}

\* the first reap is recorded with what the host had done until then.
ownedReap(a, stage) ==
  [stage |-> stage, ownership_unbroken |-> child[a].ownershipUnbroken,
   departure_requested |-> a \in shm.exit_requested,
   capture_ordinal |-> child[a].captured + 1]
observed(a, o, stage) ==
  IF o = "reaped" /\ ~child[a].reaped
  THEN [reaped |-> TRUE, ownershipUnbroken |-> child[a].ownershipUnbroken,
        captured |-> child[a].captured + 1, ownedReap |-> {ownedReap(a, stage)}]
  ELSE [child[a] EXCEPT !.ownershipUnbroken = @ /\ o # "failed"]
waited(a, o, stage) == [child EXCEPT ![a] = observed(a, o, stage)]
waitChild(a, o, stage) == child' = waited(a, o, stage)

\* stopActor up to the grace: exit is requested of an actor not yet stopped.
stopActor(a, then) ==
  /\ stopped' = stopped \cup {a}
  /\ shm' = [shm EXCEPT !.exit_requested = @ \cup {a}]
  /\ asked' = IF wpc[a] = "exited" THEN asked ELSE asked \cup {a}
  /\ hpc' = "stopping" /\ stopping' = [actor |-> a, then |-> then]
  /\ UNCHANGED <<cursor, workerVars, late, early>>

AuthoritySetupFailed ==
  /\ hpc = "launch" /\ cursor = 1 /\ "authority" \in Faults
  /\ records' = [a \in Actors |-> [records[a] EXCEPT !.setupStatus = "launch_refused"]]
  /\ Advance("setup", cursor) /\ HostStep
  /\ UNCHANGED <<shm, pending, stopped, child, visits, cancelled, asked>>

LaunchSkipped ==
  /\ hpc = "launch" /\ cursor <= ActorCount /\ cancelled = None
  /\ \/ /\ "setup" \in late
        /\ records' = [records EXCEPT ![cursor].setupStatus = "setup_timeout"]
     \/ /\ "setup" \notin late /\ "launch" \in Faults
        /\ records' = [records EXCEPT ![cursor].setupStatus = "launch_refused"]
  /\ Advance("launch", cursor + 1) /\ HostStep
  /\ UNCHANGED <<shm, pending, stopped, child, visits, cancelled, asked>>

Launch ==
  /\ hpc = "launch" /\ cursor <= ActorCount /\ cancelled = None /\ "setup" \notin late
  /\ wpc' = [wpc EXCEPT ![cursor] = "setup"]
  /\ records' = [records EXCEPT ![cursor].quiescence = "unresolved"]
  /\ pending' = pending \cup {cursor}
  /\ Advance("launch", cursor + 1)
  /\ UNCHANGED <<shm, next, stopped, child, visits, cancelled, late, histVars>>

\* Spawned, but the policy did not reach it whole: it refuses and leaves.
LaunchTransferFailed ==
  /\ hpc = "launch" /\ cursor <= ActorCount /\ cancelled = None /\ "setup" \notin late
  /\ "transfer" \in Faults
  /\ wpc' = [wpc EXCEPT ![cursor] = "leaving"]
  /\ records' = [records EXCEPT ![cursor] = [setupStatus |-> "transfer_failed",
                                             quiescence |-> "unresolved"]]
  /\ stopped' = stopped \cup {cursor}
  /\ shm' = [shm EXCEPT !.exit_requested = @ \cup {cursor}]
  /\ asked' = asked \cup {cursor}
  /\ hpc' = "stopping" /\ stopping' = [actor |-> cursor, then |-> "launch"]
  /\ cursor' = cursor + 1
  /\ UNCHANGED <<next, pending, child, visits, cancelled, late, early>>

LaunchEnds ==
  /\ hpc = "launch"
  /\ cursor > ActorCount \/ cancelled # None
  /\ Goto("setup") /\ HostStep
  /\ UNCHANGED <<shm, pending, records, stopped, child, visits, cancelled, asked>>

\* setupDisposition: the worker's own publication, or how it ended without one.
SetupDisposition(a, o) ==
  CASE a \in shm.setup -> "applied"
    [] a \notin shm.setup /\ a \in shm.done -> "setup_failed"
    [] OTHER -> IF o = "pending" THEN None ELSE "exited_before_setup"

ResolveSetup(a) ==
  /\ hpc = "setup" /\ a \in pending
  /\ \E o \in WaitObservation(a) :
       LET status == SetupDisposition(a, o) IN
       /\ status # None
       /\ IF status = "exited_before_setup" THEN waitChild(a, o, "setup") ELSE UNCHANGED child
       /\ records' = [records EXCEPT ![a].setupStatus = status]
       /\ pending' = pending \ {a}
       /\ IF status = "applied"
          THEN Goto("setup") /\ HostStep /\ UNCHANGED <<shm, stopped, asked>>
          ELSE stopActor(a, "setup")
  /\ UNCHANGED <<visits, cancelled>>

SetupDeadline ==
  /\ hpc = "setup" /\ "setup" \in late /\ pending # {}
  /\ Goto("setup_timeout") /\ HostStep
  /\ UNCHANGED <<shm, pending, records, stopped, child, visits, cancelled, asked>>

SetupTimeout ==
  /\ hpc = "setup_timeout" /\ pending # {}
  /\ LET a == Min(pending) IN
       /\ records' = [records EXCEPT ![a].setupStatus = "setup_timeout"]
       /\ pending' = pending \ {a}
       /\ stopActor(a, "setup_timeout")
  /\ UNCHANGED <<child, visits, cancelled>>

SetupEnds ==
  /\ hpc \in {"setup", "setup_timeout"} /\ pending = {}
  /\ Advance(IF Inspects THEN "inspect" ELSE "entry", 1) /\ HostStep
  /\ UNCHANGED <<shm, pending, records, stopped, child, visits, cancelled, asked>>

\* The equipment inspection of the usable actors, one after the other.
InspectNext ==
  /\ hpc = "inspect" /\ cursor <= ActorCount
  /\ \E o \in WaitObservation(cursor), refused \in {x \in BOOLEAN : x => "inspection" \in Faults} :
       LET inTime == "setup" \notin late
           failed == ~inTime \/ o # "pending" \/ refused
       IN IF usable(cursor)
          THEN /\ IF inTime THEN waitChild(cursor, o, "inspection") ELSE UNCHANGED child
               /\ cancelled' = IF failed /\ cancelled = None THEN "equipment_execution"
                               ELSE cancelled
          ELSE UNCHANGED <<child, cancelled>>
  /\ Advance("inspect", cursor + 1) /\ HostStep
  /\ UNCHANGED <<shm, pending, records, stopped, visits, asked>>

InspectionEnds ==
  /\ hpc = "inspect" /\ cursor > ActorCount
  /\ Advance("entry", 1) /\ HostStep
  /\ UNCHANGED <<shm, pending, records, stopped, child, visits, cancelled, asked>>
-----------------------------------------------------------------------------
(* The schedule, walkSchedule.                                              *)

\* The visit at hand ends without having activated its actor.
Skip(reason, why, g) ==
  /\ visits' = [visits EXCEPT ![cursor].endReason = reason, ![cursor].gate = g]
  /\ cancelled' = why
  /\ Advance("entry", cursor + 1) /\ HostStep

\* The children are c, and the gate of the visit is g, when it is activated.
activate(c, g) ==
  LET a == Schedule[cursor]
  IN /\ shm' = [shm EXCEPT !.activation[a] = cursor]
     /\ child' = [c EXCEPT ![a].captured = @ + 1]
     /\ visits' = [visits EXCEPT ![cursor] =
          [@ EXCEPT !.activationStored = TRUE, !.gate = g, !.activation = c[a].captured + 1]]
     /\ Goto("arrival") /\ HostStep
     /\ UNCHANGED cancelled

available(a) == usable(a) /\ a \notin stopped

EnterVisit ==
  /\ hpc = "entry" /\ cursor <= Len(Schedule)
  /\ LET gate == visits[cursor].gate IN
     \/ /\ \/ cancelled # None /\ Skip("cancelled", cancelled, gate)
           \/ /\ cancelled = None /\ "execution" \in late
              /\ Skip("cancelled", "execution_allowance_exhausted", gate)
           \/ /\ cancelled = None /\ "execution" \notin late /\ ~available(Schedule[cursor])
              /\ Skip("actor_unavailable", None, gate)
        /\ UNCHANGED <<shm, child>>
     \/ /\ cancelled = None /\ "execution" \notin late /\ available(Schedule[cursor])
        /\ IF Dependency[cursor] = 0 THEN activate(child, gate)
           ELSE Goto("gate") /\ HostStep /\ UNCHANGED <<shm, child, visits, cancelled>>
  /\ UNCHANGED <<pending, records, stopped, asked>>

\* The gate ends: its snapshot is numbered after what it saw of the source.
gateEnds(outcome, c, seen) ==
  LET source == Schedule[Dependency[cursor]]
      gate == [outcome |-> outcome, observation |-> seen, capture_ordinal |-> c[source].captured + 1]
      numbered == [c EXCEPT ![source].captured = @ + 1]
  IN IF outcome = "satisfied" THEN activate(numbered, gate)
     ELSE /\ Skip("termination_dependency", "termination_dependency", gate)
          /\ child' = numbered /\ UNCHANGED shm

\* Mutant of reapOutcome: any reap opens the gate.
reapOutcome_Any(reap) == "satisfied"

\* An owned reap that the host did not bring about, after the final activation.
reapOutcome(reap) ==
  IF ~reap.ownership_unbroken THEN "ownership_lost"
  ELSE IF reap.departure_requested THEN "source_departure_requested"
  ELSE IF reap.capture_ordinal <= visits[Dependency[cursor]].activation THEN "source_unavailable"
  ELSE "satisfied"

\* observeTermination: one pass of its loop, whose samples of the clock may fail or
\* find the allowance spent.  A late reap remains a fact, but does not open the gate.
observeTermination ==
  /\ hpc = "gate"
  /\ LET source == Schedule[Dependency[cursor]] IN
     IF ~visits[Dependency[cursor]].activationStored
     THEN gateEnds("source_unavailable", child, {})
     ELSE IF "execution" \in late THEN gateEnds("execution_allowance_exhausted", child, {})
     ELSE \/ \E outcome \in {"clock_unavailable", "timed_out"} : gateEnds(outcome, child, {})
          \/ ~child[source].ownershipUnbroken /\ gateEnds("ownership_lost", child, {})
          \/ /\ child[source].ownershipUnbroken
             /\ child[source].ownedReap = {} /\ source \in shm.exit_requested
             /\ gateEnds("source_departure_requested", child, {})
          \/ /\ child[source].ownershipUnbroken
             /\ child[source].ownedReap # {} \/ source \notin shm.exit_requested
             /\ \E o \in WaitObservation(source) :
                  LET c == waited(source, o, "termination_gate")
                      seen == {reap.capture_ordinal : reap \in c[source].ownedReap}
                  IN \/ \E outcome \in {"clock_unavailable", "timed_out"} :
                          gateEnds(outcome, c, seen)
                     \/ o = "failed" /\ gateEnds("ownership_lost", c, seen)
                     \/ /\ o = "reaped"
                        /\ \E reap \in c[source].ownedReap : gateEnds(reapOutcome(reap), c, seen)
  /\ UNCHANGED <<pending, records, stopped, asked>>

Visiting(pcs) ==
  /\ hpc \in pcs
  /\ HostStep
  /\ UNCHANGED <<shm, pending, records, stopped, cancelled, asked>>

\* The visit at hand is over for this reason.
End(reason) == visits' = [visits EXCEPT ![cursor].endReason = reason] /\ Goto("ending")
Go(pc) == UNCHANGED visits /\ Goto(pc)

\* waitChild at a point of the visit; anything but a live child ends it.
VisitWait(died, pc) ==
  \E o \in WaitObservation(Schedule[cursor]) :
    /\ waitChild(Schedule[cursor], o, "schedule")
    /\ CASE o = "pending" -> Go(pc)
         [] o = "reaped" -> End(died)
         [] o = "failed" -> End("wait_error")

\* Mutant of PollWait: the poll has no allowance.
PollWait_Forever(died, timeout, pc) ==
  \E o \in WaitObservation(Schedule[cursor]) :
    /\ waitChild(Schedule[cursor], o, "schedule")
    /\ CASE o = "pending" -> Go(pc)
         [] o = "reaped" -> End(died)
         [] o = "failed" -> End("wait_error")

\* A poll that found nothing sleeps, and ends the visit once time is up.
PollWait(died, timeout, pc) ==
  \E o \in WaitObservation(Schedule[cursor]) :
    /\ waitChild(Schedule[cursor], o, "schedule")
    /\ CASE o = "pending" -> IF "execution" \in late THEN End(timeout) ELSE Go(pc)
         [] o = "reaped" -> End(died)
         [] o = "failed" -> End("wait_error")

\* The arrival loop: arrived, then done, then the child.
PollArrival ==
  /\ Visiting({"arrival", "arrival_done", "arrival_wait"})
  /\ \/ /\ hpc = "arrival"
        /\ Go(IF cursor \in shm.arrived THEN "check" ELSE "arrival_done")
        /\ UNCHANGED child
     \/ /\ hpc = "arrival_done"
        /\ IF Schedule[cursor] \in shm.done THEN End("ended_before_arrival") ELSE Go("arrival_wait")
        /\ UNCHANGED child
     \/ /\ hpc = "arrival_wait"
        /\ PollWait("died_before_arrival", "arrival_timeout", "arrival")

\* No premature publication, and every earlier visit of the actor complete.
inOrder(p) ==
  /\ p \notin shm.acknowledged /\ p \notin shm.completed
  /\ \A q \in visitsOf(Schedule[p]) : q < p => q \in shm.completed

CheckArrival ==
  /\ Visiting({"check"})
  /\ IF inOrder(cursor) THEN Go("wait1") ELSE End("protocol_violation")
  /\ UNCHANGED child

WaitBeforeCollection == Visiting({"wait1"}) /\ VisitWait("died_before_collection", "collect")

\* The hook returns; its time is not charged to the execution allowance.
CloseCollection ==
  /\ Visiting({"collect"})
  /\ visits' = [visits EXCEPT ![cursor].collectionClosed = TRUE]
  /\ Goto("wait2") /\ UNCHANGED child

WaitAfterCollection == Visiting({"wait2"}) /\ VisitWait("died_during_collection", "release")

\* Mutant of releaseVisit: released without asking whether the actor waited.
releaseVisit_Blind ==
  /\ hpc = "release"
  /\ shm' = [shm EXCEPT !.proceed = @ \cup {cursor}]
  /\ visits' = [visits EXCEPT ![cursor].releaseStored = TRUE]
  /\ Goto("completion") /\ HostStep
  /\ UNCHANGED <<pending, records, stopped, child, cancelled, asked>>

releaseVisit ==
  /\ hpc = "release"
  /\ \/ "execution" \in late /\ End("completion_timeout") /\ UNCHANGED shm
     \/ /\ "execution" \notin late
        /\ Schedule[cursor] \notin shm.done /\ cursor \in shm.arrived /\ inOrder(cursor)
        /\ shm' = [shm EXCEPT !.proceed = @ \cup {cursor}]
        /\ visits' = [visits EXCEPT ![cursor].releaseStored = TRUE]
        /\ Goto("completion")
     \/ /\ "execution" \notin late
        /\ Schedule[cursor] \in shm.done \/ cursor \notin shm.arrived \/ ~inOrder(cursor)
        /\ End("release_withheld") /\ UNCHANGED shm
  /\ HostStep
  /\ UNCHANGED <<pending, records, stopped, child, cancelled, asked>>

\* The completion loop: time, completed, then done, then the child.
PollCompletion ==
  /\ Visiting({"completion", "completion_done", "completion_wait"})
  /\ \/ /\ hpc = "completion"
        /\ IF "execution" \in late THEN End("completion_timeout")
           ELSE IF cursor \in shm.completed THEN End("completed")
           ELSE Go("completion_done")
        /\ UNCHANGED child
     \/ /\ hpc = "completion_done"
        /\ IF Schedule[cursor] \in shm.done THEN End("ended_before_completion")
           ELSE Go("completion_wait")
        /\ UNCHANGED child
     \/ /\ hpc = "completion_wait"
        /\ PollWait("died_before_completion", "completion_timeout", "completion")

\* Mutant of EndVisit: an actor that failed its visit is left where it is.
EndVisit_LeavesActor ==
  /\ hpc = "ending"
  /\ visits' = [visits EXCEPT ![cursor].completionObserved = cursor \in shm.completed]
  /\ Advance("entry", cursor + 1) /\ HostStep
  /\ UNCHANGED <<shm, stopped, asked, pending, records, child, cancelled>>

\* The visit is recorded; an actor that failed it is stopped.
EndVisit ==
  /\ hpc = "ending"
  /\ visits' = [visits EXCEPT ![cursor].completionObserved = cursor \in shm.completed]
  /\ IF visits[cursor].endReason = "completed"
     THEN Advance("entry", cursor + 1) /\ HostStep /\ UNCHANGED <<shm, stopped, asked>>
     ELSE stopActor(Schedule[cursor], "entry")
  /\ UNCHANGED <<pending, records, child, cancelled>>

WalkEnds ==
  /\ hpc = "entry" /\ cursor > Len(Schedule)
  /\ Advance("finish", 1) /\ HostStep
  /\ UNCHANGED <<shm, pending, records, stopped, child, visits, cancelled, asked>>

-----------------------------------------------------------------------------
(* Termination, stopActor after its grace and finish.                       *)

\* Mutant of Cancelled: only a visit's unresolved termination cancels.
Cancelled_SetupIgnored(reaped) ==
  IF stopping.then = "entry" /\ ~reaped THEN "unresolved_termination" ELSE cancelled

\* What stopping the actor makes of the rest of the schedule.
Cancelled(reaped) ==
  LET reason == visits[cursor].endReason IN
  CASE stopping.then = "finish" -> cancelled
    [] stopping.then = "entry" ->
         IF ~reaped THEN "unresolved_termination"
         ELSE IF reason \in {"arrival_timeout", "completion_timeout"}
              THEN "execution_allowance_exhausted"
         ELSE IF reason = "wait_error" THEN "ownership_lost"
         ELSE cancelled
    [] OTHER -> IF reaped THEN cancelled ELSE "actor_quiescence_unresolved"

\* Mutant of StopEnds: an unresolved termination does not cancel the schedule.
StopEnds_GoesOn ==
  /\ hpc = "stopping"
  /\ LET a == stopping.actor IN
     \E reaped \in {x \in BOOLEAN : x \/ (~child[a].reaped /\ "unresolved" \in Faults)} :
       /\ IF reaped THEN wpc' = [wpc EXCEPT ![a] = "exited"] /\ waitChild(a, "reaped", "stop")
          ELSE wpc' = wpc /\ waitChild(a, "failed", "stop")
       /\ records' = [records EXCEPT ![a].quiescence = IF reaped THEN "reaped" ELSE "unresolved"]
       /\ cancelled' = cancelled
  /\ hpc' = stopping.then
  /\ cursor' = IF stopping.then \in {"entry", "finish"} THEN cursor + 1 ELSE cursor
  /\ UNCHANGED <<shm, next, stopping, pending, stopped, visits, late, histVars>>

\* Mutant of StopEnds: a delivered SIGKILL is taken for a reap.
StopEnds_SaysReaped ==
  /\ hpc = "stopping"
  /\ LET a == stopping.actor IN
     \E reaped \in {x \in BOOLEAN : x \/ (~child[a].reaped /\ "unresolved" \in Faults)} :
       /\ IF reaped THEN wpc' = [wpc EXCEPT ![a] = "exited"] /\ waitChild(a, "reaped", "stop")
          ELSE wpc' = wpc /\ waitChild(a, "failed", "stop")
       /\ records' = [records EXCEPT ![a].quiescence = "reaped"]
       /\ cancelled' = Cancelled(TRUE)
  /\ hpc' = stopping.then
  /\ cursor' = IF stopping.then \in {"entry", "finish"} THEN cursor + 1 ELSE cursor
  /\ UNCHANGED <<shm, next, stopping, pending, stopped, visits, late, histVars>>

\* Grace, SIGKILL and reap are over: the actor is gone, or a failed wait or kill
\* leaves its termination unresolved.
StopEnds ==
  /\ hpc = "stopping"
  /\ LET a == stopping.actor IN
     \E reaped \in {x \in BOOLEAN : x \/ (~child[a].reaped /\ "unresolved" \in Faults)} :
       /\ IF reaped THEN wpc' = [wpc EXCEPT ![a] = "exited"] /\ waitChild(a, "reaped", "stop")
          ELSE wpc' = wpc /\ waitChild(a, "failed", "stop")
       /\ records' = [records EXCEPT ![a].quiescence = IF reaped THEN "reaped" ELSE "unresolved"]
       /\ cancelled' = Cancelled(reaped)
  /\ hpc' = stopping.then
  /\ cursor' = IF stopping.then \in {"entry", "finish"} THEN cursor + 1 ELSE cursor
  /\ UNCHANGED <<shm, next, stopping, pending, stopped, visits, late, histVars>>

\* finish: every remaining actor is stopped, in order.
FinishNext ==
  /\ hpc = "finish" /\ cursor <= ActorCount
  /\ IF wpc[cursor] # "absent" /\ cursor \notin stopped THEN stopActor(cursor, "finish")
     ELSE Advance("finish", cursor + 1) /\ HostStep /\ UNCHANGED <<shm, stopped, asked>>
  /\ UNCHANGED <<pending, records, child, visits, cancelled>>

Return ==
  /\ hpc = "finish" /\ cursor > ActorCount
  /\ Goto("returned") /\ HostStep
  /\ UNCHANGED <<shm, pending, records, stopped, child, visits, cancelled, asked>>

TimePasses(x) ==
  /\ x \notin late
  /\ \/ /\ x = "setup"
        /\ \/ hpc \in {"launch", "setup", "inspect"}
           \/ hpc = "stopping" /\ stopping.then \in {"launch", "setup"}
     \/ /\ x = "execution"
        /\ \/ hpc \in {"entry", "gate", "arrival", "arrival_done", "arrival_wait", "check",
                       "wait1", "wait2", "release", "completion", "completion_done",
                       "completion_wait", "ending"}
           \/ hpc = "stopping" /\ stopping.then = "entry"
  /\ late' = late \cup {x}
  /\ UNCHANGED <<shm, workerVars, hostVars, histVars>>
-----------------------------------------------------------------------------
Worker(a) ==
  \/ ActorSetUp(a) \/ ActorSetUpFailed(a) \/ Expire(a) \/ ObserveExitRequest(a)
  \/ ObserveActivation(a) \/ ObserveRelease(a) \/ GateJump(a) \/ CompleteVisit(a)
  \/ publish_done_and_exit(a) \/ Die(a)

Host ==
  \/ AuthoritySetupFailed \/ LaunchSkipped \/ Launch \/ LaunchTransferFailed \/ LaunchEnds
  \/ (\E a \in Actors : ResolveSetup(a)) \/ SetupDeadline \/ SetupTimeout \/ SetupEnds
  \/ InspectNext \/ InspectionEnds
  \/ EnterVisit \/ observeTermination \/ PollArrival \/ CheckArrival \/ WaitBeforeCollection
  \/ CloseCollection \/ WaitAfterCollection \/ releaseVisit \/ PollCompletion \/ EndVisit
  \/ WalkEnds \/ StopEnds \/ FinishNext \/ Return

Allowances == {"setup", "execution"}

\* The scheduler has returned; actors it could not stop may remain.
Finished == hpc = "returned" /\ UNCHANGED vars

Next ==
  \/ \E a \in Actors : Worker(a)
  \/ Host
  \/ \E x \in Allowances : TimePasses(x)
  \/ Finished

Spec == Init /\ [][Next]_vars

\* The host's steps come and its allowances run out; workers may hang anywhere.
FairSpec == Spec /\ WF_vars(Host) /\ \A x \in Allowances : WF_vars(TimePasses(x))

-----------------------------------------------------------------------------
(* Properties.                                                              *)

\* The phases of the specimen execute one at a time and in the order of the
\* schedule, whatever the actors do, whoever dies and whatever times out.
executing == {next[a] : a \in {b \in Actors : wpc[b] = "running"}}
Serial == INSTANCE SerialSchedule WITH executed <- shm.acknowledged
ImplementsSerial == Serial!Spec

\* "Unresolved termination cancels the rest of the schedule": no actor is
\* activated while one that was stopped, in setup or in a visit, may still run.
NoActivationOverOrphan ==
  [][shm'.activation # shm.activation => \A a \in stopped : wpc[a] = "exited"]_vars

\* A phase that waits for a termination is activated only after its source's
\* process is gone, of itself: nobody asked it to leave while it was running.
GateIsNatural ==
  \A p \in Phases : Dependency[p] # 0 /\ visits[p].activationStored =>
    LET source == Schedule[Dependency[p]] IN
    /\ visits[Dependency[p]].activationStored
    /\ wpc[source] = "exited" /\ source \notin asked

\* A visit is recorded as completed only if its attempts began after the
\* collection of its predictions closed, even by an actor that jumps its gate.
CompletedAfterCollection ==
  \A p \in Phases : visits[p].endReason = "completed" => p \in shm.completed /\ p \notin early

\* Actors that keep the protocol: none executes anything of the specimen while the
\* predictions of a phase are collected ("Runs while every other actor is parked"),
\* and none is accused of breaking it or handed an activation it must refuse.
ProtocolKept ==
  /\ hpc = "collect" => executing = {}
  /\ \A p \in Phases : visits[p].endReason # "protocol_violation"
  /\ \A a \in Actors : wpc[a] = "parked" => shm.activation[a] <= next[a]

\* When the scheduler returns, a process it launched is gone or its record says
\* that its termination is unresolved.
EveryActorAccounted ==
  hpc = "returned" =>
    \A a \in Actors : CASE wpc[a] = "absent" -> records[a].quiescence = "never_launched"
                        [] wpc[a] = "exited" -> records[a].quiescence # "never_launched"
                        [] OTHER -> records[a].quiescence = "unresolved"

\* A visit is recorded as ended or died before completion only if its
\* completion was not published ("completed, or the first failure that ended
\* the visit").
EndReasonIsTrue ==
  \A p \in Phases :
    visits[p].endReason \in {"ended_before_completion", "died_before_completion"} =>
      ~visits[p].completionObserved

\* The scheduler returns, wherever its actors hang.
SchedulerReturns == <>(hpc = "returned")

=============================================================================
