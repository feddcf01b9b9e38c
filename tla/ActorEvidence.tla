---------------------------- MODULE ActorEvidence ----------------------------
(***************************************************************************)
(* The account of the termination gates: what the runner's reply says of   *)
(* each gate and of each actor's owned reap, read by the controller's      *)
(* admission of actor evidence (actor_evidence.rs).  Ordinals are the      *)
(* host's captures of one child; instants follow them.                     *)
(***************************************************************************)
EXTENDS ActorScheduler

\* ActorOrchestration's phase result: what of a visit reaches the reply.
activation_observation(p) == IF visits[p].activationStored THEN {visits[p].activation} ELSE {}
activation_eligible(p) == visits[p].gate.outcome = "satisfied"
equipmentEligible == cancelled # "equipment_execution"

owned_reap_valid(a) ==
  /\ wpc[a] # "absent" /\ child[a].reaped
  /\ \A reap \in child[a].ownedReap : reap.capture_ordinal > 0

\* The source is another actor, and the final phase its last, before this one.
dependencyOrdered(p) ==
  LET final == Dependency[p]
  IN /\ Schedule[final] # Schedule[p] /\ final < p
     /\ \A q \in Phases : q > final => Schedule[q] # Schedule[final]

\* What the gate saw is its source's owned reap, captured before the gate ended.
observationResolves(p) ==
  LET gate == visits[p].gate
      source == Schedule[Dependency[p]]
  IN gate.observation # {} =>
       /\ owned_reap_valid(source)
       /\ gate.observation = {reap.capture_ordinal : reap \in child[source].ownedReap}
       /\ \A r \in gate.observation : r > 0 /\ r < gate.capture_ordinal

\* A natural owned reap after the final activation.
satisfiedNaturally(p) ==
  LET gate == visits[p].gate
      source == Schedule[Dependency[p]]
  IN \E reap \in child[source].ownedReap, a \in activation_observation(Dependency[p]) :
       /\ owned_reap_valid(source)
       /\ reap.ownership_unbroken /\ ~reap.departure_requested
       /\ reap.stage \in {"schedule", "termination_gate"}
       /\ gate.observation = {reap.capture_ordinal}
       /\ a < reap.capture_ordinal /\ reap.capture_ordinal < gate.capture_ordinal

\* A failed gate enabled neither collection nor release.
failedClosed(p) ==
  /\ ~activation_eligible(p) /\ activation_observation(p) = {}
  /\ p \notin shm.proceed /\ ~visits[p].collectionClosed

eligibleIndependently(p) ==
  activation_eligible(p) => records[Schedule[p]].setupStatus = "applied" /\ equipmentEligible

GateOutcomes ==
  {"not_reached", "satisfied", "timed_out", "ownership_lost", "clock_unavailable",
   "source_unavailable", "source_departure_requested", "execution_allowance_exhausted"}

gates ==
  /\ \A a \in Actors : child[a].ownedReap # {} => owned_reap_valid(a)
  /\ \A p \in Phases : \A n \in activation_observation(p) : n > 0
  /\ \A p \in Phases : Dependency[p] # 0 =>
       /\ dependencyOrdered(p)
       /\ visits[p].gate.outcome \in GateOutcomes
       /\ observationResolves(p)
       /\ IF visits[p].gate.outcome = "satisfied" THEN satisfiedNaturally(p) ELSE failedClosed(p)
       /\ eligibleIndependently(p)

\* A gate opens only on a natural departure, and the account of gates and reaps that
\* the runner sends is one the controller admits, however the source ended, whoever
\* reaped it and whenever: the reader's demands on ordinals, stages and departures
\* hold of every schedule.
GatesAreTrue == GateIsNatural /\ (hpc = "returned" => gates)
=============================================================================
