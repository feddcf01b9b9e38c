------------------------- MODULE ValidatorCollection -------------------------
(***************************************************************************)
(* The validator collections of a run (CWorkerOrchestrator,                *)
(* ValidatorClient): at each phase boundary the host plans the queries     *)
(* that are eligible at that moment, starts one validator for them within  *)
(* an allowance all phases share, reads what it answers until it ends or   *)
(* must be cut off, reaps it if it can, and charges the time it took.  The *)
(* controller (phase_collection_issues, validator_ownership_problem,       *)
(* association_issues) recomputes plan and associations from the reply.    *)
(*                                                                         *)
(* Time counts milliseconds.  A record's operation and filter are one      *)
(* value, its query; "other" is a query nobody asked.                      *)
(***************************************************************************)
EXTENDS DispositionReader

CONSTANTS PhaseSteps,     \* the probe steps of each phase
          Budget,         \* phaseCollectionBudgetMs
          Allowance,      \* what one collection may take, before the budget clamps it
          ClockMax        \* the largest value of the clock

ASSUME BudgetAssumption == Budget \in Nat \ {0} /\ Allowance \in Nat \ {0}
ASSUME ClockAssumption == ClockMax \in Nat /\ Budget + 2 * Allowance < ClockMax

VARIABLE vc   \* the collections made so far and the one in progress

Phases == DOMAIN PhaseSteps
AllSteps == UNION {Range(PhaseSteps[p]) : p \in Phases}
RecordsPerProbe == 2
GraceMax == 1
least(a, b) == IF a < b THEN a ELSE b
-----------------------------------------------------------------------------
(* MonotonicDeadline: an allowance that the clock's width cannot hold ends  *)
(* at its last value.                                                       *)

\* Mutant of deadlineAfter: the sum wraps.
deadlineAfter_Wrapping(started, ms) == (started + ms) % (ClockMax + 1)

deadlineAfter(started, ms) == IF started > ClockMax - ms THEN ClockMax ELSE started + ms
remainingAt(deadline, now) == IF now >= deadline THEN 0 ELSE deadline - now
-----------------------------------------------------------------------------
(* The association of records with queries, as the host makes it.           *)

naming(records, id) == SelectSeq(records, LAMBDA r : r.step_id = id)
isPrediction(r) == r.outcome \in {"allow", "deny"}
\* Diagnostics may omit the query; what a record says of it must agree.
mismatched(r, query) == (isPrediction(r) \/ r.query # Null) /\ r.query # query

\* Mutant of associate: the first of two records that name a step is taken.
associate_First(records, probes) ==
  {[kind |-> "missing_id", step_id |-> id, count |-> 0] :
     id \in {i \in probes : naming(records, i) = <<>>}}

associate(records, probes) ==
  {[kind |-> CASE Len(naming(records, id)) = 0 -> "missing_id"
               [] Len(naming(records, id)) = 1 -> "query_mismatch"
               [] OTHER -> "duplicate_id",
    step_id |-> id, count |-> Len(naming(records, id))] :
     id \in {i \in probes : \/ Len(naming(records, i)) # 1
                            \/ mismatched(naming(records, i)[1], i)}}
  \cup {[kind |-> "unexpected_id", step_id |-> id, count |-> Len(naming(records, id))] :
          id \in {r.step_id : r \in Range(records)} \ (probes \cup {Null})}
  \cup (IF naming(records, Null) = <<>> THEN {}
        ELSE {[kind |-> "unassociated", step_id |-> Null,
               count |-> Len(naming(records, Null))]})
joined(records, probes, id) ==
  {r \in Range(naming(records, id)) :
     id \in probes /\ Len(naming(records, id)) = 1 /\ ~mismatched(r, id)}
-----------------------------------------------------------------------------
(* The phase boundary of CWorkerOrchestrator.run.                           *)

NotReached == [status |-> "not_reached", closed |-> FALSE, planned |-> FALSE, probes |-> {}, output |-> {},
               spawn_failed |-> FALSE]
setStatus(v, status) == [v EXCEPT !.phase[v.at].status = status]
close(v) == [v EXCEPT !.phase[v.at].closed = TRUE, !.at = @ + 1, !.pc = "arrive"]

\* The worker arrives at its next phase, or no further phase is reached.
Arrive ==
  /\ vc.pc = "arrive"
  /\ \/ vc.at \in Phases /\ vc' = [vc EXCEPT !.pc = "begin"]
     \/ vc' = [vc EXCEPT !.pc = "report"]

\* Without a clock nothing is planned, and no later phase has an allowance either.
Begin ==
  /\ vc.pc = "begin"
  /\ \/ vc' = close([setStatus(vc, "clock_unavailable") EXCEPT !.remaining = 0])
     \/ vc' = [vc EXCEPT !.pc = "plan", !.started = vc.now]

Tick(v, t) == [v EXCEPT !.now = least(@ + t, ClockMax)]

\* The deferred charge; an unusable clock leaves no allowance.
charge(v) == [v EXCEPT !.remaining = @ - least(@, v.now - v.started)]
charged(v) == {charge(v), [v EXCEPT !.remaining = 0]}

\* Planning takes time, and decides anew which paths resolve.
Plan_Queries ==
  /\ vc.pc = "plan"
  /\ \E probes \in SUBSET Range(PhaseSteps[vc.at]), t \in 0..1 :
       LET v == Tick([vc EXCEPT !.phase[vc.at].planned = TRUE, !.phase[vc.at].probes = probes], t)
           left == v.remaining
       IN IF probes = {}
          THEN \E w \in charged(v) : vc' = close(setStatus(w, "not_needed"))
          ELSE \/ vc' = close([setStatus(v, "clock_unavailable") EXCEPT !.remaining = 0])
               \/ /\ left <= t + 1
                  /\ \E w \in charged(v) : vc' = close(setStatus(w, "budget_exhausted"))
               \/ /\ left > t + 1
                  /\ vc' = [setStatus(v, "collected") EXCEPT !.pc = "launch",
                            !.allowed = least(Allowance, left - t)]

\* Pipes and spawn; only a failed spawn is recorded as such.
Launch ==
  /\ vc.pc = "launch"
  /\ \/ \E failed \in BOOLEAN, w \in charged(vc) :
          vc' = close([w EXCEPT !.phase[vc.at].spawn_failed = failed])
     \/ vc' = [vc EXCEPT !.pc = "collect",
               !.deadline = deadlineAfter(vc.now, vc.allowed)]

record(step, query, outcome) == [step_id |-> step, query |-> query, outcome |-> outcome]
Malformed == record(Null, Null, "malformed")
\* What a validator may answer: to the query, to another, for a step of another
\* phase, a diagnostic with or without a step, or no record at all.
Answers(p) ==
  UNION {{record(s, s, "allow"), record(s, "other", "deny"), record(s, Null, "bad_filter")} :
           s \in {PhaseSteps[p][1]}}
  \cup {record(s, s, "allow") : s \in AllSteps \ {PhaseSteps[p][1]}}
  \cup {record(Null, Null, "parse_error"), Malformed}

\* decodeValidatorFrames: the records before the first fault, within the bound.
decodable(bytes, limit) ==
  LET ok(k) == k <= limit /\ \A j \in 1..k : bytes[j] # Malformed
      n == CHOOSE k \in 0..Len(bytes) : ok(k) /\ \A m \in k + 1..Len(bytes) : ~ok(m)
  IN SubSeq(bytes, 1, n)

\* The readers take the phases one by one, so the validator of one phase, the watched
\* one, answers as it likes and the others as they should.
replies(v) ==
  IF v.at = v.watched THEN UNION {[1..n -> Answers(v.at)] : n \in 0..2}
  ELSE {SetToSeq({record(s, s, "allow") : s \in v.phase[v.at].probes})}

\* The duplex loop, however it ends: by EOF, at the deadline, or by a failed call or
\* clock.  A failed write does not end it.
CollectOutput ==
  /\ vc.pc = "collect"
  /\ \E bytes \in replies(vc), t \in {0, remainingAt(vc.deadline, vc.now)} :
       LET limit == RecordsPerProbe * Cardinality(vc.phase[vc.at].probes)
       IN vc' = [Tick(vc, t) EXCEPT !.pc = "reap", !.spent = @ + t,
                 !.phase[vc.at].output =
                   {[records |-> decodable(bytes, limit), reaped |-> FALSE]}]

\* The exit grace, the kill and the reap, which may fail.
ReapValidator ==
  /\ vc.pc = "reap"
  /\ \E reaped \in BOOLEAN, t \in 0..GraceMax :
       LET v == Tick([vc EXCEPT !.phase[vc.at].output =
                        {[o EXCEPT !.reaped = reaped] : o \in @}], t)
       IN \E w \in charged(v) : vc' = close(w)
-----------------------------------------------------------------------------
(* The reply.                                                               *)

dispositionOf(p) ==
  CASE ~p.closed -> "not_invoked"
    [] p.closed /\ p.probes = {} -> "not_needed"
    [] p.closed /\ p.probes # {} /\ ~Present(p.output) -> "not_spawned"
    [] OTHER -> IF Value(p.output).reaped THEN "reaped" ELSE "unconfirmed"

replyPhase(k, p, withWorker) ==
  [phase_id |-> k, ordinal |-> k, collection_status |-> p.status,
   disposition |-> IF withWorker THEN {dispositionOf(p)} ELSE {},
   spawn_failure |-> IF p.spawn_failed THEN {"spawn"} ELSE {},
   validator |-> {[phase_id |-> k, ordinal |-> k, reaped |-> o.reaped, records |-> o.records,
                   expected_step_ids |-> p.probes,
                   association_issues |-> associate(o.records, p.probes)] : o \in p.output}]

replyStepsOf(k, p) ==
  {[step_id |-> s, phase_id |-> k,
    source |-> IF Present(p.output) /\ Present(joined(Value(p.output).records, p.probes, s))
               THEN "validator" ELSE "synthetic",
    missing_reason |->
      IF p.planned /\ s \notin p.probes THEN "query_not_requested"
      ELSE IF ~Present(p.output) THEN "validator_not_invoked"
      ELSE IF Present(joined(Value(p.output).records, p.probes, s)) THEN Null
      ELSE "validator_no_verdict"] : s \in Range(PhaseSteps[k])}

\* A run that never got a worker reaches no phase and has no ordering to report.
Report ==
  /\ vc.pc = "report"
  /\ \E withWorker \in {b \in BOOLEAN : b \/ vc.at = 1} :
       vc' = [vc EXCEPT !.pc = "reported",
              !.reply = {[phases |-> [k \in Phases |-> replyPhase(k, vc.phase[k], withWorker)],
                          steps |-> UNION {replyStepsOf(k, vc.phase[k]) : k \in Phases}]}]
-----------------------------------------------------------------------------
(* The controller's readers.                                                *)

\* The issues that the records imply for the eligible steps, counted group by group.
association_issues(records, eligible) ==
  LET ids == {r.step_id : r \in Range(records)}
      count(id) == Cardinality({k \in DOMAIN records : records[k].step_id = id})
      only(id) == records[CHOOSE k \in DOMAIN records : records[k].step_id = id]
      issue(kind, id) == [kind |-> kind, step_id |-> id, count |-> count(id)]
  IN {issue("missing_id", id) : id \in eligible \ ids}
     \cup {issue("duplicate_id", id) : id \in {i \in eligible : count(i) > 1}}
     \cup {issue("query_mismatch", id) :
             id \in {i \in eligible : count(i) = 1 /\ mismatched(only(i), i)}}
     \cup {issue("unexpected_id", id) : id \in ids \ (eligible \cup {Null})}
     \cup {issue("unassociated", id) : id \in ids \cap {Null}}

validator_ownership_accepted(runner, phase, block) ==
  LET eligible == {s.step_id : s \in {x \in runner.steps : x.phase_id = phase.phase_id
                                       /\ x.missing_reason # "query_not_requested"}}
  IN /\ block.phase_id = phase.phase_id /\ block.ordinal = phase.ordinal
     /\ block.expected_step_ids = eligible
     /\ block.association_issues = association_issues(block.records, eligible)

phase_collection_accepted(runner) ==
  \A k \in DOMAIN runner.phases :
    LET phase == runner.phases[k]
        d == phase.disposition
        collected == phase.collection_status = "collected"
    IN /\ CASE phase.collection_status = "not_reached" -> d \subseteq {"not_invoked"}
            [] phase.collection_status = "not_needed" -> d = {"not_needed"}
            [] collected -> Present(d) /\ d \subseteq {"not_spawned", "reaped", "unconfirmed"}
            [] phase.collection_status = "budget_exhausted" -> d = {"not_spawned"}
            [] phase.collection_status = "clock_unavailable" ->
                 Present(d) /\ d \subseteq {"not_needed", "not_spawned"}
            [] OTHER -> FALSE
       /\ IF ~collected THEN ~Present(phase.validator) /\ ~Present(phase.spawn_failure)
          ELSE IF d = {"not_spawned"} THEN ~Present(phase.validator)
          ELSE /\ Present(phase.validator) /\ ~Present(phase.spawn_failure)
               /\ \A block \in phase.validator : block.reaped = (d = {"reaped"})
       /\ \A block \in phase.validator : validator_ownership_accepted(runner, phase, block)
-----------------------------------------------------------------------------
CollectionStarts ==
  {[watched |-> watched, pc |-> "arrive", at |-> 1, remaining |-> Budget, now |-> now, started |-> 0,
    allowed |-> 0, deadline |-> 0, spent |-> 0,
    phase |-> [p \in Phases |-> NotReached], reply |-> {}] :
    now \in {0, ClockMax - 2}, watched \in Phases}

NextCollection ==
  \/ Arrive \/ Begin \/ Plan_Queries \/ Launch \/ CollectOutput \/ ReapValidator \/ Report

\* The controller accepts the collections of every run, whatever the validators
\* answered and whichever of them failed, and finds a verdict only on a step that
\* exactly one record of its own phase answers.
CollectionAccepted ==
  \A r \in vc.reply :
    /\ phase_collection_accepted(r)
    /\ \A s \in r.steps : s.source = "validator" =>
         \A block \in r.phases[s.phase_id].validator :
           /\ \E x \in Range(block.records) : x.step_id = s.step_id
           /\ \A issue \in block.association_issues : issue.step_id # s.step_id

\* All collections of a run together read validators no longer than the budget they
\* share, and each is given an allowance that it can use.
CollectionWithinBudget ==
  /\ vc.spent <= Budget
  /\ vc.pc = "collect" /\ vc.now < ClockMax => remainingAt(vc.deadline, vc.now) > 0
=============================================================================
