-------------------------- MODULE DispositionReader --------------------------
(***************************************************************************)
(* The controller's reading of a worker disposition record                 *)
(* (disposition.rs): every claim the runner makes about a worker is        *)
(* checked against the raw facts beside it, and the diagnostics are        *)
(* projected from a record that passed, or withheld.                       *)
(*                                                                         *)
(* An optional JSON value is a set of at most one element, a JSON object a *)
(* record, and a list of issues the truth of a conjunction: the reader     *)
(* accepts a record when it finds nothing to report.  The first step has   *)
(* index 0 in the code and 1 here.                                         *)
(***************************************************************************)
EXTENDS Integers, Sequences, FiniteSets, SequencesExt, TLC

Null == "null"
Present(x) == x # {}
Value(x) == CHOOSE v \in x : TRUE

ClaimStates == {"supported", "unresolved", "conflicting", "inapplicable"}
RunQuestions == {"final_status", "stop_reason", "cleanup_trigger", "grace_end",
                 "kill_request_and_result", "collection_basis", "progress_association"}
StepQuestions == {"step_boundary_reached", "step_result_published",
                  "step_requested_operation_applicability"}
RunReferences == {"reaped", "exit_code", "term_signal", "poll_stop_reason", "exit_requested",
                  "termination_request", "wait_errors", "cleanup_trigger", "grace_end",
                  "collection_basis", "done_observed", "progress", "worker_failure", "plan"}
StepReferences == {"slot", "attempt_support"}
CauseForTrigger == [deadline_expiry |-> "host_sentinel_deadline",
                    completion |-> "host_exit_grace_exhausted",
                    poll_wait_error |-> "host_cleanup_after_wait_error",
                    policy_transfer_error |-> "host_cleanup_after_transfer_error",
                    policy_transfer_timeout |-> "host_cleanup_after_transfer_timeout"]
StopReasons == {"sentinel_deadline", "done", "child_reaped", "wait_error",
                "policy_write_error", "policy_transfer_deadline"}

\* i is the step a claim is about, 0 for a claim about the run.
reference_resolves(token, sub, i) ==
  CASE token \in StepReferences -> i # 0
    [] token = "plan" -> TRUE
    [] token = "termination_request" -> \/ Present(sub.termination_request)
                                        \/ Present(sub.exit_requested)
    [] OTHER -> Present(sub[token])

\* The witnesses a supported answer needs; an unknown answer is kept as it is.
sufficient_disposition_basis(name, c) ==
  LET has(tokens) == tokens \subseteq c.basis
  IN CASE name = "final_status" /\ c.answer = "signal" -> has({"reaped", "term_signal"})
       [] name = "final_status" /\ c.answer = "exit_code" -> has({"reaped", "exit_code"})
       [] name = "stop_reason" -> has({"poll_stop_reason"})
       [] name \in {"cleanup_trigger", "grace_end"} -> has({name, "exit_requested"})
       [] name = "collection_basis" -> has({"collection_basis"})
       [] name = "kill_request_and_result" /\ c.answer = "requested" ->
            has({"termination_request"})
       [] name = "kill_request_and_result" /\ c.answer = "none" ->
            has({"termination_request", "exit_requested"})
       [] name = "progress_association" /\ c.answer \in {"step_index", "invalid"} ->
            has({"progress", "plan"})
       [] name = "progress_association" /\ c.answer \in {"none", "parameter_index"} ->
            has({"progress"})
       [] name = "step_requested_operation_applicability" -> has({"attempt_support"})
       [] name = "step_boundary_reached" /\ c.answer = "reached" ->
            has({"progress"}) \/ has({"slot", "attempt_support"})
       [] name = "step_boundary_reached" /\ c.answer = "not_reached" ->
            has({"progress", "slot", "collection_basis"})
       [] name = "step_result_published" /\ c.answer = "published" ->
            has({"slot", "attempt_support"})
       [] name = "step_result_published" /\ c.answer = "unpublished" ->
            has({"slot", "collection_basis"})
       [] OTHER -> TRUE
-----------------------------------------------------------------------------
(* The protocol position a progress word names.                             *)

ProtocolOrder == <<1, 12, 2, 3, 4, 5, 6, 7, 8, 13, 11, 9, 10>>
orderOf(op) == CHOOSE k \in DOMAIN ProtocolOrder : ProtocolOrder[k] = op
AttemptOrder == orderOf(9)
IndexLimit == 1048575
\* One 32-bit word: operation, stage, and the index plus one, or zero.
progressWord(op, stage, index) ==
  op * 16777216 + stage * 1048576 + (IF Present(index) THEN Value(index) + 1 ELSE 0)

\* Lexicographic order on (order, index, stage).
before(p, q) ==
  \/ p[1] < q[1]
  \/ p[1] = q[1] /\ p[2] < q[2]
  \/ p[1] = q[1] /\ p[2] = q[2] /\ p[3] < q[3]
atLeast(position, q) == Present(position) /\ ~before(Value(position), q)

\* Only a parameter, an attempt and a phase wait carry an index; a wait for the end
\* of the plan has the index after the last step.
indexFits(p, count) ==
  /\ p.operation \in {4, 9} => Present(p.index)
  /\ Present(p.index) => p.operation \in {4, 9, 11, 13}
  /\ \A i \in p.index : /\ i < IndexLimit
                        /\ p.operation = 9 => i < count
                        /\ p.operation \in {11, 13} => i <= count

NoPosition == [answer |-> Null, index |-> {}, position |-> {}]
disposition_progress(progress, count) ==
  IF ~Present(progress) THEN NoPosition
  ELSE LET p == Value(progress)
           phaseWait == p.operation \in {11, 13} /\ Present(p.index)
           i == IF Present(p.index) THEN Value(p.index) ELSE 0
       IN IF p.operation \notin Range(ProtocolOrder) \/ p.stage \notin {1, 2}
          THEN NoPosition
          ELSE IF \/ ~indexFits(p, count)
                  \/ p.raw # progressWord(p.operation, p.stage, p.index)
          THEN [NoPosition EXCEPT !.answer = "invalid"]
          ELSE IF phaseWait
          THEN [answer |-> "none", index |-> {}, position |-> {<<AttemptOrder, i, 0>>}]
          ELSE [answer |-> CASE p.operation = 9 -> "step_index"
                             [] p.operation = 4 -> "parameter_index"
                             [] OTHER -> "none",
                index |-> p.index,
                position |-> {<<orderOf(p.operation), i, p.stage>>}]
-----------------------------------------------------------------------------
(* validate_disposition.                                                    *)

Supported(c, answer) == c.state = "supported" /\ c.answer = answer

disposition_summary(step) ==
  LET b == step.questions["step_boundary_reached"]
      r == step.questions["step_result_published"]
  IN IF step.attempt_support = "unsupported" THEN "unsupported"
     ELSE IF Supported(r, "published") THEN "completed"
     ELSE IF "conflicting" \in {b.state, r.state} THEN "conflicting"
     ELSE IF ~Supported(r, "unpublished") THEN "unresolved"
     ELSE CASE Supported(b, "reached") -> "started_without_result"
            [] Supported(b, "not_reached") -> "not_reached"
            [] OTHER -> "unresolved"

\* A conflicting claim points at the issue that reports this very conflict.
matchingIssue(name, c, i, record, sub) ==
  /\ c.issue \in DOMAIN record.issues
  /\ LET issue == record.issues[c.issue]
     IN /\ issue.kind = "conflict" /\ issue.question = name /\ issue.step = i
        /\ issue.rule = IF name = "final_status" THEN "D1" ELSE "D5"
        /\ name \in {"final_status", "step_boundary_reached", "step_result_published"}
        /\ (IF name = "final_status" THEN {"exit_code", "term_signal"}
            ELSE {"progress", "slot", "collection_basis"}) \subseteq issue.observations
        /\ \A t \in issue.observations : reference_resolves(t, sub, i)

check_claim(name, c, i, record, sub) ==
  /\ c.state \in ClaimStates
  /\ CASE c.state = "supported" ->
            /\ c.answer # Null /\ c.basis # {}
            /\ \A t \in c.basis :
                 /\ t \in RunReferences \/ (i # 0 /\ t \in StepReferences)
                 /\ reference_resolves(t, sub, i)
            /\ sufficient_disposition_basis(name, c)
       [] c.state = "conflicting" -> matchingIssue(name, c, i, record, sub)
       [] OTHER -> c.reason # Null

isReaped(sub) == sub.reaped = {TRUE}
isTerminal(sub) == sub.collection_basis = {"after_confirmed_reap"} /\ isReaped(sub)

\* A terminal collection needs the reap; cleanup claims need the exit request.
cleanupConsistent(q, sub) ==
  /\ sub.collection_basis = {"after_confirmed_reap"} => isReaped(sub)
  /\ sub.exit_requested = {FALSE} =>
       \A name \in {"cleanup_trigger", "grace_end", "kill_request_and_result"} :
         q[name].state # "supported"

\* Mutant of finalStatusConsistent: a status is believed without the reap.
finalStatusConsistent_NoReap(c, sub) ==
  /\ Supported(c, "signal") => c.value = sub.term_signal
  /\ Supported(c, "exit_code") => c.value = sub.exit_code

finalStatusConsistent(c, sub) ==
  /\ Supported(c, "signal") =>
       /\ isReaped(sub) /\ Present(sub.term_signal) /\ ~Present(sub.exit_code)
       /\ c.value = sub.term_signal
  /\ Supported(c, "exit_code") =>
       /\ isReaped(sub) /\ Present(sub.exit_code) /\ ~Present(sub.term_signal)
       /\ c.value = sub.exit_code
  /\ c.state = "conflicting" =>
       isReaped(sub) /\ Present(sub.exit_code) /\ Present(sub.term_signal)

hostFactsConsistent(q, sub) ==
  \A pair \in {<<"stop_reason", "poll_stop_reason">>, <<"cleanup_trigger", "cleanup_trigger">>,
               <<"grace_end", "grace_end">>, <<"collection_basis", "collection_basis">>} :
    q[pair[1]].state = "supported" => sub[pair[2]] = {q[pair[1]].answer}

killConsistent(c, sub) ==
  /\ Supported(c, "requested") => /\ Present(sub.termination_request)
                                  /\ c.value = sub.termination_request
  /\ Supported(c, "none") => ~Present(sub.termination_request)

progressConsistent(c, at) ==
  c.state = "supported" /\ c.answer \in {"none", "invalid", "step_index", "parameter_index"} =>
    c.answer = at.answer /\ c.value = at.index

\* The claims about one step, against its slot and the worker's last position.
stepConsistent(record, sub, at, i) ==
  LET step == record.steps[i]
      c == step.questions
      boundary == c["step_boundary_reached"]
      result == c["step_result_published"]
      completed == step.slot = "completed"
      isSupported == step.attempt_support = "supported"
      reached == atLeast(at.position, <<AttemptOrder, i - 1, 1>>)
      returned == atLeast(at.position, <<AttemptOrder, i - 1, 2>>)
      boundaryConflict == isTerminal(sub) /\ Present(at.position) /\ ~reached /\ completed
      resultConflict == isTerminal(sub) /\ returned /\ step.slot = "incomplete" /\ isSupported
      applicability == c["step_requested_operation_applicability"]
  IN /\ step.index = i
     /\ step.slot \in {"completed", "incomplete", "absent"}
     /\ step.attempt_support \in {"supported", "unsupported"}
     /\ \A name \in StepQuestions : check_claim(name, c[name], i, record, sub)
     /\ applicability.state = "supported"
          /\ applicability.answer \in {"supported", "unsupported"}
          => applicability.answer = step.attempt_support
     /\ Supported(result, "published") => completed /\ isSupported
     /\ Supported(result, "unpublished") =>
          step.slot = "incomplete" /\ isTerminal(sub) /\ isSupported /\ ~resultConflict
     /\ Supported(boundary, "not_reached") =>
          isTerminal(sub) /\ ~completed /\ Present(at.position) /\ ~reached
     /\ Supported(boundary, "reached") =>
          /\ ~boundaryConflict
          /\ \/ reached /\ "progress" \in boundary.basis
             \/ completed /\ isSupported /\ {"slot", "attempt_support"} \subseteq boundary.basis
     /\ boundary.state = "conflicting" => boundaryConflict
     /\ result.state = "conflicting" => resultConflict

TransferStatus == {"none", "delivered", "custody_unavailable", "recipient_rejected",
                   "recipient_timeout", "recipient_unavailable", "request_invalid",
                   "host_timeout", "clock_fault", "copy_mismatch"}

\* An event of the actor form publishes its native result and nothing else.
eventConsistent(reply, completed) ==
  LET silent == ~Present(reply.native_result) /\ ~Present(reply.errno)
                  /\ ~Present(reply.unavailable_reason)
  IN /\ reply.result_published = completed
     /\ IF reply.operation = "transfer"
        THEN /\ ~reply.call_boundary_observed /\ silent
             /\ IF completed THEN reply.status \in TransferStatus
                             ELSE reply.status = "unresolved"
        ELSE CASE reply.status = "returned" ->
                    /\ completed /\ reply.call_boundary_observed
                    /\ Present(reply.native_result) /\ Present(reply.errno)
                    /\ ~Present(reply.unavailable_reason)
               [] reply.status = "unavailable" ->
                    /\ completed /\ ~reply.call_boundary_observed
                    /\ ~Present(reply.native_result) /\ ~Present(reply.errno)
                    /\ Present(reply.unavailable_reason)
               [] reply.status = "unresolved" -> ~completed /\ silent
               [] OTHER -> FALSE

\* A probe step says where its attempt result comes from, or why there is none.
attemptConsistent(reply, step, completed) ==
  /\ reply.result_source = IF completed THEN "worker" ELSE "synthetic"
  /\ reply.missing_reason =
       CASE completed -> Null
         [] step.attempt_support # "supported" -> "attempt_not_supported"
         [] step.attempt_support = "supported" /\ step.slot = "absent" -> "slot_absent"
         [] OTHER -> "slot_incomplete"

Summaries == {"completed", "started_without_result", "not_reached", "unsupported",
              "unresolved", "conflicting"}
limitationFor(summary) ==
  CASE summary = "completed" -> {}
    [] summary = "unresolved" -> {"attempt:lifecycle_unresolved"}
    [] summary = "conflicting" -> {"attempt:lifecycle_conflicting"}
    [] summary = "unsupported" -> {"attempt:unsupported"}
    [] summary = "not_reached" -> {"attempt:not_reached"}
    [] OTHER -> {"attempt:started_without_result"}

lifecycleConsistent(reply, step, reporting_failed) ==
  LET summary == disposition_summary(step)
  IN /\ reply.lifecycle.boundary = step.questions["step_boundary_reached"]
     /\ reply.lifecycle.result = step.questions["step_result_published"]
     /\ reply.lifecycle.summary # Null
     /\ reply.lifecycle.summary \in Summaries => reply.lifecycle.summary = summary
     /\ \/ reply.operation # Null
        \/ reporting_failed /\ ~Present(reply.limitations)
        \/ reply.limitations = {limitationFor(summary)}

replyConsistent(record, replySteps, i, reporting_failed) ==
  LET step == record.steps[i]
      reply == replySteps[i]
      completed == step.attempt_support = "supported" /\ step.slot = "completed"
  IN /\ reply.step_id = step.step_id
     /\ IF reply.operation # Null THEN eventConsistent(reply, completed)
                                  ELSE attemptConsistent(reply, step, completed)
     /\ lifecycleConsistent(reply, step, reporting_failed)

\* Every reported issue is the issue of some conflicting claim.
issuesReferenced(record) ==
  \A k \in DOMAIN record.issues :
    LET points(c) == c.state = "conflicting" /\ c.issue = k
    IN \/ \E name \in RunQuestions : points(record.questions[name])
       \/ \E i \in DOMAIN record.steps, name \in StepQuestions :
            points(record.steps[i].questions[name])

validate_disposition(record, sub, replySteps, reporting_failed) ==
  LET q == record.questions
      at == disposition_progress(sub.progress, Len(record.steps))
  IN /\ \A name \in RunQuestions : check_claim(name, q[name], 0, record, sub)
     /\ cleanupConsistent(q, sub)
     /\ finalStatusConsistent(q["final_status"], sub)
     /\ hostFactsConsistent(q, sub)
     /\ killConsistent(q["kill_request_and_result"], sub)
     /\ Len(record.steps) = Len(replySteps)
     /\ progressConsistent(q["progress_association"], at)
     /\ sub.partial_steps = \E i \in DOMAIN record.steps : record.steps[i].slot # "completed"
     /\ \A i \in DOMAIN record.steps : stepConsistent(record, sub, at, i)
     /\ \A i \in DOMAIN record.steps \cap DOMAIN replySteps :
          replyConsistent(record, replySteps, i, reporting_failed)
     /\ issuesReferenced(record)
-----------------------------------------------------------------------------
(* project_disposition.                                                     *)

Withheld == [disposition |-> "withheld", cause |-> "unknown", stop_reason |-> Null,
             integrity |-> "invalid"]

\* The end of the host's cleanup that a label names, witnessed from end to end.
host_cause(q) ==
  LET kill == q["kill_request_and_result"]
      trigger == q["cleanup_trigger"]
  IN IF /\ trigger.state = "supported" /\ trigger.answer \in DOMAIN CauseForTrigger
        /\ Supported(q["grace_end"], "exhausted")
        /\ Supported(kill, "requested")
        /\ \E request \in kill.value :
             request.rc = 0 /\ q["final_status"].value = {request.signal}
     THEN CauseForTrigger[trigger.answer] ELSE "unknown"

project_disposition(records, sub, replySteps, reporting_failed) ==
  IF \/ ~Present(records)
     \/ ~validate_disposition(Value(records), sub, replySteps, reporting_failed)
  THEN Withheld
  ELSE LET q == Value(records).questions
           final == q["final_status"]
           disposition ==
             CASE Supported(final, "signal") -> "signaled"
               [] Supported(final, "exit_code") ->
                    IF final.value = {0} THEN "clean_exit" ELSE "nonzero_exit"
               [] final.state = "conflicting" -> "conflicting"
               [] final.state \in {"unresolved", "inapplicable"} -> "unconfirmed"
               [] OTHER -> "unrecognized"
           stop == q["stop_reason"]
       IN [disposition |-> disposition,
           cause |-> CASE disposition = "clean_exit" -> Null
                       [] disposition = "signaled" -> host_cause(q)
                       [] OTHER -> "unknown",
           stop_reason |-> IF stop.state = "supported" /\ stop.answer \in StopReasons
                           THEN stop.answer ELSE Null,
           integrity |-> "valid"]
-----------------------------------------------------------------------------
(* execution_diagnostics: a reply has workers (one of them in the ordinary  *)
(* form), probe steps, extension events, the declared order of the actions, *)
(* and native_issues, the verdict of the other readers on the whole reply.  *)

NoWorker == [disposition |-> "no_worker", cause |-> Null, stop_reason |-> Null, integrity |-> Null]

\* The reply keeps steps and events apart; a record follows the declared order.
actorSteps(runner, actor) ==
  LET place(s) == CHOOSE k \in DOMAIN runner.action_ids : runner.action_ids[k] = s.step_id
  IN SortSeq(SelectSeq(runner.steps \o runner.extension_events, LAMBDA s : s.actor_id = actor),
             LAMBDA s, t : place(s) < place(t))

workerDiagnostics(worker, steps, reporting_failed) ==
  IF ~Present(worker.subprocess) THEN NoWorker
  ELSE project_disposition(worker.records, Value(worker.subprocess), steps, reporting_failed)

actor_execution_diagnostics(runner) ==
  LET each == [k \in DOMAIN runner.workers |->
                 workerDiagnostics(runner.workers[k],
                                   actorSteps(runner, runner.workers[k].actor_id),
                                   runner.reporting_failed)]
      launched == \E k \in DOMAIN each : each[k].disposition # "no_worker"
      valid == \A k \in DOMAIN each : each[k] = NoWorker \/ each[k].integrity = "valid"
  IN [disposition |-> IF runner.native_issues THEN "withheld"
                      ELSE IF launched THEN "per_actor" ELSE "no_worker",
      cause |-> IF runner.native_issues THEN "unknown" ELSE Null,
      stop_reason |-> Null,
      integrity |-> IF ~launched /\ ~runner.native_issues THEN Null
                    ELSE IF runner.native_issues \/ ~valid THEN "invalid" ELSE "valid",
      actors |-> each]

execution_diagnostics(runner) ==
  IF runner.execution_form = "actors" THEN actor_execution_diagnostics(runner)
  ELSE LET p == workerDiagnostics(runner.workers[1], runner.steps, runner.reporting_failed)
           q == IF runner.native_issues
                THEN [p EXCEPT !.disposition = "withheld", !.cause = "unknown",
                               !.integrity = "invalid"] ELSE p
       IN q @@ [actors |-> <<p>>]
=============================================================================
