-------------------------- MODULE WorkerDisposition --------------------------
(***************************************************************************)
(* How a disposition record comes about.  A worker publishes progress      *)
(* words and result slots until it finishes, refuses, is told to leave or  *)
(* is killed; the host stops polling it for one of several reasons, asks   *)
(* it to leave, waits out a grace period, kills it, reaps it if it can,    *)
(* and reads the region, which a worker it could not reap goes on writing. *)
(* resolveDisposition then says, claim by claim, what became of the worker *)
(* and of each step, and the controller reads the record with              *)
(* DispositionReader.                                                      *)
(*                                                                         *)
(* The steps of the phase protocol are the module PhaseHandshake: here a   *)
(* worker waiting at a gate may be released at any time.                   *)
(***************************************************************************)
EXTENDS DispositionReader

CONSTANTS Plan,         \* the declared actions: step_id, operation (an event of the actor
                        \* form), support (a request with an unsupported one is refused)
          PhaseSlots,   \* first and end slot of each phase, counted from 0
          HostFaults    \* "transfer", "wait_error", "echild", "kill_error"

ASSUME PlanAssumption ==
  \A i \in DOMAIN Plan : DOMAIN Plan[i] = {"step_id", "operation", "supported"}
ASSUME HostFaultsAssumption ==
  HostFaults \subseteq {"transfer", "wait_error", "echild", "kill_error"}

VARIABLE wd   \* worker, host and reply

SIGKILL == 9
Exit(code) == [exit_code |-> {code}, term_signal |-> {}]
Signal(n) == [exit_code |-> {}, term_signal |-> {n}]
-----------------------------------------------------------------------------
(* The worker: what it publishes, in order.                                 *)

word(op, stage, index) == [kind |-> "word", op |-> op, stage |-> stage, index |-> index]
slotWrite(i) == [kind |-> "slot", slot |-> i]
startedReturned(op, index) == <<word(op, 1, index), word(op, 2, index)>>

\* Two of the set-up operations stand for all: only one word carries an index.
SetUpWords ==
  startedReturned(1, {}) \o startedReturned(4, {0})
phaseWords(p, actor) ==
  LET first == PhaseSlots[p][1]
  IN (IF actor THEN startedReturned(13, {first}) ELSE <<>>) \o startedReturned(11, {first})
     \o FlattenSeq([k \in 1..PhaseSlots[p][2] - first |->
          <<word(9, 1, {first + k - 1}), slotWrite(first + k), word(9, 2, {first + k - 1})>>])
Script ==
  [actor \in BOOLEAN |->
     SetUpWords \o FlattenSeq([p \in DOMAIN PhaseSlots |-> phaseWords(p, actor)])
     \o <<word(10, 2, {})>>]

written(w, n) == SubSeq(Script[w.actor], 1, n)
publishedSlots(w) == {x.slot : x \in {y \in Range(written(w, w.pc)) : y.kind = "slot"}}
progressOf(w) ==
  LET words == SelectSeq(written(w, w.pc), LAMBDA x : x.kind = "word")
  IN IF words = <<>> THEN {}
     ELSE LET x == Last(words)
          IN {[operation |-> x.op, stage |-> x.stage, index |-> x.index,
               raw |-> progressWord(x.op, x.stage, x.index)]}
begun(w) ==
  {Value(x.index) + 1 :
     x \in {y \in Range(written(w, w.pc)) : y.kind = "word" /\ y.op = 9}}

\* Once the host has replied only what a worker still publishes is of interest, and
\* that only to a reply that tells the truth.
Alive(w) == ~Present(w.status)
following(w) == w.host # "misreported" /\ ~w.damaged /\ ~w.degraded
here(w) == Script[w.actor][w.pc]
waiting(w) == w.pc > 0 /\ here(w).kind = "word" /\ here(w).op \in {11, 13} /\ here(w).stage = 1

WorkerPublishes ==
  /\ Alive(wd) /\ following(wd) /\ ~wd.done /\ ~wd.failed /\ wd.pc < Len(Script[wd.actor])
  /\ wd.host = "transfer" => wd.pc < 3
  /\ wd' = [wd EXCEPT !.pc = @ + 1]

\* A refused set-up leaves by an exit code; a refused wait publishes done.
WorkerRefuses ==
  /\ Alive(wd) /\ ~Present(wd.reply) /\ ~wd.done /\ ~wd.failed
  /\ \/ wd.pc \in 1..Len(SetUpWords) /\ wd' = [wd EXCEPT !.failed = TRUE, !.status = {Exit(3)}]
     \/ waiting(wd) /\ wd' = [wd EXCEPT !.failed = TRUE, !.done = TRUE]

WorkerFinishes ==
  /\ Alive(wd) /\ ~Present(wd.reply)
  /\ \/ wd.pc = Len(Script[wd.actor]) /\ ~wd.done /\ wd' = [wd EXCEPT !.done = TRUE]
     \/ wd.done /\ wd' = [wd EXCEPT !.status = {Exit(0)}]
     \/ waiting(wd) /\ wd.asked /\ wd' = [wd EXCEPT !.status = {Exit(0)}]

\* A signal that is not the host's: the policy, a crash, memory pressure.
WorkerKilled ==
  /\ Alive(wd) /\ ~Present(wd.reply)
  /\ wd' = [wd EXCEPT !.status = {Signal(SIGKILL)}]
-----------------------------------------------------------------------------
(* The host: runCWorker, ActorSession and ChildProcessState.                *)

\* What ChildProcessState.wait can answer; it retries interrupted calls itself.
\* At most one call of the host fails in a run.
waitAnswers(w, blocking) ==
  (IF Alive(w) THEN IF blocking THEN {} ELSE {"pending"} ELSE {"reaped"})
  \cup (IF w.faulted THEN {} ELSE {"wait_error", "echild"} \cap HostFaults)
afterWait(w, answer) ==
  [w EXCEPT !.reaped = (answer = "reaped"), !.lost = @ \/ answer = "echild",
            !.faulted = @ \/ answer \notin {"reaped", "pending"},
            !.wait_errors = @ \/ answer \notin {"reaped", "pending"}]

Transfer ==
  /\ wd.host = "transfer"
  /\ \/ wd' = [wd EXCEPT !.host = "poll"]
     \/ /\ "transfer" \in HostFaults
        /\ \E reason \in {"policy_write_error", "policy_transfer_deadline"} :
             wd' = [wd EXCEPT !.host = "request_exit", !.stop = reason, !.faulted = TRUE]

\* The single-worker poll loop; the actor scheduler stops an actor for its own reasons.
PollStops ==
  /\ wd.host = "poll"
  /\ \/ wd.done /\ wd' = [wd EXCEPT !.host = "request_exit", !.stop = "done"]
     \/ ~wd.actor /\ wd' = [wd EXCEPT !.host = "request_exit", !.stop = "sentinel_deadline"]
     \/ wd.actor /\ \E reason \in {"schedule_complete", "arrival_timeout"} :
          wd' = [wd EXCEPT !.host = "request_exit", !.stop = reason]
PollWaits ==
  /\ wd.host = "poll"
  /\ \E answer \in waitAnswers(wd, FALSE) \ {"pending"} :
       wd' = [afterWait(wd, answer) EXCEPT !.host = "request_exit",
              !.stop = IF answer = "reaped" THEN "child_reaped" ELSE "wait_error"]

RequestExit ==
  /\ wd.host = "request_exit"
  /\ wd' = [wd EXCEPT !.asked = TRUE, !.goneBefore = ~Alive(wd),
            !.host = IF wd.reaped \/ wd.lost THEN "collect" ELSE "grace"]

\* Mutant of Grace: the allowance is found spent before the child is looked at.
Grace_Unwatched ==
  wd.host = "grace" /\ wd' = [wd EXCEPT !.host = "terminate", !.grace = "exhausted"]

\* Each pass of the grace loop waits first and looks at the clock afterwards.
Grace ==
  /\ wd.host = "grace"
  /\ \E answer \in waitAnswers(wd, FALSE) :
       LET w == afterWait(wd, answer)
       IN CASE answer = "pending" ->
                 wd' \in {wd, [w EXCEPT !.host = "terminate", !.grace = "exhausted"]}
            [] answer = "reaped" ->
                 wd' = [w EXCEPT !.host = "collect", !.grace = "reaped_during_grace"]
            [] OTHER ->
                 wd' = [w EXCEPT !.host = IF w.lost THEN "collect" ELSE "terminate",
                                 !.grace = "wait_error"]

\* kill succeeds on a process that has exited and is not yet reaped.
Terminate ==
  /\ wd.host = "terminate"
  /\ \/ wd' = [wd EXCEPT !.host = "reap",
               !.kill = {[signal |-> SIGKILL, rc |-> 0, errno |-> {}]},
               !.status = IF Alive(wd) THEN {Signal(SIGKILL)} ELSE @]
     \/ /\ "kill_error" \in HostFaults /\ ~wd.faulted
        /\ wd' = [wd EXCEPT !.host = "reap", !.faulted = TRUE,
                  !.kill = {[signal |-> SIGKILL, rc |-> -1, errno |-> {1}]}]
Reap ==
  /\ wd.host = "reap"
  /\ \E answer \in waitAnswers(wd, \E k \in wd.kill : k.rc = 0) :
       wd' = [afterWait(wd, answer) EXCEPT !.host = "collect"]

\* collectOutput: the basis is fixed first, then done, the slots one by one, and
\* last the evidence.
Collect ==
  \/ /\ wd.host = "collect"
     /\ wd' = [wd EXCEPT !.host = "read", !.done_observed = wd.done,
               !.basis = IF wd.reaped THEN "after_confirmed_reap"
                                      ELSE "execution_may_continue"]
  \/ /\ wd.host = "read" /\ Len(wd.read) < Len(Plan)
     /\ wd' = [wd EXCEPT !.read = Append(@, IF Len(@) + 1 \in publishedSlots(wd)
                                            THEN "completed" ELSE "incomplete")]

triggerForStop(stop) ==
  CASE stop = "sentinel_deadline" -> "deadline_expiry"
    [] stop = "done" -> "completion"
    [] stop = "wait_error" -> "poll_wait_error"
    [] stop = "policy_write_error" -> "policy_transfer_error"
    [] stop = "policy_transfer_deadline" -> "policy_transfer_timeout"
    [] OTHER -> stop

subprocess(w) ==
  [reaped |-> {w.reaped},
   exit_code |-> IF w.reaped THEN Value(w.status).exit_code ELSE {},
   term_signal |-> IF w.reaped THEN Value(w.status).term_signal ELSE {},
   poll_stop_reason |-> {w.stop}, exit_requested |-> {w.asked},
   termination_request |-> w.kill, wait_errors |-> {w.wait_errors},
   cleanup_trigger |-> {triggerForStop(w.stop)}, grace_end |-> {w.grace},
   collection_basis |-> {w.basis}, done_observed |-> {w.done_observed},
   progress |-> progressOf(w), worker_failure |-> IF w.failed THEN {TRUE} ELSE {},
   partial_steps |-> \E i \in DOMAIN w.read : w.read[i] # "completed"]
-----------------------------------------------------------------------------
(* resolveDisposition.                                                      *)

NoClaim == [state |-> Null, answer |-> Null, value |-> {}, reason |-> Null, issue |-> 0,
            basis |-> {}]
supported(answer, value, basis) ==
  [NoClaim EXCEPT !.state = "supported", !.answer = answer, !.value = value, !.basis = basis]
unresolved(reason, basis) ==
  [NoClaim EXCEPT !.state = "unresolved", !.reason = reason, !.basis = basis]
inapplicable(reason) == [NoClaim EXCEPT !.state = "inapplicable", !.reason = reason]
conflict == [NoClaim EXCEPT !.state = "conflicting"]

\* The host's own reading of the progress word; the controller repeats it.
associateProgress(progress, planCount) ==
  IF ~Present(progress) THEN [case |-> "absent", index |-> {}, position |-> {}]
  ELSE LET p == Value(progress)
           i == IF Present(p.index) THEN Value(p.index) ELSE 0
           is(case, index, position) == [case |-> case, index |-> index, position |-> position]
           at(order, stage) == {<<order, i, stage>>}
       IN IF p.operation \notin Range(ProtocolOrder) \/ p.stage \notin 1..2
          THEN is("unrecognized", {}, {})
          ELSE IF i >= IndexLimit \/ p.raw # progressWord(p.operation, p.stage, p.index)
          THEN is("invalid", {}, {})
          ELSE CASE p.operation = 9 ->
                      IF Present(p.index) /\ i < planCount
                      THEN is("step_index", p.index, at(orderOf(9), p.stage))
                      ELSE is("invalid", {}, {})
                 [] p.operation \in {11, 13} /\ Present(p.index) ->
                      IF i <= planCount THEN is("none", {}, at(orderOf(9), 0))
                      ELSE is("invalid", {}, {})
                 [] p.operation = 4 ->
                      IF Present(p.index)
                      THEN is("parameter_index", p.index, at(orderOf(4), p.stage))
                      ELSE is("invalid", {}, {})
                 [] OTHER ->
                      IF Present(p.index) THEN is("invalid", {}, {})
                      ELSE is("none", {}, at(orderOf(p.operation), p.stage))

finalStatusClaim(sub) ==
  IF sub.reaped # {TRUE} THEN unresolved("no_successful_reap", {"reaped"})
  ELSE IF Present(sub.exit_code) /\ Present(sub.term_signal) THEN conflict
  ELSE IF Present(sub.term_signal)
  THEN supported("signal", sub.term_signal, {"reaped", "term_signal"})
  ELSE IF Present(sub.exit_code)
  THEN supported("exit_code", sub.exit_code, {"reaped", "exit_code"})
  ELSE unresolved("status_unusable", {"reaped"})

recordedClaim(name, raw, basis) ==
  IF Present(raw) THEN supported(Value(raw), {}, basis) ELSE unresolved("not_recorded", {})
cleanupClaim(name, sub) ==
  IF sub.exit_requested = {FALSE} THEN inapplicable("exit_not_requested")
  ELSE recordedClaim(name, sub[name], {name, "exit_requested"})
killClaim(sub) ==
  IF sub.exit_requested = {FALSE} THEN inapplicable("exit_not_requested")
  ELSE IF Present(sub.termination_request)
  THEN supported("requested", sub.termination_request, {"termination_request"})
  ELSE IF ~Present(sub.exit_requested) THEN unresolved("not_recorded", {})
  ELSE supported("none", {}, {"termination_request", "exit_requested"})
progressClaim(at) ==
  CASE at.case = "absent" -> inapplicable("no_progress_word")
    [] at.case = "unrecognized" -> unresolved("progress_unrecognized", {"progress"})
    [] at.case \in {"invalid", "step_index"} ->
         supported(at.case, at.index, {"progress", "plan"})
    [] OTHER -> supported(at.case, at.index, {"progress"})

runClaims(sub, at) ==
  [name \in RunQuestions |->
     CASE name = "final_status" -> finalStatusClaim(sub)
       [] name = "stop_reason" ->
            recordedClaim(name, sub.poll_stop_reason, {"poll_stop_reason"})
       [] name \in {"cleanup_trigger", "grace_end"} -> cleanupClaim(name, sub)
       [] name = "kill_request_and_result" -> killClaim(sub)
       [] name = "collection_basis" ->
            recordedClaim(name, sub.collection_basis, {"collection_basis"})
       [] name = "progress_association" -> progressClaim(at)]

witnesses(sub, tokens) ==
  IF Present(sub.progress) THEN tokens ELSE tokens \ {"progress"}

boundaryClaim(sub, at, i, completed) ==
  LET reached == atLeast(at.position, <<AttemptOrder, i - 1, 1>>)
  IN IF Present(at.position) /\ ~reached /\ completed /\ isTerminal(sub) THEN conflict
     ELSE IF reached \/ (completed /\ Plan[i].supported)
     THEN supported("reached", {}, witnesses(sub, {"progress", "slot", "attempt_support"}))
     ELSE IF Present(at.position) /\ ~completed
     THEN IF isTerminal(sub)
          THEN supported("not_reached", {}, {"progress", "slot", "collection_basis"})
          ELSE unresolved("basis_not_terminal", {"progress", "slot", "collection_basis"})
     ELSE unresolved("no_usable_progress", witnesses(sub, {"progress", "slot"}))

resultClaim(sub, at, i, completed) ==
  IF ~Plan[i].supported THEN inapplicable("unsupported_attempt")
  ELSE IF completed THEN supported("published", {}, {"slot", "attempt_support"})
  ELSE IF ~isTerminal(sub) THEN unresolved("basis_not_terminal", {"slot", "collection_basis"})
  ELSE IF atLeast(at.position, <<AttemptOrder, i - 1, 2>>) THEN conflict
  ELSE supported("unpublished", {}, witnesses(sub, {"slot", "collection_basis", "progress"}))

supportName(i) == IF Plan[i].supported THEN "supported" ELSE "unsupported"
stepClaims(sub, at, i, completed) ==
  [name \in StepQuestions |->
     CASE name = "step_boundary_reached" -> boundaryClaim(sub, at, i, completed)
       [] name = "step_result_published" -> resultClaim(sub, at, i, completed)
       [] OTHER -> supported(supportName(i), {}, {"attempt_support"})]

\* The conflicts are reported in the order in which they are found.
Conflicts ==
  <<<<"final_status", 0>>>> \o FlattenSeq([i \in DOMAIN Plan |->
      <<<<"step_boundary_reached", i>>, <<"step_result_published", i>>>>])

resolveDisposition(sub, slots) ==
  LET at == associateProgress(sub.progress, Len(Plan))
      run == runClaims(sub, at)
      step == [i \in DOMAIN Plan |-> stepClaims(sub, at, i, slots[i] = "completed")]
      claimOf(x) == IF x[2] = 0 THEN run[x[1]] ELSE step[x[2]][x[1]]
      found == SelectSeq(Conflicts, LAMBDA x : claimOf(x).state = "conflicting")
      numbered(c, x) ==
        IF c.state = "conflicting"
        THEN [c EXCEPT !.issue = CHOOSE k \in DOMAIN found : found[k] = x] ELSE c
  IN [questions |-> [name \in RunQuestions |-> numbered(run[name], <<name, 0>>)],
      steps |-> [i \in DOMAIN Plan |->
        [index |-> i, step_id |-> Plan[i].step_id, slot |-> slots[i],
         attempt_support |-> supportName(i),
         questions |-> [name \in StepQuestions |-> numbered(step[i][name], <<name, i>>)]]],
      issues |-> [k \in DOMAIN found |->
        [kind |-> "conflict", question |-> found[k][1], step |-> found[k][2],
         rule |-> IF found[k][2] = 0 THEN "D1" ELSE "D5",
         observations |-> IF found[k][2] = 0 THEN {"exit_code", "term_signal"}
                          ELSE {"progress", "slot", "collection_basis"}]]]

\* Only the actor form has extension events; in the single form every step is a probe.
operationOf(i) == IF wd.actor THEN Plan[i].operation ELSE Null

\* buildStepResults, and the extension events of the actor form.  A completed
\* event either called the library or says why it could not.
replyStep(record, i, called) ==
  LET step == record.steps[i]
      published == step.slot = "completed"
      event == operationOf(i)
      native == published /\ called /\ event \notin {Null, "transfer"}
      summary == disposition_summary(step)
  IN [step_id |-> step.step_id, actor_id |-> "a", operation |-> event, result_published |-> published,
      status |-> IF ~published THEN "unresolved"
                 ELSE IF event = "transfer" THEN "delivered"
                 ELSE IF native THEN "returned" ELSE "unavailable",
      call_boundary_observed |-> native,
      native_result |-> IF native THEN {1} ELSE {}, errno |-> IF native THEN {0} ELSE {},
      unavailable_reason |-> IF published /\ ~native /\ event # "transfer"
                             THEN {"missing_symbol"} ELSE {},
      result_source |-> IF published /\ Plan[i].supported THEN "worker" ELSE "synthetic",
      missing_reason |-> IF ~Plan[i].supported THEN "attempt_not_supported"
                         ELSE IF published THEN Null ELSE "slot_incomplete",
      lifecycle |-> [boundary |-> step.questions["step_boundary_reached"],
                     result |-> step.questions["step_result_published"],
                     summary |-> summary],
      limitations |-> {limitationFor(summary)}]

\* The region is the worker's to write: the word may be one it never meant.
DamagedWords ==
  {[operation |-> x[1], stage |-> x[2], index |-> x[3], raw |-> progressWord(x[1], x[2], x[3])] :
     x \in {<<14, 1, {}>>, <<9, 3, {0}>>, <<9, 1, {Len(Plan)}>>, <<9, 1, {}>>, <<1, 1, {0}>>,
            <<1, 1, {}>>, <<4, 2, {}>>, <<11, 1, {Len(Plan) + 1}>>, <<11, 2, {}>>,
            <<13, 1, {Len(Plan)}>>, <<10, 2, {}>>}}

-----------------------------------------------------------------------------
(* A runner that misreports: a claim of the reply, together with the fact   *)
(* or the copies beside it that would give it away, or one fact alone.      *)

FalseFacts ==
  [final_status |-> <<"term_signal", {SIGKILL}>>,
   cleanup_trigger |-> <<"cleanup_trigger", {"deadline_expiry"}>>,
   grace_end |-> <<"grace_end", {"exhausted"}>>,
   kill_request_and_result |->
     <<"termination_request", {[signal |-> SIGKILL, rc |-> 0, errno |-> {}]}>>,
   collection_basis |-> <<"collection_basis", {"after_confirmed_reap"}>>,
   progress_association |->
     <<"progress", {[operation |-> 9, stage |-> 1, index |-> {0},
                     raw |-> progressWord(9, 1, {0})]}>>]
FalseClaims ==
  [final_status |-> supported("signal", {SIGKILL}, {"reaped", "term_signal"}),
   cleanup_trigger |-> supported("deadline_expiry", {}, {"cleanup_trigger", "exit_requested"}),
   grace_end |-> supported("exhausted", {}, {"grace_end", "exit_requested"}),
   kill_request_and_result |->
     supported("requested", {[signal |-> SIGKILL, rc |-> 0, errno |-> {}]},
               {"termination_request"}),
   collection_basis |-> supported("after_confirmed_reap", {}, {"collection_basis"}),
   progress_association |-> supported("step_index", {0}, {"progress", "plan"})]
FalseStepClaims ==
  {<<"step_boundary_reached", "boundary", supported("reached", {}, {"slot", "attempt_support"})>>,
   <<"step_boundary_reached", "boundary",
     supported("not_reached", {}, {"progress", "slot", "collection_basis"})>>,
   <<"step_result_published", "result", supported("published", {}, {"slot", "attempt_support"})>>,
   <<"step_result_published", "result",
     supported("unpublished", {}, {"slot", "collection_basis"})>>}

withFact(r, fact) == [r EXCEPT !.sub = [@ EXCEPT ![fact[1]] = fact[2]]]
withRecord(r, record) == [r EXCEPT !.records = {record}]
withStepClaim(r, record, i, x) ==
  LET new == [record EXCEPT !.steps[i].questions[x[1]] = x[3]]
      copied == [withRecord(r, new) EXCEPT !.steps[i].lifecycle[x[2]] = x[3]]
      summary == disposition_summary(new.steps[i])
  IN [copied EXCEPT !.steps[i].lifecycle.summary = summary,
                    !.steps[i].limitations = {limitationFor(summary)}]
alteredReplies(r) ==
  LET record == Value(r.records)
  IN {withFact(withRecord(r, [record EXCEPT !.questions[name] = FalseClaims[name]]),
               FalseFacts[name]) : name \in DOMAIN FalseFacts}
     \cup {withStepClaim(r, record, i, x) : i \in DOMAIN Plan, x \in FalseStepClaims}
     \cup {withFact(r, fact) : fact \in Range(FalseFacts) \cup
             {<<"reaped", {TRUE}>>, <<"reaped", {FALSE}>>, <<"reaped", {}>>,
              <<"exit_code", {0}>>, <<"progress", {}>>}}
     \cup {withRecord(r, [record EXCEPT !.steps[i].slot = slot]) :
             i \in DOMAIN Plan, slot \in {"completed", "absent"}}
     \cup {[r EXCEPT !.records = {}]}

honestReply(w, progress, called) ==
  LET sub == [subprocess(w) EXCEPT !.progress = progress]
      record == resolveDisposition(sub, w.read)
  IN [sub |-> sub, records |-> {record},
      steps |-> [i \in DOMAIN Plan |-> replyStep(record, i, called)]]

\* What goes over the wire: steps and events apart, and in a reply that could not be
\* encoded in full no comparisons.
wireReply(w, r) ==
  [execution_form |-> IF w.actor THEN "actors" ELSE "single",
   action_ids |-> [i \in DOMAIN Plan |-> Plan[i].step_id],
   workers |-> <<[actor_id |-> "a", subprocess |-> {r.sub}, records |-> r.records]>>,
   steps |-> SelectSeq(r.steps, LAMBDA s : s.operation = Null),
   extension_events |-> SelectSeq(r.steps, LAMBDA s : s.operation # Null),
   native_issues |-> FALSE, reporting_failed |-> w.degraded]
degradedReply(r) ==
  [r EXCEPT !.steps = [i \in DOMAIN @ |-> [@[i] EXCEPT !.limitations = {}]]]

\* The reply, and what the controller makes of it.
replied(w, r) ==
  LET d == execution_diagnostics(wireReply(w, r))
  IN [w EXCEPT !.reply = {r}, !.diagnostics = {d.actors[1]}]

\* The damage is tried on the actor form and the misreports on the single worker:
\* nothing after the collection tells the two apart.
Reply ==
  /\ wd.host = "read" /\ Len(wd.read) = Len(Plan)
  /\ LET w == [wd EXCEPT !.host = "replied"]
         progress == progressOf(wd)
     IN \/ \E called \in BOOLEAN : wd' = replied(w, honestReply(wd, progress, called))
        \/ wd' = replied([w EXCEPT !.degraded = TRUE],
                         degradedReply(honestReply(wd, progress, TRUE)))
        \/ /\ wd.actor
           /\ \E p \in DamagedWords :
                wd' = replied([w EXCEPT !.damaged = TRUE], honestReply(wd, {p}, TRUE))
        \/ /\ ~wd.actor
           /\ \E r \in alteredReplies(honestReply(wd, progress, TRUE)) :
                wd' = replied([w EXCEPT !.host = "misreported"], r)
-----------------------------------------------------------------------------
DispositionStarts ==
  {[actor |-> actor, pc |-> 0, done |-> FALSE, failed |-> FALSE, status |-> {},
    host |-> "transfer", stop |-> "sentinel_deadline", asked |-> FALSE,
    goneBefore |-> FALSE, reaped |-> FALSE, lost |-> FALSE, faulted |-> FALSE, wait_errors |-> FALSE,
    grace |-> "not_entered", kill |-> {}, basis |-> Null, done_observed |-> FALSE,
    read |-> <<>>, damaged |-> FALSE, degraded |-> FALSE, reply |-> {},
    diagnostics |-> {}] :
    actor \in BOOLEAN}

NextDisposition ==
  \/ WorkerPublishes \/ WorkerRefuses \/ WorkerFinishes \/ WorkerKilled
  \/ Transfer \/ PollStops \/ PollWaits \/ RequestExit \/ Grace \/ Terminate \/ Reap
  \/ Collect \/ Reply

\* The controller accepts every record the runner's own code produces, whatever
\* the worker did, however it ended and whatever it left in the region: the two
\* halves, written in two languages, read progress, slots and cleanup alike.  And
\* what the record of a worker says is and stays true of it, even of a worker the
\* host could not reap and that goes on: a step "not_reached" is never begun, one
\* "unpublished" never publishes, and the diagnostics name the host as the cause
\* of a signal only when the worker was still there as it was asked to leave.
RecordIsTrue ==
  wd.host = "replied" => (\A d \in wd.diagnostics : d.integrity = "valid") /\ \A r \in wd.reply :
    ~wd.damaged =>
    LET record == Value(r.records)
        q(i, name) == record.steps[i].questions[name]
        cause == Value(wd.diagnostics).cause
    IN /\ record.issues = <<>>
       /\ \A i \in DOMAIN Plan :
            /\ Supported(q(i, "step_boundary_reached"), "not_reached") => i \notin begun(wd)
            /\ Supported(q(i, "step_boundary_reached"), "reached") => i \in begun(wd)
            /\ Supported(q(i, "step_result_published"), "unpublished") =>
                 i \notin publishedSlots(wd)
            /\ Supported(q(i, "step_result_published"), "published") =>
                 i \in publishedSlots(wd)
       /\ cause \notin {Null, "unknown"} =>
            wd.status = {Signal(SIGKILL)} /\ ~wd.goneBefore /\ wd.stop # "child_reaped"

\* Whatever one claim or fact a runner misreports, a record the controller accepts
\* says nothing that the raw facts beside it do not show.
AcceptedIsWitnessed ==
  wd.host = "misreported" => \A r \in wd.reply :
    LET p == Value(wd.diagnostics)
        at == disposition_progress(r.sub.progress, Len(Plan)).position
        slot(i) == Value(r.records).steps[i].slot
    IN p.integrity = "valid" =>
         /\ p.disposition = "signaled" => isReaped(r.sub) /\ Present(r.sub.term_signal)
         /\ p.disposition = "clean_exit" => isReaped(r.sub) /\ r.sub.exit_code = {0}
         /\ p.cause \notin {Null, "unknown"} =>
              /\ r.sub.grace_end = {"exhausted"}
              /\ \E k \in r.sub.termination_request :
                   k.rc = 0 /\ r.sub.term_signal = {k.signal}
         /\ \A i \in DOMAIN Plan :
              /\ r.steps[i].lifecycle.summary = "completed" => slot(i) = "completed"
              /\ r.steps[i].lifecycle.summary = "not_reached" =>
                   isTerminal(r.sub) /\ ~atLeast(at, <<AttemptOrder, i - 1, 1>>)
=============================================================================
