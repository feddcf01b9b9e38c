----------------------------- MODULE ExecAttempt -----------------------------
(***************************************************************************)
(* One exec attempt of a worker (pw_worker_exec.h) and the controller's    *)
(* reading of its observation (exec_observation_problem): a child in its   *)
(* own process group, two pipes that it or a descendant may keep open, a   *)
(* collection that ends by exit and EOF, by a deadline, by a failed call   *)
(* or by an unusable clock, a group kill, and a reap that never blocks.    *)
(*                                                                         *)
(* A call that can fail does so with one representative error number; text *)
(* that the child writes, and its truncation, are left out.                *)
(***************************************************************************)
EXTENDS DispositionReader

VARIABLE ex   \* the attempt, its child and the slot it fills

Pid == 100
EPERM == 1
ESRCH == 3
EINTR == 4
EIO == 5
ECHILD == 10
ETIMEDOUT == 60
Kill == 9
Streams == {"stdout", "stderr"}
\* A wait status: the signal in the low seven bits, or the exit code above them.
ExitStatus(code) == code * 256
SignalStatus(n) == n
-----------------------------------------------------------------------------
(* exec_observation_problem: the reader finds nothing to report.            *)

streamsConsistent(c) ==
  \A s \in Streams :
    LET stream == c[s]
    IN /\ stream.read_errno \cap {EINTR, 35} = {}
       /\ stream.eof => ~Present(stream.read_errno) /\ ~Present(stream.poll_error)
       /\ ~Present(stream.read_errno) \/ ~Present(stream.poll_error)

streamError(c) ==
  \E s \in Streams : Present(c[s].read_errno) \/ Present(c[s].poll_error)
collectionErrors(c) == Present(c.waitid_errno) \/ Present(c.poll_errno) \/ streamError(c)

\* Each failed call ends the collection, so two of them exclude one another.
errnosConsistent(c) ==
  /\ EINTR \notin c.waitid_errno \cup c.poll_errno
  /\ ~(Present(c.waitid_errno) /\ c.leader_exit_observed)
  /\ ~(Present(c.waitid_errno) /\ (Present(c.poll_errno) \/ streamError(c)))
  /\ ~(Present(c.poll_errno) /\ streamError(c))

collectionConsistent(c) ==
  CASE c.stop_reason = "leader_exit_and_eof" ->
         /\ c.leader_exit_observed /\ c.stdout.eof /\ c.stderr.eof
         /\ ~collectionErrors(c) /\ ~Present(c.clock_fault) /\ ~Present(c.deadline_kind)
    [] c.stop_reason = "deadline" ->
         /\ Present(c.deadline_kind) /\ c.deadline_kind \subseteq {"child", "plan"}
         /\ ~collectionErrors(c) /\ ~Present(c.clock_fault)
    [] c.stop_reason = "observation_error" ->
         collectionErrors(c) /\ ~Present(c.clock_fault) /\ ~Present(c.deadline_kind)
    [] c.stop_reason = "clock_fault" ->
         Present(c.clock_fault) /\ ~collectionErrors(c) /\ ~Present(c.deadline_kind)
    [] OTHER -> FALSE

failedGroup(k) == \E g \in k.group_request : g.rc = -1 /\ g.errno # {ESRCH}
signalValid(request, target) ==
  /\ request.target = target /\ request.signal = Kill
  /\ \/ request.rc = -1 /\ Present(request.errno)
     \/ request.rc = 0 /\ ~Present(request.errno)
cleanupRequestsConsistent(c, k, pid) ==
  CASE k.state = "not_requested" ->
         /\ c.stop_reason = "leader_exit_and_eof"
         /\ ~Present(k.group_request) /\ ~Present(k.leader_fallback)
    [] k.state = "ownership_unconfirmed" ->
         /\ Present(c.waitid_errno)
         /\ ~Present(k.group_request) /\ ~Present(k.leader_fallback)
    [] k.state = "requested" ->
         /\ c.stop_reason # "leader_exit_and_eof" /\ ~Present(c.waitid_errno)
         /\ Present(k.group_request) /\ \A g \in k.group_request : signalValid(g, -pid)
         /\ failedGroup(k) = Present(k.leader_fallback)
         /\ \A f \in k.leader_fallback : signalValid(f, pid)
    [] OTHER -> FALSE

exitCodeOf(status) ==
  IF \E s \in status : s % 128 = 0 THEN (Value(status) \div 256) % 256 ELSE -1
termSignalOf(status) ==
  IF \E s \in status : s % 128 \notin {0, 127} THEN Value(status) % 128 ELSE 0
waitConsistent(attempt, wait) ==
  /\ wait.rc \in {-1, 0, attempt.child_pid}
  /\ Present(wait.errno) = (wait.rc = -1)
  /\ Present(wait.status) = (wait.rc = attempt.child_pid)
  /\ attempt.child_exit_code = exitCodeOf(wait.status)
  /\ attempt.child_term_signal = termSignalOf(wait.status)

stillPending(wait) == wait.rc = 0 \/ (wait.rc = -1 /\ wait.errno = {EINTR})

\* The reap that ended without the child names the first guard that stopped it.
reapConsistent(k, r, pid) ==
  LET pending == stillPending(r.last_wait)
      owned == k.state # "ownership_unconfirmed"
  IN CASE r.stop_reason = "reaped" -> r.last_wait.rc = pid
       [] r.stop_reason = "wait_error" -> r.last_wait.rc = -1 /\ r.last_wait.errno # {EINTR}
       [] r.stop_reason = "ownership_unconfirmed" -> pending /\ ~owned
       [] r.stop_reason = "group_request_failed" -> pending /\ owned /\ failedGroup(k)
       [] r.stop_reason \in {"clock_fault", "deadline"} ->
            /\ pending /\ owned /\ ~failedGroup(k)
            /\ (r.stop_reason = "clock_fault") = Present(r.clock_fault)
       [] OTHER -> FALSE

exec_observation_accepted(attempt) ==
  \A o \in attempt.exec_observation :
    LET c == o.collection
    IN /\ attempt.child_pid > 0
       /\ streamsConsistent(c) /\ errnosConsistent(c) /\ collectionConsistent(c)
       /\ cleanupRequestsConsistent(c, o.cleanup, attempt.child_pid)
       /\ waitConsistent(attempt, o.reap.last_wait)
       /\ reapConsistent(o.cleanup, o.reap, attempt.child_pid)
-----------------------------------------------------------------------------
(* The attempt.                                                             *)

OpenStream == [eof |-> FALSE, read_errno |-> {}, poll_error |-> {}]
NoObservation ==
  [collection |-> [stop_reason |-> Null, leader_exit_observed |-> FALSE,
                   stdout |-> OpenStream, stderr |-> OpenStream, waitid_errno |-> {},
                   poll_errno |-> {}, clock_fault |-> {}, deadline_kind |-> {}],
   cleanup |-> [state |-> "not_requested", group_request |-> {}, leader_fallback |-> {}],
   reap |-> [stop_reason |-> Null, clock_fault |-> {},
             last_wait |-> [rc |-> 0, errno |-> {}, status |-> {}]]]

\* In the order in which exec_resources_acquire takes them.
Resources == <<"stdout_pipe", "stderr_pipe", "actions", "attr">>

finish(x, rc, errno) == [x EXCEPT !.pc = "returned", !.rc = rc, !.errno = errno, !.held = {}]
stopCollection(x, reason) ==
  [x EXCEPT !.pc = "cleanup", !.obs.collection.stop_reason = reason]

\* The attempt budget, then the setup calls, then the spawn: each refusal
\* releases what is held and claims no child.
Admit ==
  /\ ex.pc = "admit"
  /\ \/ ex' = finish(ex, -1, 0)                                    \* unusable clock
     \/ ex' = finish(ex, -1, ETIMEDOUT)
     \/ ex' = [ex EXCEPT !.pc = "acquire"]
Acquire ==
  /\ ex.pc = "acquire"
  /\ \/ ex' = finish(ex, -1, EIO)
     \/ /\ Cardinality(ex.held) < Len(Resources)
        /\ ex' = [ex EXCEPT !.held = @ \cup {Resources[Cardinality(@) + 1]}]
     \/ /\ Cardinality(ex.held) = Len(Resources)                   \* flags and file actions set
        /\ ex' = [ex EXCEPT !.pc = "spawn"]
Spawn ==
  /\ ex.pc = "spawn"
  /\ \/ ex' = finish(ex, -1, EPERM)
     \/ ex' = [ex EXCEPT !.pc = "observe", !.child = "running", !.child_pid = Pid,
                         !.writers = Streams]

\* The child ends by itself; a write end closes when its last holder does.
ChildEnds ==
  /\ ex.child = "running"
  /\ \E status \in {ExitStatus(0), ExitStatus(7), SignalStatus(6)} :
       ex' = [ex EXCEPT !.child = "exited", !.status = {status}]
WriterCloses ==
  /\ ex.child \in {"running", "exited"}
  /\ \E s \in ex.writers : ex' = [ex EXCEPT !.writers = @ \ {s}]

\* The head of the loop: the clock, the deadline, and whether the leader exited;
\* WNOWAIT leaves it unreaped.
Observe ==
  /\ ex.pc = "observe"
  /\ \/ ex' = stopCollection([ex EXCEPT !.obs.collection.clock_fault = {1}], "clock_fault")
     \/ \E kind \in {"child", "plan"} :
          ex' = stopCollection([ex EXCEPT !.obs.collection.deadline_kind = {kind}], "deadline")
     \/ /\ ~ex.obs.collection.leader_exit_observed
        /\ ex' = stopCollection([ex EXCEPT !.obs.collection.waitid_errno = {ECHILD}],
                                "observation_error")
     \/ LET exited == ex.child = "exited"
            c == ex.obs.collection
        IN IF exited /\ c.stdout.eof /\ c.stderr.eof
           THEN ex' = stopCollection([ex EXCEPT !.obs.collection.leader_exit_observed = TRUE],
                                     "leader_exit_and_eof")
           ELSE ex' = [ex EXCEPT !.pc = "poll", !.obs.collection.leader_exit_observed = exited]

\* What one stream may show: nothing or data, EOF once no writer is left, an error.
streamReads(s) ==
  IF ex.obs.collection[s].eof THEN {ex.obs.collection[s]}
  ELSE {OpenStream, [OpenStream EXCEPT !.read_errno = {EIO}],
        [OpenStream EXCEPT !.poll_error = {8}]}
       \cup (IF s \in ex.writers THEN {} ELSE {[OpenStream EXCEPT !.eof = TRUE]})
Poll ==
  /\ ex.pc = "poll"
  /\ \/ ex' = stopCollection([ex EXCEPT !.obs.collection.poll_errno = {EIO}],
                             "observation_error")
     \/ ex' = stopCollection([ex EXCEPT !.obs.collection.clock_fault = {2}], "clock_fault")
     \/ \E out \in streamReads("stdout"), err \in streamReads("stderr") :
          LET x == [ex EXCEPT !.obs.collection.stdout = out, !.obs.collection.stderr = err]
          IN ex' = IF streamError(x.obs.collection) THEN stopCollection(x, "observation_error")
                   ELSE [x EXCEPT !.pc = "observe"]

request(target, rc, errno) ==
  [target |-> target, signal |-> Kill, rc |-> rc, errno |-> errno]
killed(x) ==
  [x EXCEPT !.child = IF @ = "running" THEN "exited" ELSE @,
            !.status = IF x.child = "running" THEN {SignalStatus(Kill)} ELSE @]

\* Mutant of Cleanup: the group is signalled although waitid lost the child.
Cleanup_Unowned ==
  /\ ex.pc = "cleanup"
  /\ ex' = [killed(ex) EXCEPT !.pc = "reap", !.signalled = ex.child,
            !.obs.cleanup.state = "requested",
            !.obs.cleanup.group_request = {request(-Pid, 0, {})}]

\* The group is signalled only while the unreaped leader keeps its number ours.
Cleanup ==
  /\ ex.pc = "cleanup"
  /\ CASE ex.obs.collection.stop_reason = "leader_exit_and_eof" ->
            ex' = [ex EXCEPT !.pc = "reap"]
       [] Present(ex.obs.collection.waitid_errno) ->
            ex' = [ex EXCEPT !.pc = "reap", !.obs.cleanup.state = "ownership_unconfirmed"]
       [] OTHER ->
            LET x == [ex EXCEPT !.pc = "reap", !.signalled = ex.child,
                                !.obs.cleanup.state = "requested"]
            IN \/ ex' = [killed(x) EXCEPT
                           !.obs.cleanup.group_request = {request(-Pid, 0, {})}]
               \/ ex' = [x EXCEPT !.obs.cleanup.group_request = {request(-Pid, -1, {ESRCH})}]
               \/ \E fallback \in {0, -1} :
                    ex' = [(IF fallback = 0 THEN killed(x) ELSE x) EXCEPT
                             !.obs.cleanup.group_request = {request(-Pid, -1, {EPERM})},
                             !.obs.cleanup.leader_fallback =
                               {request(Pid, fallback, IF fallback = 0 THEN {} ELSE {ESRCH})}]

endReap(x, reason) == [x EXCEPT !.pc = "assemble", !.obs.reap.stop_reason = reason]
waited(x, rc, errno, status) ==
  [x EXCEPT !.obs.reap.last_wait = [rc |-> rc, errno |-> errno, status |-> status]]

\* One pass: a wait that does not block, then the guards in their order.  The clock
\* may have failed before the first pass.
ReapAttempt ==
  /\ ex.pc = "reap"
  /\ \E fault \in {{}, {3}} :
       LET y == [ex EXCEPT !.obs.reap.clock_fault = fault]
       IN \/ /\ ex.child = "exited"
             /\ ex' = endReap([waited(y, Pid, {}, ex.status) EXCEPT !.child = "reaped"], "reaped")
          \/ ex' = endReap(waited(y, -1, {ECHILD}, {}), "wait_error")
          \/ \E x \in {waited(y, -1, {EINTR}, {})}
                    \cup (IF ex.child = "running" THEN {waited(y, 0, {}, {})} ELSE {}) :
               CASE x.obs.cleanup.state = "ownership_unconfirmed" ->
                      ex' = endReap(x, "ownership_unconfirmed")
                 [] failedGroup(x.obs.cleanup) -> ex' = endReap(x, "group_request_failed")
                 [] OTHER ->
                      \/ ex' = endReap(x, IF Present(fault) THEN "clock_fault" ELSE "deadline")
                      \/ ~Present(fault) /\ ex' = x

nativeErrno(o) ==
  LET c == o.collection
      observed == c.waitid_errno \cup c.poll_errno \cup c.stdout.read_errno
                  \cup c.stderr.read_errno
  IN IF collectionErrors(c) THEN IF Present(observed) THEN Value(observed) ELSE EIO
     ELSE IF failedGroup(o.cleanup) THEN EPERM
     ELSE CASE o.reap.stop_reason = "wait_error" -> ECHILD
            [] o.reap.stop_reason = "deadline" -> ETIMEDOUT
            [] OTHER -> 0

\* The observation becomes valid, then the legacy result is put together.
Assemble ==
  /\ ex.pc = "assemble"
  /\ LET o == ex.obs
         status == o.reap.last_wait.status
         x == [ex EXCEPT !.exec_observation = {o}, !.child_exit_code = exitCodeOf(status),
                         !.child_term_signal = termSignalOf(status)]
         failed == \/ collectionErrors(o.collection) \/ failedGroup(o.cleanup)
                   \/ ~Present(status) \/ Present(o.collection.clock_fault)
                   \/ Present(o.reap.clock_fault)
     IN ex' = IF failed THEN finish(x, -1, nativeErrno(o))
              ELSE finish(x, IF Present(o.collection.deadline_kind) \/ x.child_term_signal # 0
                             THEN -1 ELSE x.child_exit_code, 0)

ExecStarts ==
  {[pc |-> "admit", held |-> {}, child |-> "none", status |-> {}, writers |-> {},
    signalled |-> Null, obs |-> NoObservation, exec_observation |-> {},
    child_pid |-> 0, child_exit_code |-> -1, child_term_signal |-> 0, rc |-> 0, errno |-> 0]}

NextExec ==
  \/ Admit \/ Acquire \/ Spawn \/ ChildEnds \/ WriterCloses \/ Observe \/ Poll \/ Cleanup
  \/ ReapAttempt \/ Assemble

\* The controller accepts the observation of every attempt, whichever call failed
\* and in whatever order the child, its descendants and the deadline came.  An
\* attempt reports an exit code of zero or more only for a child that ended with
\* it, by itself and with both streams read to their end; it returns with every
\* pipe and handle released; and it never signals a group it may not own.
ExecReportIsTrue ==
  /\ exec_observation_accepted(ex)
  /\ ex.signalled \in {Null, "running", "exited"}
  /\ ex.signalled # Null => ~Present(ex.obs.collection.waitid_errno)
  /\ ex.pc = "returned" =>
       /\ ex.held = {}
       /\ ex.rc >= 0 => /\ ex.child = "reaped" /\ ex.status = {ExitStatus(ex.rc)}
                        /\ ex.writers = {} /\ ex.signalled = Null
       /\ Present(ex.exec_observation) = (ex.child # "none")
=============================================================================
