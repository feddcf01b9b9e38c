----------------------------- MODULE Admission -----------------------------
(***************************************************************************)
(* One PWRunner service and the pw-runner-client sessions that contend for *)
(* it.  The host owns one admission slot for its whole life                *)
(* (PWRunnerAdmission), reached through the two XPC calls of               *)
(* PWRunnerService; every client runs the PWRunnerClientSession state      *)
(* machine on its own serial queue.                                        *)
(*                                                                         *)
(* Time.  Every deadline is compared with one continuous clock, so the     *)
(* model keeps, for each deadline, the fact that the clock has reached it: *)
(* lapsed (the lease of the held reservation), overdue (a client's overall *)
(* deadline) and rpcLate (a client's current reservation call).  A clock   *)
(* that fails is a choice of the step that reads it.                       *)
(*                                                                         *)
(* XPC.  A call is a message in msgs; it is answered by a reply message,   *)
(* by an error callback, or never.  Messages of different connections are  *)
(* unordered, and a message can outlive the connection or the host it was  *)
(* meant for: launchd starts a new host for the next request.              *)
(***************************************************************************)
EXTENDS ClientCapture, FiniteSets

CONSTANTS Client,      \* runs of pw-runner-client, one specimen each
          MaxHosts,    \* bound on the host processes launchd starts
          Faults       \* the faults the environment may inject

ASSUME MaxHostsAssumption == MaxHosts \in Nat \ {0}
ASSUME FaultsAssumption ==
  Faults \subseteq {"host_clock", "host_crash", "client_clock", "client_crash",
                    "input", "encoding", "xpc_error", "proxy_type_mismatch",
                    "bad_control"}

VARIABLES
  up, inst, exitScheduled,      \* the host process, its generation, exit(0) pending
  slot, lapsed, closed,         \* PWRunnerAdmission.slot, its lease, closed connections
  minted,                       \* reservation tokens handed out (fresh UUIDs)
  phase, capture,               \* PWRunnerClientSession
  overdue, rpcLate,
  msgs,
  grants, ran                   \* history: what was granted and what was executed

hostVars == <<up, inst, exitScheduled, slot, lapsed, closed, minted>>
clientVars == <<phase, capture, overdue, rpcLate>>
vars == <<hostVars, clientVars, msgs, grants, ran>>

AttemptID == 1..AcquisitionAttempts
Connection == Client \X AttemptID
Token == 1..MaxHosts
Body == {None, "granted", "occupied", "result", "unadmitted", "xpc_error",
         "proxy_type_mismatch"} \cup RefusalReason
Message == [type : {"reserve", "submit", "invalidate", "reserveReply", "submitReply", "error"},
            client : Client, attempt : AttemptID, token : Token \cup {0}, body : Body]
Msg(type, c, n, t, body) ==
  [type |-> type, client |-> c, attempt |-> n, token |-> t, body |-> body]

Free == [kind |-> "free", owner |-> None, token |-> 0, reason |-> None]
Reserved(o, t) == [kind |-> "reserved", owner |-> o, token |-> t, reason |-> None]
Executing(o, t) == [kind |-> "executing", owner |-> o, token |-> t, reason |-> None]
Retiring(r) == [kind |-> "retiring", owner |-> None, token |-> 0, reason |-> r]
RetireReason == {"expired", "clock_error", "abandoned", "consumed"}
Slot == {Free} \cup {Reserved(o, t) : o \in Connection, t \in Token}
               \cup {Executing(o, t) : o \in Connection, t \in Token}
               \cup {Retiring(r) : r \in RetireReason}
Run == [inst : 1..MaxHosts, owner : Connection, token : Token]

Phase == {"initial", "acquiring", "waiting", "submitted", "done", "crashed"}

TypeOK ==
  /\ up \in BOOLEAN /\ inst \in 1..MaxHosts /\ exitScheduled \in BOOLEAN
  /\ slot \in Slot /\ lapsed \in BOOLEAN /\ closed \subseteq Connection
  /\ minted \in 0..MaxHosts
  /\ phase \in [Client -> Phase] /\ capture \in [Client -> Capture]
  /\ overdue \subseteq Client /\ rpcLate \subseteq Client
  /\ msgs \subseteq Message
  /\ grants \subseteq Run /\ ran \subseteq Run

Init ==
  /\ up = TRUE /\ inst = 1 /\ exitScheduled = FALSE
  /\ slot = Free /\ lapsed = FALSE /\ closed = {} /\ minted = 0
  /\ phase = [c \in Client |-> "initial"]
  /\ capture = [c \in Client |-> InitCapture]
  /\ overdue = {} /\ rpcLate = {}
  /\ msgs = {} /\ grants = {} /\ ran = {}

attemptID(c) == Len(capture[c].attempts)

-----------------------------------------------------------------------------
(* The host.                                                                *)

Decision(s, reason, retire) == [slot |-> s, reason |-> reason, retire |-> retire]

\* Whether a host clock reading fails (PWContinuousClock reads UInt64.max).
HostClock == {FALSE} \cup {f \in {TRUE} : "host_clock" \in Faults}

\* PWRunnerAdmission.reserve.
reserve(owner, fault) ==
  CASE owner \in closed -> Decision(slot, "occupied", FALSE)
    [] owner \notin closed /\ fault -> Decision(slot, "clock_error", FALSE)
    [] owner \notin closed /\ ~fault /\ slot.kind = "reserved" /\ lapsed ->
         Decision(Retiring("expired"), "occupied", TRUE)
    [] owner \notin closed /\ ~fault /\ slot.kind = "free" ->
         Decision(Reserved(owner, minted + 1), "granted", FALSE)
    [] OTHER -> Decision(slot, "occupied", FALSE)

\* PWRunnerAdmission.submit.
submit(owner, token, fault) ==
  CASE slot.kind = "free" -> Decision(slot, "absent", FALSE)
    [] slot.kind = "executing" -> Decision(slot, "consumed", FALSE)
    [] slot.kind = "retiring" ->
         Decision(slot, IF slot.reason \in {"expired", "clock_error"}
                        THEN slot.reason ELSE "consumed", FALSE)
    [] slot.kind = "reserved" /\ (fault \/ lapsed) ->
         LET reason == IF fault THEN "clock_error" ELSE "expired"
         IN Decision(Retiring(reason), reason, TRUE)
    [] slot.kind = "reserved" /\ ~fault /\ ~lapsed ->
         IF owner \notin closed /\ slot.owner = owner /\ slot.token = token
         THEN Decision(Executing(owner, token), "accepted", FALSE)
         ELSE Decision(slot, "wrong", FALSE)

\* PWRunnerAdmission.disconnected for a connection that is being closed.
disconnected(owner) ==
  IF slot.kind = "reserved" /\ slot.owner = owner
  THEN Decision(Retiring("abandoned"), "abandoned", TRUE)
  ELSE Decision(slot, None, FALSE)

\* Mutant of expire: the lease is never enforced by the timer.
expire_Never(fault) == Decision(slot, None, FALSE)

\* PWRunnerAdmission.expire, called back for the reservation it was armed for.
expire(fault) ==
  IF slot.kind = "reserved" /\ (fault \/ lapsed)
  THEN Decision(Retiring(IF fault THEN "clock_error" ELSE "expired"), None, TRUE)
  ELSE Decision(slot, None, FALSE)

\* PWRunnerAdmission.complete.
complete(owner, token) ==
  IF slot = Executing(owner, token) THEN Decision(Retiring("consumed"), None, TRUE)
  ELSE Decision(slot, None, FALSE)

\* The slot a decision leaves; the lease is gone with its reservation.
Apply(d) ==
  /\ slot' = d.slot
  /\ exitScheduled' = (exitScheduled \/ d.retire)
  /\ lapsed' = (lapsed /\ d.slot = slot)

ReserveRunner(m) ==
  /\ up /\ m \in msgs /\ m.type = "reserve"
  /\ \E fault \in HostClock :
       LET owner == <<m.client, m.attempt>>
           d == reserve(owner, fault)
           token == IF d.reason = "granted" THEN minted + 1 ELSE 0
       IN /\ d.reason = "granted" => minted < MaxHosts
          /\ Apply(d)
          /\ IF d.reason = "granted"
             THEN /\ minted' = minted + 1
                  /\ grants' = grants \cup {[inst |-> inst, owner |-> owner, token |-> token]}
             ELSE UNCHANGED <<minted, grants>>
          /\ msgs' = (msgs \ {m})
                       \cup {Msg("reserveReply", m.client, m.attempt, token, d.reason)}
  /\ UNCHANGED <<up, inst, closed, clientVars, ran>>

\* runReservedSpecimen up to the admission decision.
RunReservedSpecimen(m) ==
  /\ up /\ m \in msgs /\ m.type = "submit"
  /\ \E fault \in HostClock :
       LET owner == <<m.client, m.attempt>>
           d == submit(owner, m.token, fault)
       IN /\ Apply(d)
          /\ IF d.reason = "accepted"
             THEN /\ ran' = ran \cup {[inst |-> inst, owner |-> owner, token |-> m.token]}
                  /\ msgs' = msgs \ {m}
             ELSE /\ ran' = ran
                  /\ msgs' = (msgs \ {m})
                       \cup {Msg("submitReply", m.client, m.attempt, 0, d.reason)}
  /\ UNCHANGED <<up, inst, closed, minted, clientVars, grants>>

\* replyAndExit, reached on every path of an accepted submission.
ReplyAndExit ==
  /\ up /\ slot.kind = "executing"
  /\ Apply(complete(slot.owner, slot.token))
  /\ msgs' = msgs \cup {Msg("submitReply", slot.owner[1], slot.owner[2], 0, "result")}
  /\ UNCHANGED <<up, inst, closed, minted, clientVars, grants, ran>>

ConnectionInvalidated(m) ==
  /\ up /\ m \in msgs /\ m.type = "invalidate"
  /\ Apply(disconnected(<<m.client, m.attempt>>))
  /\ closed' = closed \cup {<<m.client, m.attempt>>}
  /\ msgs' = msgs \ {m}
  /\ UNCHANGED <<up, inst, minted, clientVars, grants, ran>>

\* checkExpiry: armed by a grant, rearmed while that reservation is held.
CheckExpiry ==
  /\ up
  /\ \E fault \in HostClock :
       LET d == expire(fault) IN d.retire /\ Apply(d)
  /\ UNCHANGED <<up, inst, closed, minted, clientVars, msgs, grants, ran>>

LeaseLapses ==
  /\ up /\ slot.kind = "reserved" /\ ~lapsed
  /\ lapsed' = TRUE
  /\ UNCHANGED <<up, inst, exitScheduled, slot, closed, minted, clientVars, msgs, grants, ran>>

\* The host process and everything it held in memory are gone.
HostGone ==
  /\ up' = FALSE /\ exitScheduled' = FALSE
  /\ slot' = Free /\ lapsed' = FALSE /\ closed' = {}
  /\ UNCHANGED <<inst, minted, clientVars, grants, ran>>

HostExit == up /\ exitScheduled /\ HostGone /\ UNCHANGED msgs

\* A crash; the call that was executing may fail at its caller.
HostCrash ==
  /\ up /\ "host_crash" \in Faults /\ HostGone
  /\ msgs' = IF slot.kind = "executing" /\ "xpc_error" \in Faults
             THEN msgs \cup {Msg("error", slot.owner[1], slot.owner[2], 0, "xpc_error")}
             ELSE msgs

\* launchd starts a host on demand for a request that finds none.
Launch ==
  /\ ~up /\ inst < MaxHosts
  /\ \E m \in msgs : m.type \in {"reserve", "submit"}
  /\ up' = TRUE /\ inst' = inst + 1
  /\ UNCHANGED <<exitScheduled, slot, lapsed, closed, minted, clientVars, msgs, grants, ran>>

-----------------------------------------------------------------------------
(* The client session.                                                      *)

\* The connection of the current attempt, invalidated when it is let go.
Invalidation(c) ==
  IF phase[c] \in {"acquiring", "submitted"}
  THEN {Msg("invalidate", c, attemptID(c), 0, None)} ELSE {}

Complete(c, used, cap, terminal, error) ==
  /\ phase' = [phase EXCEPT ![c] = "done"]
  /\ capture' = [capture EXCEPT ![c] =
       [cap EXCEPT !.terminal = terminal, !.error = error,
                   !.deadline_elapsed = cap.clock_available /\ c \in overdue']]
  /\ msgs' = (msgs \ used) \cup Invalidation(c)
  /\ rpcLate' = rpcLate \ {c}

\* overallTimeout in phase ph: the deadline has passed, or passes now.
OverallTimeout(c, used, cap, ph) ==
  /\ overdue' = overdue \cup {c}
  /\ LET ended == IF ph = "acquiring"
                  THEN EndAttempt(cap, "timeout", None, <<"acquisition", "overall_deadline">>)
                  ELSE cap
     IN Complete(c, used, StopUnlessGranted(ended, "overall_deadline"), "xpc_timeout",
          <<IF ph = "submitted" THEN "submission" ELSE "acquisition", "overall_deadline">>)

\* clockFailure in phase ph: a sample failed or went backwards.
ClockLost(c, used, cap, ph) ==
  /\ "client_clock" \in Faults
  /\ UNCHANGED overdue
  /\ LET error == <<"local", "clock_error">>
         failed == [cap EXCEPT !.clock_available = FALSE]
         ended == IF ph = "acquiring" THEN EndAttempt(failed, "local_error", None, error)
                  ELSE failed
     IN Complete(c, used, StopUnlessGranted(ended, "local_error"), "local_error", error)

\* The first sample of any callback or timer of a live session fails.
ClockFailure(c) ==
  /\ phase[c] \notin {"done", "crashed"}
  /\ ClockLost(c, {}, capture[c], phase[c])
  /\ UNCHANGED <<hostVars, grants, ran>>

\* main.swift: the request cannot be read, so no session starts.
InputReadFailed(c) ==
  /\ "input" \in Faults /\ phase[c] = "initial"
  /\ UNCHANGED overdue
  /\ Complete(c, {}, capture[c], "local_error", <<"local", "input_read_failed">>)
  /\ UNCHANGED <<hostVars, grants, ran>>

\* Mutant of ArmDeadline: the deadline bounds the acquisition only.
ArmDeadline_AcquisitionOnly(c) ==
  /\ phase[c] \in {"initial", "acquiring", "waiting"} /\ c \in overdue
  /\ OverallTimeout(c, {}, capture[c], phase[c])
  /\ UNCHANGED <<hostVars, grants, ran>>

\* armDeadline finding the overall deadline passed.
ArmDeadline(c) ==
  /\ phase[c] \notin {"done", "crashed"} /\ c \in overdue
  /\ OverallTimeout(c, {}, capture[c], phase[c])
  /\ UNCHANGED <<hostVars, grants, ran>>

\* begin and the retry timer both enter beginAttempt.
BeginAttempt(c) ==
  /\ phase[c] \in {"initial", "waiting"} /\ c \notin overdue
  /\ Len(capture[c].attempts) < AcquisitionAttempts
  /\ phase' = [phase EXCEPT ![c] = "acquiring"]
  /\ capture' = [capture EXCEPT ![c] = AppendAttempt(@)]
  /\ rpcLate' = rpcLate \ {c}
  /\ msgs' = msgs \cup {Msg("reserve", c, attemptID(c) + 1, 0, None)}
  /\ UNCHANGED <<hostVars, overdue, grants, ran>>

\* beginAttempt whose reservation request cannot be encoded.
EncodingFailed(c) ==
  /\ "encoding" \in Faults
  /\ phase[c] \in {"initial", "waiting"} /\ c \notin overdue
  /\ LET error == <<"local", "encoding_failed">> IN
     /\ UNCHANGED overdue
     /\ Complete(c, {},
          [EndAttempt(AppendAttempt(capture[c]), "local_error", None, error)
             EXCEPT !.acquisition_stop = "local_error"], "local_error", error)
  /\ UNCHANGED <<hostVars, grants, ran>>

\* retry of an acquiring session whose attempt has been ended in cap.
Retry(c, used, cap) ==
  \/ ClockLost(c, used, cap, "waiting")
  \/ OverallTimeout(c, used, cap, "waiting")
  \/ /\ c \notin overdue /\ UNCHANGED overdue
     /\ Len(cap.attempts) >= AcquisitionAttempts
     /\ Complete(c, used, [cap EXCEPT !.acquisition_stop = "attempt_limit"],
          "acquisition_failed", <<"acquisition", "attempt_limit">>)
  \/ /\ c \notin overdue
     /\ Len(cap.attempts) < AcquisitionAttempts
     /\ phase' = [phase EXCEPT ![c] = "waiting"]
     /\ capture' = [capture EXCEPT ![c] = cap]
     /\ msgs' = (msgs \ used) \cup Invalidation(c)
     /\ UNCHANGED <<overdue, rpcLate>>

ReservationTimeout(c) ==
  /\ phase[c] = "acquiring" /\ c \in rpcLate /\ c \notin overdue
  /\ Retry(c, {}, EndAttempt(capture[c], "timeout", None, <<"acquisition", "rpc_timeout">>))
  /\ UNCHANGED <<hostVars, grants, ran>>

\* A callback concerns the session only if it belongs to the live attempt; any
\* other returns at its first guard and changes nothing.
Current(m, phases) == phase[m.client] \in phases /\ m.attempt = attemptID(m.client)

ReservationReply(m) ==
  LET c == m.client
      cap == EndAttempt(capture[c], m.body, m.body, NoError)
      held == [cap EXCEPT !.acquisition_stop = "granted"]
      invalid == <<"acquisition", "invalid_control">>
  IN /\ m \in msgs /\ m.type = "reserveReply" /\ Current(m, {"acquiring"})
     /\ \/ /\ m.body = "occupied"
           /\ Retry(c, {m}, cap)
        \/ /\ m.body \in {"clock_error", "unadmitted"}
           /\ UNCHANGED overdue
           /\ Complete(c, {m},
                [EndAttempt(capture[c], "protocol_error", None, invalid)
                   EXCEPT !.acquisition_stop = "protocol_error"], "protocol_error", invalid)
        \* The clock is read again once the grant is recorded.
        \/ /\ m.body = "granted"
           /\ OverallTimeout(c, {m}, held, "reserved")
        \/ m.body = "granted" /\ ClockLost(c, {m}, held, "reserved")
        \/ /\ m.body = "granted" /\ c \notin overdue
           /\ phase' = [phase EXCEPT ![c] = "submitted"]
           /\ capture' = [capture EXCEPT ![c] = InvokeSubmission(held)]
           /\ msgs' = (msgs \ {m}) \cup {Msg("submit", c, m.attempt, m.token, None)}
           /\ UNCHANGED <<overdue, rpcLate>>
     /\ UNCHANGED <<hostVars, grants, ran>>

SubmissionReply(m) ==
  LET c == m.client
      cap == capture[c]
  IN /\ m \in msgs /\ m.type = "submitReply" /\ Current(m, {"submitted"})
     /\ \/ c \in overdue /\ OverallTimeout(c, {m}, cap, "submitted")
        \/ /\ c \notin overdue /\ UNCHANGED overdue
           /\ m.body = "result"
           /\ Complete(c, {m}, [cap EXCEPT !.runner_reply = TRUE], "runner_reply", NoError)
        \/ /\ c \notin overdue /\ UNCHANGED overdue
           /\ m.body # "result"
           /\ IF m.body \in RefusalReason
              THEN Complete(c, {m}, [cap EXCEPT !.submission_refusal = m.body],
                     "submission_refused", NoError)
              ELSE Complete(c, {m}, [cap EXCEPT !.submission_refusal = "unadmitted"],
                     "protocol_error", <<"submission", "invalid_control">>)
     /\ UNCHANGED <<hostVars, grants, ran>>

ConnectionFailed(m) ==
  LET c == m.client IN
  /\ m \in msgs /\ m.type = "error" /\ Current(m, {"acquiring", "submitted"})
  /\ \/ c \in overdue /\ OverallTimeout(c, {m}, capture[c], phase[c])
     \/ /\ c \notin overdue /\ UNCHANGED overdue
        /\ phase[c] = "submitted"
        /\ Complete(c, {m}, capture[c], "xpc_error", <<"submission", m.body>>)
     \/ /\ c \notin overdue /\ UNCHANGED overdue
        /\ phase[c] = "acquiring" /\ m.body = "proxy_type_mismatch"
        /\ LET error == <<"acquisition", "proxy_type_mismatch">> IN
           Complete(c, {m}, [EndAttempt(capture[c], "local_error", None, error)
                               EXCEPT !.acquisition_stop = "local_error"], "local_error", error)
     \/ /\ c \notin overdue
        /\ phase[c] = "acquiring" /\ m.body = "xpc_error"
        /\ Retry(c, {m}, EndAttempt(capture[c], "transport_error", None,
                                    <<"acquisition", "xpc_error">>))
  /\ UNCHANGED <<hostVars, grants, ran>>

\* The client process is killed; the kernel closes its connection.
ClientCrash(c) ==
  /\ "client_crash" \in Faults
  /\ phase[c] \notin {"done", "crashed"}
  /\ phase' = [phase EXCEPT ![c] = "crashed"]
  /\ msgs' = msgs \cup Invalidation(c)
  /\ UNCHANGED <<hostVars, capture, overdue, rpcLate, grants, ran>>

DeadlinePasses(c) ==
  /\ phase[c] \notin {"done", "crashed"} /\ c \notin overdue
  /\ overdue' = overdue \cup {c}
  /\ UNCHANGED <<hostVars, phase, capture, rpcLate, msgs, grants, ran>>

RpcDeadlinePasses(c) ==
  /\ phase[c] = "acquiring" /\ c \notin rpcLate
  /\ rpcLate' = rpcLate \cup {c}
  /\ UNCHANGED <<hostVars, phase, capture, overdue, msgs, grants, ran>>

\* XPC reports an error in place of a reply; a proxy of the wrong type is
\* reported in place of a call that was never sent.  A call or a reply that is
\* lost without a word is a message nobody ever takes.
Fail(m, body) ==
  /\ body \in Faults
  /\ m.type \in {"reserve", "submit", "reserveReply", "submitReply"}
  /\ body = "proxy_type_mismatch" => m.type \in {"reserve", "submit"}
  /\ msgs' = (msgs \ {m}) \cup {Msg("error", m.client, m.attempt, 0, body)}
  /\ UNCHANGED <<hostVars, clientVars, grants, ran>>

\* A control reply the client cannot admit (another protocol, malformed JSON).
BadControl(m) ==
  /\ "bad_control" \in Faults
  /\ m.type \in {"reserveReply", "submitReply"} /\ m.body # "result"
  /\ msgs' = (msgs \ {m}) \cup {Msg(m.type, m.client, m.attempt, 0, "unadmitted")}
  /\ UNCHANGED <<hostVars, clientVars, grants, ran>>

-----------------------------------------------------------------------------
HostNext ==
  \/ \E m \in msgs : ReserveRunner(m) \/ RunReservedSpecimen(m) \/ ConnectionInvalidated(m)
  \/ ReplyAndExit \/ CheckExpiry \/ LeaseLapses
  \/ HostExit \/ HostCrash \/ Launch

ClientNext(c) ==
  \/ InputReadFailed(c) \/ BeginAttempt(c) \/ EncodingFailed(c)
  \/ ArmDeadline(c) \/ ReservationTimeout(c) \/ ClockFailure(c)
  \/ ClientCrash(c) \/ DeadlinePasses(c) \/ RpcDeadlinePasses(c)

CallbackNext ==
  \E m \in msgs :
    \/ ReservationReply(m) \/ SubmissionReply(m) \/ ConnectionFailed(m)
    \/ BadControl(m)
    \/ \E body \in {"xpc_error", "proxy_type_mismatch"} : Fail(m, body)

Next == HostNext \/ CallbackNext \/ \E c \in Client : ClientNext(c)

Spec == Init /\ [][Next]_vars

\* Continuous time advances, the client's and the host's timers fire, and
\* exit(0) runs: nothing else is assumed to happen.
Fairness ==
  /\ \A c \in Client : WF_vars(DeadlinePasses(c)) /\ WF_vars(ArmDeadline(c))
  /\ WF_vars(LeaseLapses) /\ WF_vars(CheckExpiry) /\ WF_vars(HostExit)

FairSpec == Spec /\ Fairness

-----------------------------------------------------------------------------
(* Properties.                                                              *)

RanFor(c) == {r \in ran : r.owner[1] = c}

\* What client c's capture commits it to, as a report of the service.  A
\* client that crashed has reported nothing: its caller learns nothing.
reportOf(c) ==
  IF phase[c] = "crashed" THEN "unknown"
  ELSE IF phase[c] # "done" THEN "open"
  ELSE IF ~Invoked(capture[c]) THEN "not_invoked"
  ELSE IF capture[c].terminal = "runner_reply" THEN "result"
  ELSE IF capture[c].terminal = "submission_refused" THEN "refused"
  ELSE "unknown"

Service == INSTANCE SpecimenService WITH
             executed <- {c \in Client : RanFor(c) # {}},
             report <- [c \in Client |-> reportOf(c)]

\* The protocol of reservations, leases, retries and restarts implements the
\* service: at most one execution per specimen, and truthful reports.
ImplementsService == Service!ServiceSpec

\* A host process executes at most one specimen, and a specimen is executed
\* by at most one host process (docs/ARCHITECTURE.md: "one reservation and
\* at most one specimen"; "No later reply loss, timeout or refusal permits
\* replay"), across expiry, crashes, relaunches and lost or late messages.
SingleUse ==
  \A r, s \in ran : r.inst = s.inst \/ r.owner[1] = s.owner[1] => r = s

\* submit: what runs was granted, by the same host process, to the same
\* connection, and its client had recorded the submission as invoked.
RunsOnlyItsGrant ==
  \A r \in ran : r \in grants /\ Invoked(capture[r.owner[1]])

\* The terminal of a session against what happened at the host: a result
\* means the specimen ran; not_invoked and refused mean that it never did.
TruthfulReports ==
  \A c \in Client :
    /\ reportOf(c) = "result" => RanFor(c) # {}
    /\ reportOf(c) \in {"not_invoked", "refused"} => RanFor(c) = {}

\* The exit a retiring path scheduled never cuts an execution short ("Stale
\* expiry or disconnect cannot retire an executing owner"), and no retired
\* slot is left in a host that stays up to refuse every client.
ExitIffRetired ==
  up => (exitScheduled <=> slot.kind = "retiring")

\* Every capture a session can emit passes the controller's validation: the
\* Swift writer and the Rust reader agree on every path through the session.
CapturesAdmitted ==
  \A c \in Client : phase[c] = "done" => ValidCapture(capture[c])

\* "No expired, abandoned or executed slot becomes free again", and a
\* consumed reservation is never executed again, within one host process.
SlotNeverReopens ==
  [][up /\ up' =>
       /\ slot.kind # "free" => slot'.kind # "free"
       /\ slot.kind \in {"executing", "retiring"} => slot'.kind # "reserved"
       /\ slot.kind = "retiring" => slot' = slot]_vars

\* An accepted specimen keeps its host to the end: an executing slot is left
\* only with its result on the way to its owner, or by a crash; no expiry,
\* disconnect, refusal or scheduled exit takes the host away from it.
ExecutionKept ==
  [][up /\ slot.kind = "executing" =>
       \/ slot' = slot /\ up'
       \/ Msg("submitReply", slot.owner[1], slot.owner[2], 0, "result") \in msgs'
       \/ ~up' /\ ~exitScheduled]_vars

\* Every client finishes by its overall deadline, whatever the host does:
\* armDeadline bounds a call that is never answered.
ClientsFinish == \A c \in Client : <>(phase[c] \in {"done", "crashed"})

\* A granted reservation nobody uses does not hold the host: checkExpiry ends
\* it when its lease lapses, if nothing has consumed or abandoned it first.
ReservationEnds == (up /\ slot.kind = "reserved") ~> (slot.kind # "reserved" \/ ~up)
=============================================================================
