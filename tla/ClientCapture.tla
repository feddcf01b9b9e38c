--------------------------- MODULE ClientCapture ---------------------------
(***************************************************************************)
(* The transport capture pw-runner-client prints when a session ends, and  *)
(* the validation the Rust controller applies to it before it believes any *)
(* of it.  The capture is written by Swift and read by Rust: the two agree *)
(* only by convention.                                                     *)
(*                                                                         *)
(* Clock readings are abstracted to the two facts the validation derives   *)
(* from them: clock_available, and whether the last reading had reached    *)
(* the overall deadline (deadline_elapsed).  An error is a pair            *)
(* <<stage, reason>>; a control observation is the status it admitted.     *)
(***************************************************************************)
EXTENDS Naturals, Sequences

CONSTANT AcquisitionAttempts    \* PWRunnerTransportLimits.acquisitionAttempts

ASSUME AcquisitionAttemptsAssumption == AcquisitionAttempts \in Nat \ {0}

None == "none"
NoError == <<None, None>>

AttemptOutcome == {"granted", "occupied", "transport_error", "timeout",
                   "protocol_error", "local_error"}
AcquisitionStop == {"granted", "overall_deadline", "attempt_limit",
                    "protocol_error", "local_error"}
Terminal == {"runner_reply", "submission_refused", "xpc_error", "xpc_timeout",
             "acquisition_failed", "protocol_error", "local_error"}
RefusalReason == {"wrong", "expired", "absent", "consumed", "clock_error"}
ErrorStage == {"acquisition", "submission", "local"}
ErrorReason == {"xpc_error", "rpc_timeout", "overall_deadline",
                "attempt_limit", "invalid_control", "proxy_type_mismatch",
                "clock_error", "encoding_failed", "input_read_failed"}
TransportError == (ErrorStage \X ErrorReason) \cup {NoError}

Attempt == [outcome : AttemptOutcome, status : {None, "granted", "occupied"},
            error : TransportError]
Capture == [clock_available : BOOLEAN, deadline_elapsed : BOOLEAN,
            attempts : Seq(Attempt), acquisition_stop : AcquisitionStop,
            submission : {"not_invoked", "invoked"}, terminal : Terminal,
            error : TransportError, runner_reply : BOOLEAN,
            submission_refusal : RefusalReason \cup {None, "unadmitted"}]

InitCapture ==
  [clock_available |-> TRUE, deadline_elapsed |-> FALSE, attempts |-> <<>>,
   acquisition_stop |-> "local_error", submission |-> "not_invoked",
   terminal |-> "local_error", error |-> NoError, runner_reply |-> FALSE,
   submission_refusal |-> None]

\* A new attempt starts out as a local error until something else is known.
AppendAttempt(cap) ==
  [cap EXCEPT !.attempts = Append(@, [outcome |-> "local_error", status |-> None,
                                      error |-> NoError])]

EndAttempt(cap, outcome, status, error) ==
  IF cap.attempts = <<>> THEN cap
  ELSE [cap EXCEPT !.attempts[Len(cap.attempts)] =
           [outcome |-> outcome, status |-> status, error |-> error]]

\* Mutant of StopUnlessGranted: the grant on record is overwritten.
StopUnlessGranted_Overwrites(cap, stop) == [cap EXCEPT !.acquisition_stop = stop]

\* acquisition_stop is overwritten unless a grant was already recorded.
StopUnlessGranted(cap, stop) ==
  [cap EXCEPT !.acquisition_stop = IF @ = "granted" THEN @ ELSE stop]

\* Mutant of InvokeSubmission: the capture waits for the reply to say so.
InvokeSubmission_Late(cap) == cap

\* Recorded before the submission is sent, so that nothing can be executed for
\* a capture that says it was not invoked.
InvokeSubmission(cap) == [cap EXCEPT !.submission = "invoked"]

-----------------------------------------------------------------------------
(* The controller's validate_capture.                                       *)

Last(cap) == cap.attempts[Len(cap.attempts)]
Granted(cap) == cap.attempts # <<>> /\ Last(cap).outcome = "granted"
Invoked(cap) == cap.submission = "invoked"

ValidAttemptError(a) ==
  \/ a.error = NoError
  \/ /\ \/ a.error[1] = "acquisition"
        \/ a.error \in {"local"} \X {"clock_error", "encoding_failed"}
     /\ a.error[2] \in
          CASE a.outcome = "transport_error" -> {"xpc_error"}
            [] a.outcome = "timeout" -> {"rpc_timeout", "overall_deadline"}
            [] a.outcome = "protocol_error" -> {"invalid_control"}
            [] a.outcome = "local_error" ->
                 {"proxy_type_mismatch", "clock_error", "encoding_failed"}
            [] OTHER -> {}

ValidAttempt(a, isLast) ==
  /\ ValidAttemptError(a)
  /\ a.outcome = "granted" => a.status = "granted" /\ a.error = NoError /\ isLast
  /\ a.outcome = "occupied" => a.status = "occupied" /\ a.error = NoError
  /\ a.outcome \in {"transport_error", "timeout", "local_error", "protocol_error"}
       => a.status = None /\ a.error # NoError
  /\ a.outcome \in {"protocol_error", "local_error"} => isLast

ValidClock(cap) ==
  ~cap.clock_available => cap.terminal = "local_error" /\ cap.error[2] = "clock_error"

ValidAcquisition(cap) ==
  CASE cap.acquisition_stop = "granted" -> Granted(cap)
    [] cap.acquisition_stop = "overall_deadline" ->
         ~Granted(cap) /\ cap.terminal = "xpc_timeout" /\ cap.deadline_elapsed
    [] cap.acquisition_stop = "attempt_limit" ->
         /\ ~Granted(cap)
         /\ Len(cap.attempts) = AcquisitionAttempts
         /\ cap.terminal = "acquisition_failed"
    [] cap.acquisition_stop = "protocol_error" ->
         /\ cap.terminal = "protocol_error"
         /\ cap.attempts # <<>> /\ Last(cap).outcome = "protocol_error"
    [] cap.acquisition_stop = "local_error" ->
         /\ ~Granted(cap)
         /\ cap.terminal = "local_error"
         /\ \/ ~cap.clock_available
            \/ cap.attempts = <<>>
            \/ Last(cap).outcome = "local_error"

ValidTerminal(cap) ==
  LET stage == IF Invoked(cap) THEN "submission" ELSE "acquisition" IN
  CASE cap.terminal = "runner_reply" -> Invoked(cap) /\ cap.error = NoError
    [] cap.terminal = "submission_refused" ->
         Invoked(cap) /\ cap.error = NoError /\ cap.submission_refusal \in RefusalReason
    [] cap.terminal = "xpc_error" ->
         Invoked(cap) /\ cap.error \in {"submission"} \X {"xpc_error", "proxy_type_mismatch"}
    [] cap.terminal = "xpc_timeout" ->
         cap.error = <<stage, "overall_deadline">> /\ cap.deadline_elapsed
    [] cap.terminal = "acquisition_failed" ->
         /\ ~Invoked(cap) /\ cap.acquisition_stop = "attempt_limit"
         /\ cap.error = <<"acquisition", "attempt_limit">>
    [] cap.terminal = "protocol_error" -> cap.error = <<stage, "invalid_control">>
    [] cap.terminal = "local_error" ->
         /\ \/ cap.error \in {"local"} \X {"clock_error", "encoding_failed", "input_read_failed"}
            \/ cap.error = <<"acquisition", "proxy_type_mismatch">>
         /\ Invoked(cap) => ~cap.clock_available

ValidCapture(cap) ==
  /\ ValidClock(cap)
  /\ Len(cap.attempts) <= AcquisitionAttempts
  /\ \A i \in 1..Len(cap.attempts) : ValidAttempt(cap.attempts[i], i = Len(cap.attempts))
  /\ ValidAcquisition(cap)
  /\ Invoked(cap) => Granted(cap) /\ cap.acquisition_stop = "granted"
  /\ ~Invoked(cap) => ~cap.runner_reply /\ cap.submission_refusal = None
  /\ cap.runner_reply = (cap.terminal = "runner_reply")
  /\ cap.submission_refusal # None =>
       cap.terminal = IF cap.submission_refusal = "unadmitted"
                      THEN "protocol_error" ELSE "submission_refused"
  /\ ValidTerminal(cap)
  /\ Granted(cap) /\ ~Invoked(cap) => cap.terminal \in {"xpc_timeout", "local_error"}
=============================================================================
