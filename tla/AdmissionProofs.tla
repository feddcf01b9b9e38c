-------------------------- MODULE AdmissionProofs ---------------------------
(***************************************************************************)
(* Proofs about Admission, for any set of clients, any number of host      *)
(* processes, any number of acquisition attempts and any set of faults:    *)
(* what its actions do, type correctness, the inductive invariant, the     *)
(* properties it implies, the refinement of SpecimenService, and the       *)
(* captures of a session, which are all admitted by validate_capture.      *)
(***************************************************************************)
EXTENDS Admission, TLAPS

-----------------------------------------------------------------------------
(* The operations on captures keep them captures.                           *)

\* beginAttempt appends one well-formed attempt.
LEMMA AppendAttemptType ==
  ASSUME NEW cap \in Capture
  PROVE  /\ AppendAttempt(cap) \in Capture
         /\ Len(AppendAttempt(cap).attempts) = Len(cap.attempts) + 1
         /\ AppendAttempt(cap).submission = cap.submission
<1> DEFINE a == [outcome |-> "local_error", status |-> None, error |-> NoError]
<1>1. a \in Attempt
  BY DEF Attempt, TransportError, NoError, AttemptOutcome
<1>2. cap.attempts \in Seq(Attempt)
  BY DEF Capture
<1>3. Append(cap.attempts, a) \in Seq(Attempt)
      /\ Len(Append(cap.attempts, a)) = Len(cap.attempts) + 1
  BY <1>1, <1>2
<1>4. AppendAttempt(cap) = [cap EXCEPT !.attempts = Append(cap.attempts, a)]
  BY DEF AppendAttempt, Capture
<1> QED
  BY Zenon, <1>3, <1>4 DEF Capture

\* endAttempt rewrites the last attempt and nothing else.
LEMMA EndAttemptType ==
  ASSUME NEW cap \in Capture, NEW outcome \in AttemptOutcome,
         NEW status \in {None, "granted", "occupied"}, NEW error \in TransportError
  PROVE  /\ EndAttempt(cap, outcome, status, error) \in Capture
         /\ Len(EndAttempt(cap, outcome, status, error).attempts) = Len(cap.attempts)
         /\ EndAttempt(cap, outcome, status, error).submission = cap.submission
<1>1. CASE cap.attempts = <<>>
  BY <1>1 DEF EndAttempt
<1>2. CASE cap.attempts # <<>>
  <2> DEFINE a == [outcome |-> outcome, status |-> status, error |-> error]
             n == Len(cap.attempts)
  <2>1. a \in Attempt
    BY DEF Attempt
  <2>2. cap.attempts \in Seq(Attempt) /\ n \in 1..Len(cap.attempts)
    BY <1>2 DEF Capture
  <2>3. [cap.attempts EXCEPT ![n] = a] \in Seq(Attempt)
        /\ Len([cap.attempts EXCEPT ![n] = a]) = n
    BY <2>1, <2>2
  <2>4. EndAttempt(cap, outcome, status, error)
          = [cap EXCEPT !.attempts = [cap.attempts EXCEPT ![n] = a]]
    BY <1>2 DEF EndAttempt, Capture
  <2> QED
    BY ZenonT(60), <2>3, <2>4 DEF Capture
<1> QED
  BY <1>1, <1>2

\* The stop of an acquisition is the new one, or the grant on record.
LEMMA StopUnlessGrantedType ==
  ASSUME NEW cap \in Capture, NEW reason \in AcquisitionStop
  PROVE  /\ StopUnlessGranted(cap, reason) \in Capture
         /\ StopUnlessGranted(cap, reason).attempts = cap.attempts
         /\ StopUnlessGranted(cap, reason).submission = cap.submission
BY DEF StopUnlessGranted, Capture

-----------------------------------------------------------------------------
(* The decisions of PWRunnerAdmission.                                      *)

DecisionType == [slot : Slot, reason : Body \cup {"accepted", "abandoned"}, retire : BOOLEAN]

\* What a slot of each kind holds.
LEMMA SlotKinds ==
  ASSUME NEW s \in Slot
  PROVE  /\ s.kind \in {"free", "reserved", "executing", "retiring"}
         /\ s.kind \in {"reserved", "executing"} => s.owner \in Connection /\ s.token \in Token
         /\ s.kind = "executing" => s = Executing(s.owner, s.token)
BY DEF Slot, Free, Reserved, Executing, Retiring

\* Every slot the admission can leave behind is a slot.
LEMMA SlotMembers ==
  /\ Free \in Slot
  /\ \A o \in Connection, t \in Token : Reserved(o, t) \in Slot /\ Executing(o, t) \in Slot
  /\ \A r \in RetireReason : Retiring(r) \in Slot
BY SMTT(60) DEF Slot

LEMMA ReserveType ==
  ASSUME TypeOK, NEW owner \in Connection, NEW fault \in BOOLEAN,
         reserve(owner, fault).reason = "granted" => minted < MaxHosts
  PROVE  /\ reserve(owner, fault) \in DecisionType
         /\ reserve(owner, fault).reason \in {"granted", "occupied", "clock_error"}
         /\ reserve(owner, fault).reason = "granted" =>
              /\ slot.kind = "free" /\ minted + 1 \in Token
              /\ reserve(owner, fault).slot = Reserved(owner, minted + 1)
              /\ ~reserve(owner, fault).retire
         /\ reserve(owner, fault).reason # "granted" =>
              \/ reserve(owner, fault).slot = slot /\ ~reserve(owner, fault).retire
              \/ /\ slot.kind = "reserved"
                 /\ reserve(owner, fault).slot = Retiring("expired")
                 /\ reserve(owner, fault).retire
<1>1. CASE owner \in closed
  BY <1>1 DEF reserve, Decision, DecisionType, Body, TypeOK
<1>2. CASE owner \notin closed /\ fault
  BY <1>2 DEF reserve, Decision, DecisionType, Body, TypeOK, RefusalReason
<1>3. CASE owner \notin closed /\ ~fault /\ slot.kind = "reserved" /\ lapsed
  <2>1. reserve(owner, fault) = Decision(Retiring("expired"), "occupied", TRUE)
    BY <1>3 DEF reserve
  <2> QED
    BY <1>3, <2>1, SlotMembers DEF Decision, DecisionType, Body, RetireReason
<1>4. CASE owner \notin closed /\ ~fault /\ slot.kind = "free"
  <2>1. reserve(owner, fault) = Decision(Reserved(owner, minted + 1), "granted", FALSE)
    BY <1>4 DEF reserve
  <2>2. minted + 1 \in Token
    BY <2>1, MaxHostsAssumption DEF Decision, Token, TypeOK
  <2> QED
    BY <1>4, <2>1, <2>2, SlotMembers DEF Decision, DecisionType, Body
<1>5. CASE owner \notin closed /\ ~fault /\ slot.kind # "free"
           /\ ~(slot.kind = "reserved" /\ lapsed)
  <2>1. reserve(owner, fault) = Decision(slot, "occupied", FALSE)
    BY Zenon, <1>5 DEF reserve
  <2> QED
    BY <2>1 DEF Decision, DecisionType, Body, TypeOK
<1> QED
  BY <1>1, <1>2, <1>3, <1>4, <1>5

LEMMA SubmitType ==
  ASSUME TypeOK, NEW owner \in Connection, NEW token, NEW fault \in BOOLEAN
  PROVE  /\ submit(owner, token, fault) \in DecisionType
         /\ submit(owner, token, fault).reason \in RefusalReason \cup {"accepted"}
         /\ submit(owner, token, fault).reason = "accepted" =>
              /\ slot.kind = "reserved" /\ slot.owner = owner /\ slot.token = token
              /\ token \in Token
              /\ submit(owner, token, fault).slot = Executing(owner, token)
              /\ ~submit(owner, token, fault).retire
         /\ submit(owner, token, fault).reason # "accepted" =>
              \/ submit(owner, token, fault).slot = slot /\ ~submit(owner, token, fault).retire
              \/ /\ slot.kind = "reserved" /\ submit(owner, token, fault).retire
                 /\ submit(owner, token, fault).slot.kind = "retiring"
<1> USE DEF Decision, DecisionType
<1>0. slot \in Slot
  BY DEF TypeOK
<1>1. CASE slot.kind = "free"
  BY <1>0, <1>1 DEF submit, Body, RefusalReason
<1>2. CASE slot.kind = "executing"
  BY <1>0, <1>2 DEF submit, Body, RefusalReason
<1>3. CASE slot.kind = "retiring"
  BY <1>0, <1>3 DEF submit, Body, RefusalReason
<1>4. CASE slot.kind = "reserved" /\ (fault \/ lapsed)
  <2> DEFINE reason == IF fault THEN "clock_error" ELSE "expired"
  <2>1. submit(owner, token, fault) = Decision(Retiring(reason), reason, TRUE)
    BY <1>4 DEF submit
  <2>2. reason \in RetireReason \cap RefusalReason
    BY DEF RetireReason, RefusalReason
  <2> QED
    BY <1>4, <2>1, <2>2, SlotMembers DEF Body, RefusalReason, Retiring
<1>5. CASE slot.kind = "reserved" /\ ~(fault \/ lapsed)
           /\ owner \notin closed /\ slot.owner = owner /\ slot.token = token
  <2>1. submit(owner, token, fault) = Decision(Executing(owner, token), "accepted", FALSE)
    BY <1>5 DEF submit
  <2> QED
    BY <1>0, <1>5, <2>1, SlotKinds, SlotMembers
<1>6. CASE slot.kind = "reserved" /\ ~(fault \/ lapsed)
           /\ ~(owner \notin closed /\ slot.owner = owner /\ slot.token = token)
  <2>1. submit(owner, token, fault) = Decision(slot, "wrong", FALSE)
    BY <1>6 DEF submit
  <2> QED
    BY <1>0, <2>1 DEF Body, RefusalReason
<1> QED
  BY <1>0, <1>1, <1>2, <1>3, <1>4, <1>5, <1>6, SlotKinds

LEMMA MsgFields ==
  \A t, c, n, k, b : /\ Msg(t, c, n, k, b).type = t /\ Msg(t, c, n, k, b).client = c
                     /\ Msg(t, c, n, k, b).body = b
BY DEF Msg

LEMMA MsgMember ==
  ASSUME NEW t \in {"reserve", "submit", "invalidate", "reserveReply", "submitReply", "error"},
         NEW c \in Client, NEW n \in AttemptID, NEW k \in Token \cup {0}, NEW b \in Body
  PROVE  Msg(t, c, n, k, b) \in Message
BY DEF Msg, Message

LEMMA HostClockType == HostClock \subseteq BOOLEAN
BY Zenon DEF HostClock

LEMMA MessageOwner ==
  ASSUME TypeOK, NEW m \in msgs
  PROVE  /\ m.client \in Client /\ m.attempt \in AttemptID
         /\ <<m.client, m.attempt>> \in Connection
BY DEF TypeOK, Message, Connection

\* The two calls of the service, with the decision made explicit.
Grant(m) ==
  /\ slot.kind = "free" /\ slot' = Reserved(<<m.client, m.attempt>>, minted + 1)
  /\ UNCHANGED exitScheduled
  /\ minted + 1 \in Token /\ minted' = minted + 1
  /\ grants' = grants \cup {[inst |-> inst, owner |-> <<m.client, m.attempt>>, token |-> minted + 1]}
  /\ msgs' = (msgs \ {m}) \cup {Msg("reserveReply", m.client, m.attempt, minted + 1, "granted")}

\* A decision that leaves the slot alone, or retires it and schedules the exit.
Keeps(d) ==
  \/ d.slot = slot /\ ~d.retire
  \/ slot.kind \in {"reserved", "executing"} /\ d.slot.kind = "retiring" /\ d.retire

Refusal(m, d, type) ==
  /\ Keeps(d)
  /\ slot.kind = "executing" => d.slot = slot
  /\ d.reason \in RefusalReason \cup {"occupied"}
  /\ msgs' = (msgs \ {m}) \cup {Msg(type, m.client, m.attempt, 0, d.reason)}

LEMMA ReserveSummary ==
  ASSUME TypeOK, NEW m \in msgs, ReserveRunner(m)
  PROVE  /\ up /\ UNCHANGED <<up, inst, closed, clientVars, ran>>
         /\ \E d \in DecisionType :
              /\ Apply(d)
              /\ \/ Grant(m)
                 \/ Refusal(m, d, "reserveReply") /\ UNCHANGED <<minted, grants>>
<1> DEFINE owner == <<m.client, m.attempt>>
<1>1. PICK fault \in HostClock :
        LET d == reserve(owner, fault)
            token == IF d.reason = "granted" THEN minted + 1 ELSE 0
        IN /\ d.reason = "granted" => minted < MaxHosts
           /\ Apply(d)
           /\ IF d.reason = "granted"
              THEN /\ minted' = minted + 1
                   /\ grants' = grants \cup {[inst |-> inst, owner |-> owner, token |-> token]}
              ELSE UNCHANGED <<minted, grants>>
           /\ msgs' = (msgs \ {m})
                        \cup {Msg("reserveReply", m.client, m.attempt, token, d.reason)}
  BY DEF ReserveRunner
<1> DEFINE d == reserve(owner, fault)
<1>2. fault \in BOOLEAN /\ owner \in Connection /\ (d.reason = "granted" => minted < MaxHosts)
  BY Zenon, <1>1, HostClockType, MessageOwner
<1>3. /\ d \in DecisionType
      /\ d.reason \in {"granted", "occupied", "clock_error"}
      /\ d.reason = "granted" =>
           /\ slot.kind = "free" /\ minted + 1 \in Token
           /\ d.slot = Reserved(owner, minted + 1) /\ ~d.retire
      /\ d.reason # "granted" =>
           \/ d.slot = slot /\ ~d.retire
           \/ slot.kind = "reserved" /\ d.slot = Retiring("expired") /\ d.retire
  BY ZenonT(60), <1>2, ReserveType
<1>4. /\ Apply(d)
      /\ d.reason = "granted" =>
           /\ minted' = minted + 1
           /\ grants' = grants \cup {[inst |-> inst, owner |-> owner, token |-> minted + 1]}
           /\ msgs' = (msgs \ {m}) \cup {Msg("reserveReply", m.client, m.attempt, minted + 1, d.reason)}
      /\ d.reason # "granted" =>
           /\ UNCHANGED <<minted, grants>>
           /\ msgs' = (msgs \ {m}) \cup {Msg("reserveReply", m.client, m.attempt, 0, d.reason)}
  BY <1>1
<1>5. up /\ UNCHANGED <<up, inst, closed, clientVars, ran>>
  BY DEF ReserveRunner
<1> HIDE DEF d
<1>6. CASE d.reason = "granted"
  <2>1. slot' = Reserved(owner, minted + 1) /\ UNCHANGED exitScheduled
    BY Zenon, <1>3, <1>4, <1>6 DEF Apply, TypeOK
  <2>2. Grant(m)
    BY Zenon, <1>3, <1>4, <1>6, <2>1 DEF Grant
  <2> QED
    BY <1>3, <1>4, <1>5, <2>2
<1>7. CASE d.reason # "granted"
  <2>1. Keeps(d) /\ (slot.kind = "executing" => d.slot = slot)
    BY SMTT(60), <1>3, <1>7 DEF Keeps, Retiring
  <2>2. Refusal(m, d, "reserveReply") /\ UNCHANGED <<minted, grants>>
    BY <1>3, <1>4, <1>7, <2>1 DEF Refusal, RefusalReason
  <2> QED
    BY Zenon, <1>3, <1>4, <1>5, <2>2
<1> QED
  BY ZenonT(60), <1>6, <1>7

Accept(m) ==
  /\ slot.kind = "reserved" /\ slot.owner = <<m.client, m.attempt>>
  /\ slot.token = m.token /\ m.token \in Token
  /\ slot' = Executing(<<m.client, m.attempt>>, m.token) /\ UNCHANGED exitScheduled
  /\ ran' = ran \cup {[inst |-> inst, owner |-> <<m.client, m.attempt>>, token |-> m.token]}
  /\ msgs' = msgs \ {m}

LEMMA RunSummary ==
  ASSUME TypeOK, NEW m \in msgs, RunReservedSpecimen(m)
  PROVE  /\ up /\ m.type = "submit"
         /\ UNCHANGED <<up, inst, closed, minted, clientVars, grants>>
         /\ \E d \in DecisionType :
              /\ Apply(d)
              /\ \/ Accept(m)
                 \/ Refusal(m, d, "submitReply") /\ UNCHANGED ran
<1> DEFINE owner == <<m.client, m.attempt>>
<1>1. PICK fault \in HostClock :
        LET d == submit(owner, m.token, fault)
        IN /\ Apply(d)
           /\ IF d.reason = "accepted"
              THEN /\ ran' = ran \cup {[inst |-> inst, owner |-> owner, token |-> m.token]}
                   /\ msgs' = msgs \ {m}
              ELSE /\ ran' = ran
                   /\ msgs' = (msgs \ {m})
                        \cup {Msg("submitReply", m.client, m.attempt, 0, d.reason)}
  BY DEF RunReservedSpecimen
<1> DEFINE d == submit(owner, m.token, fault)
<1>2. fault \in BOOLEAN /\ owner \in Connection
  BY ZenonT(60), HostClockType, MessageOwner
<1>3. /\ d \in DecisionType /\ d.reason \in RefusalReason \cup {"accepted"}
      /\ d.reason = "accepted" =>
           /\ slot.kind = "reserved" /\ slot.owner = owner /\ slot.token = m.token
           /\ m.token \in Token
           /\ d.slot = Executing(owner, m.token) /\ ~d.retire
      /\ d.reason # "accepted" =>
           \/ d.slot = slot /\ ~d.retire
           \/ slot.kind = "reserved" /\ d.retire /\ d.slot.kind = "retiring"
  BY <1>2, SubmitType
<1>4. /\ Apply(d)
      /\ d.reason = "accepted" =>
           /\ ran' = ran \cup {[inst |-> inst, owner |-> owner, token |-> m.token]}
           /\ msgs' = msgs \ {m}
      /\ d.reason # "accepted" =>
           /\ UNCHANGED ran
           /\ msgs' = (msgs \ {m}) \cup {Msg("submitReply", m.client, m.attempt, 0, d.reason)}
  BY <1>1
<1>5. up /\ m.type = "submit" /\ UNCHANGED <<up, inst, closed, minted, clientVars, grants>>
  BY Zenon DEF RunReservedSpecimen
<1> HIDE DEF d
<1>6. CASE d.reason = "accepted"
  <2>1. slot' = Executing(owner, m.token) /\ UNCHANGED exitScheduled
    BY Zenon, <1>3, <1>4, <1>6 DEF Apply, TypeOK
  <2>2. Accept(m)
    BY Zenon, <1>3, <1>4, <1>6, <2>1 DEF Accept
  <2> QED
    BY Zenon, <1>3, <1>4, <1>5, <2>2
<1>7. CASE d.reason # "accepted"
  <2>1. Keeps(d) /\ (slot.kind = "executing" => d.slot = slot)
    BY ZenonT(60), <1>3, <1>7 DEF Keeps
  <2>2. Refusal(m, d, "submitReply") /\ UNCHANGED ran
    BY <1>3, <1>4, <1>7, <2>1 DEF Refusal
  <2> QED
    BY Zenon, <1>3, <1>4, <1>5, <2>2
<1> QED
  BY ZenonT(60), <1>6, <1>7

-----------------------------------------------------------------------------
(* What a step of a client session can do.  Every action of a client is one *)
(* of the two summaries below, which is all the invariants need to know.    *)

\* The attempts of a capture are in bounds, one of them is under way in every
\* phase that holds a connection, and one is left in every phase that waits.
AttemptBound ==
  \A c \in Client :
    /\ Len(capture[c].attempts) <= AcquisitionAttempts
    /\ phase[c] \in {"acquiring", "submitted"} => Len(capture[c].attempts) >= 1
    /\ phase[c] \in {"initial", "waiting"} => Len(capture[c].attempts) < AcquisitionAttempts

\* Error callbacks carry an XPC error and nothing else.
ErrorBodies ==
  \A m \in msgs : m.type = "error" => m.body \in {"xpc_error", "proxy_type_mismatch"}

TypeInv == TypeOK /\ AttemptBound /\ ErrorBodies

Live == {"initial", "acquiring", "waiting"}

\* The session of c moves to phase p with capture k, and sends at most a
\* reservation request and an invalidation.
Quiet(c, p, k) ==
  /\ phase[c] \notin {"done", "crashed"}
  /\ phase' = [phase EXCEPT ![c] = p]
  /\ capture' = [capture EXCEPT ![c] = k]
  /\ k.submission = capture[c].submission
  /\ Len(k.attempts) <= AcquisitionAttempts
  /\ p \in {"acquiring", "submitted"} => Len(k.attempts) >= 1
  /\ p \in {"initial", "waiting"} => Len(k.attempts) < AcquisitionAttempts
  /\ p \in Live => phase[c] \in Live
  /\ p = "submitted" => phase[c] = "submitted"
  /\ overdue' \subseteq Client /\ rpcLate' \subseteq Client
  /\ msgs' \subseteq msgs \cup {Msg(t, c, n, 0, None) : t \in {"reserve", "invalidate"}, n \in AttemptID}

\* A capture that ends with a result or a refusal has the reply that says so.
Justified(c, p, k) ==
  p = "done" /\ k.terminal \in {"runner_reply", "submission_refused"} =>
    \E m \in msgs : /\ m.type = "submitReply" /\ m.client = c
                    /\ m.body = "result" <=> k.terminal = "runner_reply"

QuietStep(c) ==
  /\ UNCHANGED <<hostVars, grants, ran>>
  /\ \E p \in Phase, k \in Capture : Quiet(c, p, k) /\ Justified(c, p, k)

\* The grant of m is turned into a submission.
SubmitStep(m) ==
  /\ UNCHANGED <<hostVars, grants, ran>>
  /\ m \in msgs /\ m.type = "reserveReply" /\ phase[m.client] = "acquiring"
  /\ phase' = [phase EXCEPT ![m.client] = "submitted"]
  /\ \E k \in Capture :
       /\ capture' = [capture EXCEPT ![m.client] = k]
       /\ k.submission = "invoked"
       /\ Len(k.attempts) \in 1..AcquisitionAttempts
  /\ overdue' \subseteq Client /\ rpcLate' \subseteq Client
  /\ msgs' = (msgs \ {m}) \cup {Msg("submit", m.client, m.attempt, m.token, None)}

\* The invalidation sent when a connection is let go.
LEMMA InvalidationType ==
  ASSUME TypeInv, NEW c \in Client
  PROVE  Invalidation(c) \subseteq {Msg(t, c, n, 0, None) : t \in {"reserve", "invalidate"}, n \in AttemptID}
<1>1. CASE phase[c] \in {"acquiring", "submitted"}
  <2>1. attemptID(c) \in AttemptID
    BY <1>1, AcquisitionAttemptsAssumption DEF TypeInv, TypeOK, AttemptBound, attemptID, AttemptID, Capture
  <2> QED
    BY <1>1, <2>1 DEF Invalidation
<1>2. CASE phase[c] \notin {"acquiring", "submitted"}
  BY <1>2 DEF Invalidation
<1> QED
  BY <1>1, <1>2

\* complete: the session is over, with the capture it was given.
LEMMA CompleteQuiet ==
  ASSUME TypeInv, NEW c \in Client, NEW used, NEW cap \in Capture,
         NEW terminal \in Terminal, NEW error \in TransportError,
         phase[c] \notin {"done", "crashed"},
         cap.submission = capture[c].submission,
         Len(cap.attempts) <= AcquisitionAttempts,
         overdue' \subseteq Client,
         Complete(c, used, cap, terminal, error)
  PROVE  \E k \in Capture : Quiet(c, "done", k) /\ k.terminal = terminal
<1> DEFINE k == [cap EXCEPT !.terminal = terminal, !.error = error,
                   !.deadline_elapsed = cap.clock_available /\ c \in overdue']
<1>1. /\ k \in Capture /\ k.terminal = terminal /\ k.submission = cap.submission
      /\ k.attempts = cap.attempts
  BY Zenon DEF Capture
<1>2. capture' = [capture EXCEPT ![c] = k] /\ phase' = [phase EXCEPT ![c] = "done"]
  BY DEF Complete
<1>3. rpcLate' \subseteq Client
  BY DEF Complete, TypeInv, TypeOK
<1>4. msgs' \subseteq msgs \cup {Msg(t, c, n, 0, None) : t \in {"reserve", "invalidate"}, n \in AttemptID}
  BY InvalidationType DEF Complete
<1>5. Quiet(c, "done", k)
  BY <1>1, <1>2, <1>3, <1>4 DEF Quiet, Live
<1> QED
  BY Zenon, <1>1, <1>5

\* overallTimeout.
LEMMA OverallTimeoutQuiet ==
  ASSUME TypeInv, NEW c \in Client, NEW used, NEW cap \in Capture, NEW ph,
         phase[c] \notin {"done", "crashed"},
         cap.submission = capture[c].submission,
         Len(cap.attempts) <= AcquisitionAttempts,
         OverallTimeout(c, used, cap, ph)
  PROVE  \E k \in Capture : Quiet(c, "done", k) /\ Justified(c, "done", k)
<1> DEFINE error == <<"acquisition", "overall_deadline">>
           ended == IF ph = "acquiring" THEN EndAttempt(cap, "timeout", None, error) ELSE cap
           final == StopUnlessGranted(ended, "overall_deadline")
           stage == <<IF ph = "submitted" THEN "submission" ELSE "acquisition", "overall_deadline">>
<1>1. error \in TransportError /\ stage \in TransportError
  BY DEF TransportError, ErrorStage, ErrorReason
<1>2. ended \in Capture /\ Len(ended.attempts) = Len(cap.attempts)
      /\ ended.submission = cap.submission
  BY ZenonT(60), <1>1, EndAttemptType DEF AttemptOutcome
<1>3. final \in Capture /\ final.attempts = ended.attempts /\ final.submission = ended.submission
  BY <1>2, StopUnlessGrantedType DEF AcquisitionStop
<1>4. overdue' \subseteq Client
  BY DEF OverallTimeout, TypeInv, TypeOK
<1>5. Complete(c, used, final, "xpc_timeout", stage)
  BY DEF OverallTimeout
<1> HIDE DEF final, stage
<1>6. final.submission = capture[c].submission /\ Len(final.attempts) <= AcquisitionAttempts
  BY Zenon, <1>2, <1>3
<1>7. \E k \in Capture : Quiet(c, "done", k) /\ k.terminal = "xpc_timeout"
  <2>1. "xpc_timeout" \in Terminal
    BY Zenon DEF Terminal
  <2> QED
    BY ZenonT(60), <1>1, <1>3, <1>4, <1>5, <1>6, <2>1, CompleteQuiet
<1> QED
  BY <1>7 DEF Justified

\* clockFailure.
LEMMA ClockLostQuiet ==
  ASSUME TypeInv, NEW c \in Client, NEW used, NEW cap \in Capture, NEW ph,
         phase[c] \notin {"done", "crashed"},
         cap.submission = capture[c].submission,
         Len(cap.attempts) <= AcquisitionAttempts,
         ClockLost(c, used, cap, ph)
  PROVE  \E k \in Capture : Quiet(c, "done", k) /\ Justified(c, "done", k)
<1> DEFINE error == <<"local", "clock_error">>
<1>1. error \in TransportError
  BY DEF TransportError, ErrorStage, ErrorReason
<1>2. PICK failed \in Capture : /\ failed = [cap EXCEPT !.clock_available = FALSE]
                                /\ failed.attempts = cap.attempts
                                /\ failed.submission = cap.submission
  <2>1. LET f == [cap EXCEPT !.clock_available = FALSE]
        IN f \in Capture /\ f.attempts = cap.attempts /\ f.submission = cap.submission
    BY Zenon DEF Capture
  <2> QED
    BY Zenon, <2>1
<1>3. PICK ended \in Capture :
        /\ ended = IF ph = "acquiring" THEN EndAttempt(failed, "local_error", None, error)
                   ELSE failed
        /\ Len(ended.attempts) = Len(failed.attempts)
        /\ ended.submission = failed.submission
  <2>1. CASE ph = "acquiring"
    <3>1. "local_error" \in AttemptOutcome
      BY DEF AttemptOutcome
    <3>2. /\ EndAttempt(failed, "local_error", None, error) \in Capture
          /\ Len(EndAttempt(failed, "local_error", None, error).attempts) = Len(failed.attempts)
          /\ EndAttempt(failed, "local_error", None, error).submission = failed.submission
      BY ONLY Zenon, failed \in Capture, <1>1, <3>1, EndAttemptType
    <3> QED
      BY Zenon, <2>1, <3>2
  <2>2. CASE ph # "acquiring"
    BY Zenon, <2>2
  <2> QED
    BY <2>1, <2>2
<1>4. PICK final \in Capture :
        /\ final = StopUnlessGranted(ended, "local_error")
        /\ final.attempts = ended.attempts /\ final.submission = ended.submission
  BY <1>3, StopUnlessGrantedType DEF AcquisitionStop
<1>5. Complete(c, used, final, "local_error", error)
  BY <1>2, <1>3, <1>4 DEF ClockLost
<1>6. overdue' \subseteq Client
  BY Zenon DEF ClockLost, TypeInv, TypeOK
<1>7. final.submission = capture[c].submission /\ Len(final.attempts) <= AcquisitionAttempts
  <2>1. failed.attempts = cap.attempts /\ failed.submission = cap.submission
    BY Zenon, <1>2
  <2> QED
    BY <1>3, <1>4, <2>1
<1>8. \E k \in Capture : Quiet(c, "done", k) /\ k.terminal = "local_error"
  BY Zenon, <1>1, <1>5, <1>6, <1>7, CompleteQuiet DEF Terminal
<1> QED
  BY <1>8 DEF Justified

\* retry: the session ends, or waits for its next attempt.
LEMMA RetryQuiet ==
  ASSUME TypeInv, NEW c \in Client, NEW used, NEW cap \in Capture,
         phase[c] \in Live,
         cap.submission = capture[c].submission,
         Len(cap.attempts) <= AcquisitionAttempts,
         Retry(c, used, cap)
  PROVE  \E p \in Phase, k \in Capture : Quiet(c, p, k) /\ Justified(c, p, k)
<1>0. phase[c] \notin {"done", "crashed"}
  BY Zenon DEF Live
<1>1. CASE ClockLost(c, used, cap, "waiting")
  BY Zenon, <1>0, <1>1, ClockLostQuiet DEF Phase
<1>2. CASE OverallTimeout(c, used, cap, "waiting")
  BY Zenon, <1>0, <1>2, OverallTimeoutQuiet DEF Phase
<1>3. CASE /\ UNCHANGED overdue
           /\ Complete(c, used, [cap EXCEPT !.acquisition_stop = "attempt_limit"],
                "acquisition_failed", <<"acquisition", "attempt_limit">>)
  <2> DEFINE final == [cap EXCEPT !.acquisition_stop = "attempt_limit"]
             error == <<"acquisition", "attempt_limit">>
  <2>1. final \in Capture /\ final.attempts = cap.attempts /\ final.submission = cap.submission
    BY DEF Capture, AcquisitionStop
  <2>2. error \in TransportError
    BY DEF TransportError, ErrorStage, ErrorReason
  <2>3. overdue' \subseteq Client
    BY <1>3 DEF TypeInv, TypeOK
  <2>4. Complete(c, used, final, "acquisition_failed", error)
    BY Zenon, <1>3
  <2> HIDE DEF final, error
  <2>5. \E k \in Capture : Quiet(c, "done", k) /\ k.terminal = "acquisition_failed"
    BY SMTT(60), <1>0, <2>1, <2>2, <2>3, <2>4, CompleteQuiet DEF Terminal
  <2> QED
    BY <2>5 DEF Justified, Phase
<1>4. CASE /\ Len(cap.attempts) < AcquisitionAttempts
           /\ phase' = [phase EXCEPT ![c] = "waiting"]
           /\ capture' = [capture EXCEPT ![c] = cap]
           /\ msgs' = (msgs \ used) \cup Invalidation(c)
           /\ UNCHANGED <<overdue, rpcLate>>
  <2>1. Quiet(c, "waiting", cap)
    BY SMTT(60), <1>0, <1>4, InvalidationType DEF Quiet, Live, TypeInv, TypeOK
  <2> QED
    BY Zenon, <2>1 DEF Justified, Phase
<1> QED
  BY <1>1, <1>2, <1>3, <1>4 DEF Retry

\* A session that ends without a reply of the host.
LEMMA CompleteQuietStep ==
  ASSUME TypeInv, NEW c \in Client, NEW used, NEW cap \in Capture,
         NEW terminal \in Terminal \ {"runner_reply", "submission_refused"},
         NEW error \in TransportError,
         phase[c] \notin {"done", "crashed"},
         cap.submission = capture[c].submission,
         Len(cap.attempts) <= AcquisitionAttempts,
         UNCHANGED overdue,
         Complete(c, used, cap, terminal, error),
         UNCHANGED <<hostVars, grants, ran>>
  PROVE  QuietStep(c)
<1>1. overdue' \subseteq Client
  BY Zenon DEF TypeInv, TypeOK
<1>2. \E k \in Capture : Quiet(c, "done", k) /\ k.terminal = terminal
  BY <1>1, CompleteQuiet
<1> QED
  BY <1>2 DEF QuietStep, Justified, Phase

\* An attempt that ended in cap and stops the acquisition there.
LEMMA StoppedAttempt ==
  ASSUME NEW cap \in Capture, NEW reason \in AcquisitionStop
  PROVE  /\ [cap EXCEPT !.acquisition_stop = reason] \in Capture
         /\ [cap EXCEPT !.acquisition_stop = reason].attempts = cap.attempts
         /\ [cap EXCEPT !.acquisition_stop = reason].submission = cap.submission
BY DEF Capture

LEMMA ErrorTypes ==
  /\ NoError \in TransportError
  /\ \A stage \in ErrorStage, reason \in ErrorReason : <<stage, reason>> \in TransportError
BY DEF TransportError

\* Every timer, local failure and passage of time of a client is quiet.
LEMMA ClientSummary ==
  ASSUME TypeInv, NEW c \in Client, ClientNext(c)
  PROVE  QuietStep(c)
<1> USE DEF TypeInv
<1>0. /\ capture[c] \in Capture /\ phase[c] \in Phase
      /\ Len(capture[c].attempts) \in Nat /\ Len(capture[c].attempts) <= AcquisitionAttempts
  BY SMTT(60) DEF TypeOK, AttemptBound, Capture
<1>1. CASE InputReadFailed(c)
  <2>1. <<"local", "input_read_failed">> \in TransportError /\ phase[c] \notin {"done", "crashed"}
    BY <1>1, ErrorTypes DEF ErrorStage, ErrorReason, InputReadFailed
  <2> QED
    BY <1>0, <1>1, <2>1, CompleteQuietStep DEF InputReadFailed, Terminal
<1>2. CASE BeginAttempt(c)
  <2>1. PICK k \in Capture : /\ k = AppendAttempt(capture[c])
                             /\ Len(k.attempts) = Len(capture[c].attempts) + 1
                             /\ k.submission = capture[c].submission
    BY Zenon, <1>0, AppendAttemptType
  <2>2. Len(k.attempts) \in AttemptID
    BY SMTT(60), <1>0, <1>2, <2>1, AcquisitionAttemptsAssumption DEF BeginAttempt, AttemptID
  <2>3. msgs' = msgs \cup {Msg("reserve", c, Len(k.attempts), 0, None)}
    BY Zenon, <1>2, <2>1 DEF BeginAttempt, attemptID
  <2>4. capture' = [capture EXCEPT ![c] = k]
    BY Zenon, <1>2, <2>1 DEF BeginAttempt
  <2>5. Quiet(c, "acquiring", k)
    BY SMTT(60), <1>2, <2>1, <2>2, <2>3, <2>4 DEF Quiet, BeginAttempt, Live, AttemptID, TypeOK
  <2> QED
    BY <1>2, <2>5 DEF QuietStep, Justified, BeginAttempt, Phase
<1>3. CASE EncodingFailed(c)
  <2> DEFINE error == <<"local", "encoding_failed">>
  <2>1. error \in TransportError /\ phase[c] \notin {"done", "crashed"}
    BY Zenon, <1>3, ErrorTypes DEF ErrorStage, ErrorReason, EncodingFailed
  <2>2. PICK k \in Capture : /\ k = AppendAttempt(capture[c])
                             /\ Len(k.attempts) = Len(capture[c].attempts) + 1
                             /\ k.submission = capture[c].submission
    BY <1>0, AppendAttemptType
  <2>3. PICK e \in Capture : /\ e = EndAttempt(k, "local_error", None, error)
                             /\ Len(e.attempts) = Len(k.attempts)
                             /\ e.submission = k.submission
    BY <2>1, EndAttemptType DEF AttemptOutcome
  <2>4. PICK f \in Capture : /\ f = [e EXCEPT !.acquisition_stop = "local_error"]
                             /\ f.attempts = e.attempts /\ f.submission = e.submission
    BY ZenonT(60), StoppedAttempt DEF AcquisitionStop
  <2>5. Complete(c, {}, f, "local_error", error) /\ UNCHANGED overdue
        /\ UNCHANGED <<hostVars, grants, ran>>
    BY <1>3, <2>2, <2>3, <2>4 DEF EncodingFailed
  <2>6. Len(capture[c].attempts) < AcquisitionAttempts
    BY ZenonT(60), <1>3 DEF EncodingFailed, AttemptBound
  <2>7. Len(f.attempts) <= AcquisitionAttempts /\ f.submission = capture[c].submission
    <3>1. f.attempts = e.attempts /\ f.submission = e.submission
      BY <2>4
    <3>2. Len(f.attempts) = Len(capture[c].attempts) + 1
      BY ZenonT(60), <2>2, <2>3, <3>1
    <3>3. f.submission = capture[c].submission
      BY <2>2, <2>3, <3>1
    <3> QED
      BY <1>0, <2>6, <3>2, <3>3, AcquisitionAttemptsAssumption
  <2> QED
    BY <2>1, <2>5, <2>7, CompleteQuietStep DEF Terminal
<1>4. CASE ArmDeadline(c)
  <2>1. \E k \in Capture : Quiet(c, "done", k) /\ Justified(c, "done", k)
    BY ZenonT(60), <1>0, <1>4, OverallTimeoutQuiet DEF ArmDeadline
  <2> QED
    BY Zenon, <1>4, <2>1 DEF QuietStep, ArmDeadline, Phase
<1>5. CASE ReservationTimeout(c)
  <2> DEFINE error == <<"acquisition", "rpc_timeout">>
  <2>1. error \in TransportError /\ "timeout" \in AttemptOutcome
    BY Zenon, ErrorTypes DEF ErrorStage, ErrorReason, AttemptOutcome
  <2>2. PICK e \in Capture : /\ e = EndAttempt(capture[c], "timeout", None, error)
                             /\ Len(e.attempts) = Len(capture[c].attempts)
                             /\ e.submission = capture[c].submission
    BY SMTT(60), <1>0, <2>1, EndAttemptType
  <2>3. Retry(c, {}, e) /\ phase[c] \in Live
    BY Zenon, <1>5, <2>2 DEF ReservationTimeout, Live
  <2>4. \E p \in Phase, k \in Capture : Quiet(c, p, k) /\ Justified(c, p, k)
    BY Zenon, <1>0, <2>2, <2>3, RetryQuiet
  <2> QED
    BY <1>5, <2>4 DEF QuietStep, ReservationTimeout
<1>6. CASE ClockFailure(c)
  <2>1. \E k \in Capture : Quiet(c, "done", k) /\ Justified(c, "done", k)
    BY Zenon, <1>0, <1>6, ClockLostQuiet DEF ClockFailure
  <2> QED
    BY Zenon, <1>6, <2>1 DEF QuietStep, ClockFailure, Phase
<1>7. CASE ClientCrash(c)
  <2>1. capture' = [capture EXCEPT ![c] = capture[c]]
    BY <1>7 DEF ClientCrash, TypeOK
  <2>2. msgs' \subseteq msgs \cup {Msg(t, c, n, 0, None) : t \in {"reserve", "invalidate"}, n \in AttemptID}
    BY <1>7, InvalidationType DEF ClientCrash
  <2>3. /\ overdue' \subseteq Client /\ rpcLate' \subseteq Client
        /\ phase[c] \notin {"done", "crashed"} /\ phase' = [phase EXCEPT ![c] = "crashed"]
    BY Zenon, <1>7 DEF ClientCrash, TypeOK
  <2>4. Quiet(c, "crashed", capture[c])
    BY SMTT(60), <1>0, <2>1, <2>2, <2>3 DEF Quiet, Live
  <2> QED
    BY Zenon, <1>0, <1>7, <2>4 DEF QuietStep, Justified, ClientCrash, Phase
<1>8. CASE DeadlinePasses(c) \/ RpcDeadlinePasses(c)
  <2>1. phase' = [phase EXCEPT ![c] = phase[c]] /\ capture' = [capture EXCEPT ![c] = capture[c]]
    BY Zenon, <1>8 DEF DeadlinePasses, RpcDeadlinePasses, TypeOK
  <2>2. overdue' \subseteq Client /\ rpcLate' \subseteq Client /\ phase[c] \notin {"done", "crashed"}
        /\ UNCHANGED msgs /\ UNCHANGED <<hostVars, grants, ran>>
    BY Zenon, <1>8 DEF DeadlinePasses, RpcDeadlinePasses, TypeOK
  <2>3. Quiet(c, phase[c], capture[c])
    BY SMTT(60), <1>0, <2>1, <2>2 DEF Quiet, AttemptBound
  <2> QED
    BY Zenon, <1>0, <2>2, <2>3 DEF QuietStep, Justified
<1> QED
  BY Zenon, <1>1, <1>2, <1>3, <1>4, <1>5, <1>6, <1>7, <1>8 DEF ClientNext

\* A reservation reply ends the attempt, or turns the grant into a submission.
LEMMA ReservationReplySummary ==
  ASSUME TypeInv, NEW m \in msgs, ReservationReply(m)
  PROVE  QuietStep(m.client) \/ SubmitStep(m)
<1> DEFINE c == m.client
           cap == EndAttempt(capture[c], m.body, m.body, NoError)
           held == [cap EXCEPT !.acquisition_stop = "granted"]
           invalid == <<"acquisition", "invalid_control">>
<1>0. /\ c \in Client /\ capture[c] \in Capture /\ phase[c] = "acquiring"
      /\ m.type = "reserveReply"
      /\ Len(capture[c].attempts) \in Nat
      /\ Len(capture[c].attempts) >= 1 /\ Len(capture[c].attempts) <= AcquisitionAttempts
  BY DEF TypeInv, TypeOK, AttemptBound, Capture, Message, ReservationReply, Current
<1>a. UNCHANGED <<hostVars, grants, ran>>
  BY DEF ReservationReply
<1>b. phase[c] \in Live /\ phase[c] \notin {"done", "crashed"}
  BY Zenon, <1>0 DEF Live
<1>1. ASSUME m.body \in {"granted", "occupied"}
      PROVE  /\ cap \in Capture /\ Len(cap.attempts) = Len(capture[c].attempts)
             /\ cap.submission = capture[c].submission
  <2>1. m.body \in AttemptOutcome /\ NoError \in TransportError
        /\ m.body \in {None, "granted", "occupied"}
    BY <1>1, ErrorTypes DEF AttemptOutcome
  <2> QED
    BY Zenon, <1>0, <2>1, EndAttemptType
<1>2. CASE m.body = "occupied" /\ Retry(c, {m}, cap)
  <2>1. PICK e \in Capture : /\ e = cap /\ Len(e.attempts) = Len(capture[c].attempts)
                             /\ e.submission = capture[c].submission
    BY <1>1, <1>2
  <2>2. Retry(c, {m}, e)
    BY Zenon, <1>2, <2>1
  <2>3. \E p \in Phase, k \in Capture : Quiet(c, p, k) /\ Justified(c, p, k)
    BY Zenon, <1>0, <1>b, <2>1, <2>2, RetryQuiet
  <2> QED
    BY ZenonT(60), <1>a, <2>3 DEF QuietStep
<1>3. CASE /\ UNCHANGED overdue
           /\ Complete(c, {m},
                [EndAttempt(capture[c], "protocol_error", None, invalid)
                   EXCEPT !.acquisition_stop = "protocol_error"], "protocol_error", invalid)
  <2>1. invalid \in TransportError /\ "protocol_error" \in AttemptOutcome
    BY Zenon, ErrorTypes DEF ErrorStage, ErrorReason, AttemptOutcome
  <2>2. PICK e \in Capture : /\ e = EndAttempt(capture[c], "protocol_error", None, invalid)
                             /\ Len(e.attempts) = Len(capture[c].attempts)
                             /\ e.submission = capture[c].submission
    BY <1>0, <2>1, EndAttemptType
  <2>3. PICK f \in Capture : /\ f = [e EXCEPT !.acquisition_stop = "protocol_error"]
                             /\ f.attempts = e.attempts /\ f.submission = e.submission
    BY Zenon, StoppedAttempt DEF AcquisitionStop
  <2>4. Complete(c, {m}, f, "protocol_error", invalid)
    BY <1>3, <2>2, <2>3
  <2>5. f.attempts = e.attempts /\ f.submission = e.submission
    BY Zenon, <2>3
  <2>6. Len(f.attempts) <= AcquisitionAttempts /\ f.submission = capture[c].submission
    BY <1>0, <2>2, <2>5
  <2> QED
    BY Zenon, <1>0, <1>3, <1>a, <1>b, <2>1, <2>4, <2>6, CompleteQuietStep DEF Terminal
<1>4. ASSUME m.body = "granted"
      PROVE  \E h \in Capture : /\ h = held /\ Len(h.attempts) = Len(capture[c].attempts)
                                /\ h.submission = capture[c].submission
  <2>1. PICK e \in Capture : /\ e = cap /\ Len(e.attempts) = Len(capture[c].attempts)
                             /\ e.submission = capture[c].submission
    BY <1>1, <1>4
  <2>2. PICK f \in Capture : /\ f = [e EXCEPT !.acquisition_stop = "granted"]
                             /\ f.attempts = e.attempts /\ f.submission = e.submission
    BY ZenonT(60), StoppedAttempt DEF AcquisitionStop
  <2> QED
    BY Zenon, <2>1, <2>2
<1>5. CASE m.body = "granted" /\ OverallTimeout(c, {m}, held, "reserved")
  <2>1. PICK h \in Capture : /\ h = held /\ Len(h.attempts) = Len(capture[c].attempts)
                             /\ h.submission = capture[c].submission
    BY <1>4, <1>5
  <2>2. OverallTimeout(c, {m}, h, "reserved")
    BY Zenon, <1>5, <2>1
  <2>3. Len(h.attempts) <= AcquisitionAttempts /\ h.submission = capture[c].submission
    BY Zenon, <1>0, <2>1
  <2>4. \E k \in Capture : Quiet(c, "done", k) /\ Justified(c, "done", k)
    BY ZenonT(60), <1>0, <1>b, <2>2, <2>3, OverallTimeoutQuiet
  <2> QED
    BY <1>a, <2>4 DEF QuietStep, Phase
<1>6. CASE m.body = "granted" /\ ClockLost(c, {m}, held, "reserved")
  <2>1. PICK h \in Capture : /\ h = held /\ Len(h.attempts) = Len(capture[c].attempts)
                             /\ h.submission = capture[c].submission
    BY <1>4, <1>6
  <2>2. ClockLost(c, {m}, h, "reserved")
    BY <1>6, <2>1
  <2>3. Len(h.attempts) <= AcquisitionAttempts /\ h.submission = capture[c].submission
    BY <1>0, <2>1
  <2>4. \E k \in Capture : Quiet(c, "done", k) /\ Justified(c, "done", k)
    BY Zenon, <1>0, <1>b, <2>2, <2>3, ClockLostQuiet
  <2> QED
    BY <1>a, <2>4 DEF QuietStep, Phase
<1>7. CASE /\ m.body = "granted"
           /\ phase' = [phase EXCEPT ![c] = "submitted"]
           /\ capture' = [capture EXCEPT ![c] = InvokeSubmission(held)]
           /\ msgs' = (msgs \ {m}) \cup {Msg("submit", c, m.attempt, m.token, None)}
           /\ UNCHANGED <<overdue, rpcLate>>
  <2>1. PICK h \in Capture : /\ h = held /\ Len(h.attempts) = Len(capture[c].attempts)
                             /\ h.submission = capture[c].submission
    BY <1>4, <1>7
  <2>2. /\ InvokeSubmission(h) \in Capture /\ InvokeSubmission(h).submission = "invoked"
        /\ InvokeSubmission(h).attempts = h.attempts
    BY DEF InvokeSubmission, Capture
  <2>3. capture' = [capture EXCEPT ![c] = InvokeSubmission(h)]
    BY ZenonT(60), <1>7, <2>1
  <2>4. Len(InvokeSubmission(h).attempts) \in 1..AcquisitionAttempts
    BY <1>0, <2>1, <2>2, AcquisitionAttemptsAssumption
  <2>5. overdue' \subseteq Client /\ rpcLate' \subseteq Client
    BY <1>7 DEF TypeInv, TypeOK
  <2> QED
    BY Zenon, <1>0, <1>7, <1>a, <2>2, <2>3, <2>4, <2>5 DEF SubmitStep
<1> QED
  BY ZenonT(60), <1>2, <1>3, <1>5, <1>6, <1>7 DEF ReservationReply

\* A submission reply ends the session, with what the host said if it says it.
LEMMA SubmissionReplySummary ==
  ASSUME TypeInv, NEW m \in msgs, SubmissionReply(m)
  PROVE  QuietStep(m.client)
<1> DEFINE c == m.client
           cap == capture[c]
<1>0. /\ c \in Client /\ cap \in Capture /\ phase[c] = "submitted" /\ m.type = "submitReply"
      /\ Len(cap.attempts) <= AcquisitionAttempts
      /\ UNCHANGED <<hostVars, grants, ran>>
  BY DEF TypeInv, TypeOK, AttemptBound, Message, SubmissionReply, Current
<1>b. phase[c] \notin {"done", "crashed"}
  BY Zenon, <1>0
<1>1. CASE OverallTimeout(c, {m}, cap, "submitted")
  <2>1. \E k \in Capture : Quiet(c, "done", k) /\ Justified(c, "done", k)
    BY Zenon, <1>0, <1>1, <1>b, OverallTimeoutQuiet
  <2> QED
    BY Zenon, <1>0, <2>1 DEF QuietStep, Phase
<1>2. ASSUME UNCHANGED overdue, NEW f \in Capture, NEW terminal \in Terminal,
             NEW error \in TransportError,
             f.attempts = cap.attempts, f.submission = cap.submission,
             Complete(c, {m}, f, terminal, error),
             m.body = "result" <=> terminal = "runner_reply"
      PROVE  QuietStep(c)
  <2>1. overdue' \subseteq Client
    BY Zenon, <1>2 DEF TypeInv, TypeOK
  <2>2. f.submission = capture[c].submission /\ Len(f.attempts) <= AcquisitionAttempts
    BY Zenon, <1>0, <1>2
  <2>3. \E k \in Capture : Quiet(c, "done", k) /\ k.terminal = terminal
    <3>1. c \in Client
      BY <1>0
    <3> HIDE DEF c, cap
    <3> QED
      BY ZenonT(60), <1>2, <1>b, <2>1, <2>2, <3>1, CompleteQuiet
  <2> QED
    BY Zenon, <1>0, <1>2, <2>3 DEF QuietStep, Justified, Phase
<1>3. CASE /\ UNCHANGED overdue /\ m.body = "result"
           /\ Complete(c, {m}, [cap EXCEPT !.runner_reply = TRUE], "runner_reply", NoError)
  <2>1. LET f == [cap EXCEPT !.runner_reply = TRUE]
        IN f \in Capture /\ f.attempts = cap.attempts /\ f.submission = cap.submission
    BY Zenon, <1>0 DEF Capture
  <2>2. "runner_reply" \in Terminal
    BY DEF Terminal
  <2> QED
    BY Zenon, <1>2, <1>3, <2>1, <2>2, ErrorTypes
<1>4. CASE /\ UNCHANGED overdue /\ m.body # "result" /\ m.body \in RefusalReason
           /\ Complete(c, {m}, [cap EXCEPT !.submission_refusal = m.body],
                "submission_refused", NoError)
  <2>1. LET f == [cap EXCEPT !.submission_refusal = m.body]
        IN f \in Capture /\ f.attempts = cap.attempts /\ f.submission = cap.submission
    BY <1>0, <1>4 DEF Capture
  <2>2. "submission_refused" \in Terminal
    BY DEF Terminal
  <2> QED
    BY Zenon, <1>2, <1>4, <2>1, <2>2, ErrorTypes
<1>5. CASE /\ UNCHANGED overdue /\ m.body # "result"
           /\ Complete(c, {m}, [cap EXCEPT !.submission_refusal = "unadmitted"],
                "protocol_error", <<"submission", "invalid_control">>)
  <2>1. LET f == [cap EXCEPT !.submission_refusal = "unadmitted"]
        IN f \in Capture /\ f.attempts = cap.attempts /\ f.submission = cap.submission
    BY <1>0 DEF Capture
  <2>2. "protocol_error" \in Terminal /\ <<"submission", "invalid_control">> \in TransportError
    BY ErrorTypes DEF Terminal, ErrorStage, ErrorReason
  <2> QED
    BY Zenon, <1>2, <1>5, <2>1, <2>2
<1> QED
  BY Zenon, <1>1, <1>3, <1>4, <1>5 DEF SubmissionReply

\* An error callback ends a submission for good; an attempt may be retried.
LEMMA ConnectionFailedSummary ==
  ASSUME TypeInv, NEW m \in msgs, ConnectionFailed(m)
  PROVE  QuietStep(m.client)
<1> DEFINE c == m.client
<1>0. /\ c \in Client /\ capture[c] \in Capture
      /\ Len(capture[c].attempts) \in Nat /\ Len(capture[c].attempts) <= AcquisitionAttempts
      /\ phase[c] \in {"acquiring", "submitted"} /\ phase[c] \notin {"done", "crashed"}
      /\ m.body \in {"xpc_error", "proxy_type_mismatch"}
      /\ UNCHANGED <<hostVars, grants, ran>>
  BY SMTT(60) DEF TypeInv, TypeOK, AttemptBound, ErrorBodies, Capture, Message, ConnectionFailed, Current
<1>1. CASE OverallTimeout(c, {m}, capture[c], phase[c])
  <2>1. \E k \in Capture : Quiet(c, "done", k) /\ Justified(c, "done", k)
    BY Zenon, <1>0, <1>1, OverallTimeoutQuiet
  <2> QED
    BY Zenon, <1>0, <2>1 DEF QuietStep, Phase
<1>2. CASE UNCHANGED overdue /\ Complete(c, {m}, capture[c], "xpc_error", <<"submission", m.body>>)
  <2>1. <<"submission", m.body>> \in TransportError
        /\ "xpc_error" \in Terminal \ {"runner_reply", "submission_refused"}
    BY Zenon, <1>0, ErrorTypes DEF ErrorStage, ErrorReason, Terminal
  <2> QED
    BY Zenon, <1>0, <1>2, <2>1, CompleteQuietStep
<1>3. ASSUME NEW outcome \in AttemptOutcome, NEW error \in TransportError
      PROVE  \E e \in Capture : /\ e = EndAttempt(capture[c], outcome, None, error)
                                /\ Len(e.attempts) = Len(capture[c].attempts)
                                /\ e.submission = capture[c].submission
  BY <1>0, EndAttemptType
<1>4. CASE /\ UNCHANGED overdue
           /\ LET error == <<"acquisition", "proxy_type_mismatch">> IN
              Complete(c, {m}, [EndAttempt(capture[c], "local_error", None, error)
                                  EXCEPT !.acquisition_stop = "local_error"], "local_error", error)
  <2> DEFINE error == <<"acquisition", "proxy_type_mismatch">>
  <2>1. error \in TransportError /\ "local_error" \in AttemptOutcome
        /\ "local_error" \in Terminal \ {"runner_reply", "submission_refused"}
    BY Zenon, ErrorTypes DEF ErrorStage, ErrorReason, AttemptOutcome, Terminal
  <2>2. PICK e \in Capture : /\ e = EndAttempt(capture[c], "local_error", None, error)
                             /\ Len(e.attempts) = Len(capture[c].attempts)
                             /\ e.submission = capture[c].submission
    BY <1>3, <2>1
  <2>3. PICK f \in Capture : /\ f = [e EXCEPT !.acquisition_stop = "local_error"]
                             /\ f.attempts = e.attempts /\ f.submission = e.submission
    BY Zenon, StoppedAttempt DEF AcquisitionStop
  <2>4. Complete(c, {m}, f, "local_error", error)
    BY <1>4, <2>2, <2>3
  <2>5. f.attempts = e.attempts /\ f.submission = e.submission
    BY Zenon, <2>3
  <2>6. Len(f.attempts) <= AcquisitionAttempts /\ f.submission = capture[c].submission
    BY Zenon, <1>0, <2>2, <2>5
  <2> QED
    BY <1>0, <1>4, <2>1, <2>4, <2>6, CompleteQuietStep
<1>5. CASE /\ phase[c] = "acquiring"
           /\ Retry(c, {m}, EndAttempt(capture[c], "transport_error", None,
                                       <<"acquisition", "xpc_error">>))
  <2>1. <<"acquisition", "xpc_error">> \in TransportError /\ "transport_error" \in AttemptOutcome
    BY ErrorTypes DEF ErrorStage, ErrorReason, AttemptOutcome
  <2>2. PICK e \in Capture :
          /\ e = EndAttempt(capture[c], "transport_error", None, <<"acquisition", "xpc_error">>)
          /\ Len(e.attempts) = Len(capture[c].attempts)
          /\ e.submission = capture[c].submission
    BY Zenon, <1>3, <2>1
  <2>3. Retry(c, {m}, e) /\ phase[c] \in Live
    BY Zenon, <1>5, <2>2 DEF Live
  <2>4. \E p \in Phase, k \in Capture : Quiet(c, p, k) /\ Justified(c, p, k)
    BY Zenon, <1>0, <2>2, <2>3, RetryQuiet
  <2> QED
    BY Zenon, <1>0, <2>4 DEF QuietStep
<1> QED
  BY ZenonT(60), <1>1, <1>2, <1>4, <1>5 DEF ConnectionFailed

-----------------------------------------------------------------------------
(* Type correctness.                                                        *)

\* A quiet step keeps the types of the client's half of the state.
LEMMA QuietType ==
  ASSUME TypeInv, NEW c \in Client, QuietStep(c)
  PROVE  TypeInv'
<1>1. PICK p \in Phase, k \in Capture : Quiet(c, p, k)
  BY DEF QuietStep
<1>2. UNCHANGED <<up, inst, exitScheduled, slot, lapsed, closed, minted, grants, ran>>
  BY Zenon DEF QuietStep, hostVars
<1>3. phase' \in [Client -> Phase] /\ capture' \in [Client -> Capture]
  BY Zenon, <1>1 DEF Quiet, TypeInv, TypeOK
<1>4. \A m \in msgs' : \/ m \in msgs
                       \/ m.type # "error" /\ m \in Message
  <2>1. \A t \in {"reserve", "invalidate"}, n \in AttemptID :
          Msg(t, c, n, 0, None) \in Message /\ Msg(t, c, n, 0, None).type = t
    <3>1. None \in Body
      BY DEF Body
    <3> QED
      BY <3>1, MsgMember, MsgFields
  <2> QED
    BY SMTT(60), <1>1, <2>1 DEF Quiet
<1>5. msgs' \subseteq Message
  BY <1>4 DEF TypeInv, TypeOK
<1>6. ErrorBodies'
  BY Zenon, <1>4 DEF TypeInv, ErrorBodies
<1>7. AttemptBound'
  BY SMTT(60), <1>1 DEF Quiet, AttemptBound, TypeInv, TypeOK
<1>8. overdue' \subseteq Client /\ rpcLate' \subseteq Client
  BY SMTT(60), <1>1 DEF Quiet
<1> QED
  BY Zenon, <1>2, <1>3, <1>5, <1>6, <1>7, <1>8 DEF TypeInv, TypeOK

\* So does a submission.
LEMMA SubmitStepType ==
  ASSUME TypeInv, NEW m \in msgs, SubmitStep(m)
  PROVE  TypeInv'
<1>0. m \in Message /\ m.client \in Client
  BY Zenon DEF TypeInv, TypeOK, Message
<1>1. PICK k \in Capture : /\ capture' = [capture EXCEPT ![m.client] = k]
                           /\ Len(k.attempts) \in 1..AcquisitionAttempts
  BY ZenonT(60) DEF SubmitStep
<1>2. UNCHANGED <<up, inst, exitScheduled, slot, lapsed, closed, minted, grants, ran>>
  BY Zenon DEF SubmitStep, hostVars
<1>3. phase' \in [Client -> Phase] /\ capture' \in [Client -> Capture]
  BY Zenon, <1>0, <1>1 DEF SubmitStep, TypeInv, TypeOK, Phase
<1>4. Msg("submit", m.client, m.attempt, m.token, None) \in Message
  BY Zenon, <1>0 DEF Message, Msg, Body
<1>5. msgs' \subseteq Message
  BY ZenonT(60), <1>4 DEF SubmitStep, TypeInv, TypeOK
<1>6. ErrorBodies'
  BY SMTT(60) DEF SubmitStep, TypeInv, ErrorBodies, Msg
<1>7. AttemptBound'
  <2>1. /\ \A x \in Client \ {m.client} : phase'[x] = phase[x] /\ capture'[x] = capture[x]
        /\ phase'[m.client] = "submitted" /\ capture'[m.client] = k
    BY <1>0, <1>1 DEF SubmitStep, TypeInv, TypeOK
  <2>2. Len(k.attempts) >= 1 /\ Len(k.attempts) <= AcquisitionAttempts
    BY SMTT(60), <1>1, AcquisitionAttemptsAssumption
  <2> QED
    BY Zenon, <2>1, <2>2 DEF AttemptBound, TypeInv
<1>8. overdue' \subseteq Client /\ rpcLate' \subseteq Client
  BY Zenon DEF SubmitStep
<1> QED
  BY Zenon, <1>2, <1>3, <1>5, <1>6, <1>7, <1>8 DEF TypeInv, TypeOK

\* A step of the host or of the transport that is typed keeps the invariant.
LEMMA HostType ==
  ASSUME TypeInv,
         UNCHANGED clientVars,
         up' \in BOOLEAN, inst' \in 1..MaxHosts, exitScheduled' \in BOOLEAN,
         slot' \in Slot, lapsed' \in BOOLEAN, closed' \subseteq Connection,
         minted' \in 0..MaxHosts, grants' \subseteq Run, ran' \subseteq Run,
         \A m \in msgs' : \/ m \in msgs
                          \/ /\ m \in Message
                             /\ m.type = "error" => m.body \in {"xpc_error", "proxy_type_mismatch"}
  PROVE  TypeInv'
<1>1. msgs' \subseteq Message
  BY DEF TypeInv, TypeOK
<1>2. ErrorBodies'
  BY Zenon DEF TypeInv, ErrorBodies
<1>3. AttemptBound'
  BY DEF TypeInv, AttemptBound, clientVars
<1> QED
  BY Zenon, <1>1, <1>2, <1>3 DEF TypeInv, TypeOK, clientVars

\* Every decision is applied as a slot.
LEMMA ApplyType ==
  ASSUME TypeInv, NEW d \in DecisionType, Apply(d)
  PROVE  slot' \in Slot /\ exitScheduled' \in BOOLEAN /\ lapsed' \in BOOLEAN
BY Zenon DEF TypeInv, TypeOK, Apply, DecisionType

\* The host's steps are typed.
LEMMA HostNextType ==
  ASSUME TypeInv, HostNext
  PROVE  TypeInv'
<1> USE DEF TypeInv, TypeOK
<1>0. TypeOK /\ \A m \in msgs : /\ m \in Message /\ <<m.client, m.attempt>> \in Connection
                                /\ m.client \in Client /\ m.attempt \in AttemptID
  BY Zenon DEF Message, Connection
<1>b. \A d \in DecisionType : Apply(d) =>
        slot' \in Slot /\ exitScheduled' \in BOOLEAN /\ lapsed' \in BOOLEAN
  BY Zenon, ApplyType
<1>c. ASSUME NEW m \in msgs, NEW d, NEW type \in {"reserveReply", "submitReply"}, Refusal(m, d, type)
      PROVE  \A x \in msgs' : x \in msgs \/ (x \in Message /\ x.type # "error")
  <2>1. m.client \in Client /\ m.attempt \in AttemptID
    BY Zenon, <1>0
  <2>2. d.reason \in Body
    BY <1>c DEF Refusal, Body
  <2>3. Msg(type, m.client, m.attempt, 0, d.reason) \in Message
        /\ Msg(type, m.client, m.attempt, 0, d.reason).type # "error"
    BY Zenon, <2>1, <2>2, MsgMember, MsgFields
  <2> QED
    BY Zenon, <1>c, <2>3 DEF Refusal
<1> HIDE DEF TypeInv, TypeOK
<1>1. ASSUME NEW m \in msgs, ReserveRunner(m) PROVE TypeInv'
  <2>1. UNCHANGED <<up, inst, closed, clientVars, ran>>
    BY Zenon, <1>0, <1>1, ReserveSummary
  <2>2. PICK d \in DecisionType :
          Apply(d) /\ (Grant(m) \/ (Refusal(m, d, "reserveReply") /\ UNCHANGED <<minted, grants>>))
    BY Zenon, <1>0, <1>1, ReserveSummary
  <2>3. up' \in BOOLEAN /\ inst' \in 1..MaxHosts /\ closed' \subseteq Connection /\ ran' \subseteq Run
    BY Zenon, <1>0, <2>1 DEF TypeOK
  <2>4. CASE Grant(m)
    <3>1. minted' \in 0..MaxHosts
      BY SMTT(60), <2>4, MaxHostsAssumption DEF Grant, Token
    <3>2. grants' \subseteq Run
      <4>1. [inst |-> inst, owner |-> <<m.client, m.attempt>>, token |-> minted + 1] \in Run
        BY Zenon, <1>0, <2>4 DEF Grant, Run, TypeOK
      <4> QED
        BY Zenon, <1>0, <2>4, <4>1 DEF Grant, TypeOK
    <3>3. \A x \in msgs' : x \in msgs \/ (x \in Message /\ x.type # "error")
      <4>1. Msg("reserveReply", m.client, m.attempt, minted + 1, "granted") \in Message
            /\ Msg("reserveReply", m.client, m.attempt, minted + 1, "granted").type # "error"
        BY ZenonT(60), <1>0, <2>4, MsgMember, MsgFields DEF Grant, Body
      <4> QED
        BY Zenon, <2>4, <4>1 DEF Grant
    <3> QED
      BY ZenonT(60), <1>b, <2>1, <2>2, <2>3, <3>1, <3>2, <3>3, HostType
  <2>5. CASE Refusal(m, d, "reserveReply") /\ UNCHANGED <<minted, grants>>
    <3>1. minted' \in 0..MaxHosts /\ grants' \subseteq Run
      BY <1>0, <2>5 DEF TypeOK
    <3>2. \A x \in msgs' : x \in msgs \/ (x \in Message /\ x.type # "error")
      BY Zenon, <1>c, <2>5
    <3> QED
      BY Zenon, <1>b, <2>1, <2>2, <2>3, <3>1, <3>2, HostType
  <2> QED
    BY Zenon, <2>2, <2>4, <2>5
<1>2. ASSUME NEW m \in msgs, RunReservedSpecimen(m) PROVE TypeInv'
  <2>1. UNCHANGED <<up, inst, closed, minted, clientVars, grants>>
    BY Zenon, <1>0, <1>2, RunSummary
  <2>2. PICK d \in DecisionType :
          Apply(d) /\ (Accept(m) \/ (Refusal(m, d, "submitReply") /\ UNCHANGED ran))
    BY ZenonT(60), <1>0, <1>2, RunSummary
  <2>3. /\ up' \in BOOLEAN /\ inst' \in 1..MaxHosts /\ closed' \subseteq Connection
        /\ minted' \in 0..MaxHosts /\ grants' \subseteq Run
    BY <1>0, <2>1 DEF TypeOK
  <2>4. ran' \subseteq Run
    <3>1. Accept(m) => [inst |-> inst, owner |-> <<m.client, m.attempt>>, token |-> m.token] \in Run
      BY Zenon, <1>0 DEF Accept, Run, TypeOK
    <3>2. ran \subseteq Run
      BY <1>0 DEF TypeOK
    <3>3. CASE Accept(m)
      <4>1. PICK r \in Run : ran' = ran \cup {r}
        BY <3>1, <3>3 DEF Accept
      <4> QED
        BY ZenonT(60), <3>2, <4>1
    <3>4. CASE UNCHANGED ran
      BY Zenon, <3>2, <3>4
    <3> QED
      BY Zenon, <2>2, <3>3, <3>4
  <2>5. \A x \in msgs' : x \in msgs \/ (x \in Message /\ x.type # "error")
    BY ZenonT(60), <1>c, <2>2 DEF Accept
  <2> QED
    BY Zenon, <1>b, <2>1, <2>2, <2>3, <2>4, <2>5, HostType
<1> USE DEF TypeInv, TypeOK
<1>3. ASSUME NEW m \in msgs, ConnectionInvalidated(m) PROVE TypeInv'
  <2>1. disconnected(<<m.client, m.attempt>>) \in DecisionType
    BY ZenonT(60), <1>0, SlotMembers DEF disconnected, Decision, DecisionType, Body, RetireReason
  <2>2. slot' \in Slot /\ exitScheduled' \in BOOLEAN /\ lapsed' \in BOOLEAN
    BY Zenon, <1>3, <2>1, ApplyType DEF ConnectionInvalidated
  <2>3. closed' \subseteq Connection /\ msgs' \subseteq msgs
    BY Zenon, <1>0, <1>3 DEF ConnectionInvalidated
  <2> QED
    BY Zenon, <1>3, <2>2, <2>3, HostType DEF ConnectionInvalidated
<1>4. CASE ReplyAndExit
  <2>0. slot.owner \in Connection
    BY Zenon, <1>4, SlotKinds DEF ReplyAndExit
  <2>1. complete(slot.owner, slot.token) \in DecisionType
    BY Zenon, SlotMembers DEF complete, Decision, DecisionType, Body, RetireReason
  <2>2. slot' \in Slot /\ exitScheduled' \in BOOLEAN /\ lapsed' \in BOOLEAN
    BY Zenon, <1>4, <2>1, ApplyType DEF ReplyAndExit
  <2>3. Msg("submitReply", slot.owner[1], slot.owner[2], 0, "result") \in Message
        /\ Msg("submitReply", slot.owner[1], slot.owner[2], 0, "result").type # "error"
    BY Zenon, <2>0 DEF Connection, Message, Msg, Body
  <2>4. \A x \in msgs' : x \in msgs \/ (x \in Message /\ x.type # "error")
    BY ZenonT(60), <1>4, <2>3 DEF ReplyAndExit
  <2> QED
    BY Zenon, <1>4, <2>2, <2>4, HostType DEF ReplyAndExit
<1>5. CASE CheckExpiry
  <2>1. PICK fault \in HostClock : Apply(expire(fault))
    BY Zenon, <1>5 DEF CheckExpiry
  <2>2. expire(fault) \in DecisionType
    BY Zenon, SlotMembers DEF expire, Decision, DecisionType, Body, RetireReason
  <2>3. slot' \in Slot /\ exitScheduled' \in BOOLEAN /\ lapsed' \in BOOLEAN
    BY SMTT(60), <2>1, <2>2, ApplyType
  <2> QED
    BY Zenon, <1>5, <2>3, HostType DEF CheckExpiry
<1>6. CASE LeaseLapses
  BY Zenon, <1>6, HostType DEF LeaseLapses
<1>7. CASE HostExit
  BY ZenonT(60), <1>7, SlotMembers, HostType DEF HostExit, HostGone
<1>8. CASE HostCrash
  <2>1. \A x \in msgs' : \/ x \in msgs
                         \/ x \in Message /\ x.body = "xpc_error"
    <3>1. CASE slot.kind = "executing"
      <4>1. slot.owner \in Connection
        BY Zenon, <3>1, SlotKinds
      <4>2. Msg("error", slot.owner[1], slot.owner[2], 0, "xpc_error") \in Message
            /\ Msg("error", slot.owner[1], slot.owner[2], 0, "xpc_error").body = "xpc_error"
        BY Zenon, <4>1 DEF Connection, Message, Msg, Body
      <4> QED
        BY Zenon, <1>8, <4>2 DEF HostCrash
    <3>2. CASE slot.kind # "executing"
      BY Zenon, <1>8, <3>2 DEF HostCrash
    <3> QED
      BY Zenon, <3>1, <3>2
  <2> QED
    BY Zenon, <1>8, <2>1, SlotMembers, HostType DEF HostCrash, HostGone
<1>9. CASE Launch
  <2>1. inst' \in 1..MaxHosts
    BY SMTT(60), <1>9, MaxHostsAssumption DEF Launch
  <2> QED
    BY Zenon, <1>9, <2>1, HostType DEF Launch
<1> QED
  BY ZenonT(60), <1>1, <1>2, <1>3, <1>4, <1>5, <1>6, <1>7, <1>8, <1>9 DEF HostNext

\* What a step of the transport does: it replaces one message by another that
\* no host will execute.
TransportStep(m) ==
  /\ UNCHANGED <<hostVars, clientVars, grants, ran>>
  /\ \E x \in Message :
       /\ msgs' = (msgs \ {m}) \cup {x}
       /\ x.client = m.client /\ x.type \in {"error", "reserveReply", "submitReply"}
       /\ x.type = "error" => x.body \in {"xpc_error", "proxy_type_mismatch"}
       /\ x.type = "submitReply" => m.type = "submitReply" /\ m.body # "result" /\ x.body # "result"

LEMMA TransportSummary ==
  ASSUME TypeInv, NEW m \in msgs,
         BadControl(m) \/ \E body \in {"xpc_error", "proxy_type_mismatch"} : Fail(m, body)
  PROVE  TransportStep(m)
<1>0. m \in Message
  BY Zenon DEF TypeInv, TypeOK
<1>1. CASE BadControl(m)
  <2> DEFINE x == Msg(m.type, m.client, m.attempt, 0, "unadmitted")
  <2>1. /\ x \in Message /\ x.client = m.client /\ x.type = m.type
        /\ x.body = "unadmitted"
    BY Zenon, <1>0 DEF Message, Msg, Body
  <2>2. /\ m.type \in {"reserveReply", "submitReply"} /\ m.body # "result"
        /\ msgs' = (msgs \ {m}) \cup {x}
        /\ UNCHANGED <<hostVars, clientVars, grants, ran>>
    BY Zenon, <1>1 DEF BadControl
  <2> QED
    BY Zenon, <2>1, <2>2 DEF TransportStep
<1>2. ASSUME NEW body \in {"xpc_error", "proxy_type_mismatch"}, Fail(m, body)
      PROVE  TransportStep(m)
  <2> DEFINE x == Msg("error", m.client, m.attempt, 0, body)
  <2>1. /\ x \in Message /\ x.client = m.client /\ x.type = "error" /\ x.body = body
    BY Zenon, <1>0 DEF Message, Msg, Body
  <2>2. msgs' = (msgs \ {m}) \cup {x} /\ UNCHANGED <<hostVars, clientVars, grants, ran>>
    BY Zenon, <1>2 DEF Fail
  <2> QED
    BY Zenon, <2>1, <2>2 DEF TransportStep
<1> QED
  BY Zenon, <1>1, <1>2

LEMMA TransportType ==
  ASSUME TypeInv, NEW m \in msgs, TransportStep(m)
  PROVE  TypeInv'
<1>1. \A y \in msgs' : \/ y \in msgs
                       \/ /\ y \in Message
                          /\ y.type = "error" => y.body \in {"xpc_error", "proxy_type_mismatch"}
  BY Zenon DEF TransportStep
<1>2. UNCHANGED <<up, inst, exitScheduled, slot, lapsed, closed, minted, clientVars, grants, ran>>
  BY Zenon DEF TransportStep, hostVars
<1>3. /\ up' \in BOOLEAN /\ inst' \in 1..MaxHosts /\ exitScheduled' \in BOOLEAN
      /\ slot' \in Slot /\ lapsed' \in BOOLEAN /\ closed' \subseteq Connection
      /\ minted' \in 0..MaxHosts /\ grants' \subseteq Run /\ ran' \subseteq Run
  BY <1>2 DEF TypeInv, TypeOK
<1> QED
  BY Zenon, <1>1, <1>2, <1>3, HostType

\* A step of the system is one of the host, or one of the four summaries.
LEMMA StepSummary ==
  ASSUME TypeInv, Next
  PROVE  \/ HostNext
         \/ \E c \in Client : QuietStep(c)
         \/ \E m \in msgs : SubmitStep(m)
         \/ \E m \in msgs : TransportStep(m)
<1>1. CASE CallbackNext
  <2>1. PICK m \in msgs :
          \/ ReservationReply(m) \/ SubmissionReply(m) \/ ConnectionFailed(m) \/ BadControl(m)
          \/ \E body \in {"xpc_error", "proxy_type_mismatch"} : Fail(m, body)
    BY <1>1 DEF CallbackNext
  <2>2. m.client \in Client
    BY DEF TypeInv, TypeOK, Message
  <2> QED
    BY ZenonT(60), <2>1, <2>2, ReservationReplySummary, SubmissionReplySummary, ConnectionFailedSummary,
       TransportSummary
<1>2. ASSUME NEW c \in Client, ClientNext(c) PROVE QuietStep(c)
  BY <1>2, ClientSummary
<1> QED
  BY Zenon, <1>1, <1>2 DEF Next

LEMMA TypeStep == TypeInv /\ [Next]_vars => TypeInv'
<1> SUFFICES ASSUME TypeInv, [Next]_vars PROVE TypeInv'
  OBVIOUS
<1>1. CASE Next
  BY ZenonT(60), <1>1, StepSummary, HostNextType, QuietType, SubmitStepType, TransportType
<1>2. CASE UNCHANGED vars
  BY <1>2 DEF vars, hostVars, clientVars, TypeInv, TypeOK, AttemptBound, ErrorBodies
<1> QED
  BY <1>1, <1>2

LEMMA TypeInit == Init => TypeInv
<1> SUFFICES ASSUME Init PROVE TypeInv
  BY Zenon
<1>1. InitCapture \in Capture /\ Len(InitCapture.attempts) = 0
  <2>1. "local_error" \in AcquisitionStop /\ "local_error" \in Terminal
    BY DEF AcquisitionStop, Terminal
  <2>2. <<>> \in Seq(Attempt) /\ Len(<<>>) = 0
    BY SMTT(60)
  <2>3. InitCapture.attempts = <<>>
    BY Zenon DEF InitCapture
  <2> QED
    BY Zenon, <2>1, <2>2, <2>3, ErrorTypes DEF InitCapture, Capture
<1>2. TypeOK
  <2>1. 1 \in 1..MaxHosts /\ 0 \in 0..MaxHosts
    BY MaxHostsAssumption
  <2>2. phase \in [Client -> Phase] /\ capture \in [Client -> Capture]
    BY <1>1 DEF Init, Phase
  <2> QED
    BY Zenon, <2>1, <2>2, SlotMembers DEF Init, TypeOK
<1>3. AttemptBound
  BY <1>1, AcquisitionAttemptsAssumption DEF Init, AttemptBound
<1> QED
  BY <1>2, <1>3 DEF Init, TypeInv, ErrorBodies

\* Every variable keeps its type, in particular the admission slot is always
\* one of the four PWRunnerAdmission knows and every capture is well formed.
THEOREM TypeCorrect == Spec => []TypeOK
<1>1. TypeInv => TypeOK
  BY DEF TypeInv
<1> QED
  BY <1>1, TypeInit, TypeStep, PTL DEF Spec

-----------------------------------------------------------------------------
(* The inductive invariant.                                                 *)

Submits(c) == {m \in msgs : m.type = "submit" /\ m.client = c}

\* A session that has not submitted says so; one that has a submission in
\* flight, an answer to it or an execution says that it was invoked.
InvocationInv ==
  /\ \A c \in Client : phase[c] \in Live => ~Invoked(capture[c])
  /\ \A m \in msgs : m.type \in {"submit", "submitReply"} => Invoked(capture[m.client])
  /\ \A r \in ran : Invoked(capture[r.owner[1]])

\* One submission per client, and none once the client's specimen has run.
SubmissionInv ==
  \A m \in msgs : m.type = "submit" =>
    RanFor(m.client) = {} /\ \A x \in msgs : x.type = "submit" /\ x.client = m.client => x = m

\* An answer to a submission is true when it is sent and stays true.
ReplyInv ==
  \A m \in msgs : m.type = "submitReply" =>
    /\ m.body = "result" => RanFor(m.client) # {}
    /\ m.body # "result" => RanFor(m.client) = {} /\ Submits(m.client) = {}

\* So does what a finished session has reported.
ReportInv ==
  \A c \in Client : phase[c] = "done" /\ Invoked(capture[c]) =>
    /\ capture[c].terminal = "runner_reply" => RanFor(c) # {}
    /\ capture[c].terminal = "submission_refused" => RanFor(c) = {} /\ Submits(c) = {}

\* The slot accounts for what this host process has granted and executed.
SlotInv ==
  /\ ~up => slot = Free /\ ~exitScheduled
  /\ up /\ slot.kind = "reserved" =>
       [inst |-> inst, owner |-> slot.owner, token |-> slot.token] \in grants
  /\ up /\ slot.kind = "executing" => RanFor(slot.owner[1]) # {}
  /\ \A r \in ran : /\ r \in grants /\ r.inst <= inst
                    /\ up /\ r.inst = inst => slot.kind \in {"executing", "retiring"}

IInv == /\ TypeInv /\ InvocationInv /\ SubmissionInv /\ ReplyInv /\ ReportInv /\ SlotInv
        /\ SingleUse /\ ExitIffRetired

\* A quiet step of a client invents no submission and no answer, and a report
\* it makes rests on an answer that ReplyInv vouches for.
LEMMA QuietIInv ==
  ASSUME IInv, NEW c \in Client, QuietStep(c)
  PROVE  IInv'
<1>0. TypeInv /\ TypeInv'
  BY QuietType DEF IInv
<1>1. PICK p \in Phase, k \in Capture : Quiet(c, p, k) /\ Justified(c, p, k)
  BY DEF QuietStep
<1>2. UNCHANGED <<up, inst, exitScheduled, slot, grants, ran>>
  BY DEF QuietStep, hostVars
<1>3. \A m \in msgs' : m.type \in {"submit", "submitReply"} => m \in msgs
  <2> SUFFICES ASSUME NEW m \in msgs', m \notin msgs
               PROVE  m.type \notin {"submit", "submitReply"}
    OBVIOUS
  <2>1. PICK t \in {"reserve", "invalidate"}, n \in AttemptID : m = Msg(t, c, n, 0, None)
    BY <1>1 DEF Quiet
  <2>2. m.type = t
    BY <2>1, MsgFields
  <2> QED
    BY <2>2
<1>4. /\ \A x \in Client : Invoked(capture[x])' <=> Invoked(capture[x])
      /\ \A x \in Client : phase'[x] \in Live => phase[x] \in Live
      /\ \A x \in Client \ {c} : phase'[x] = phase[x] /\ capture'[x] = capture[x]
      /\ phase'[c] = p /\ capture'[c] = k
  <2>1. /\ \A x \in Client \ {c} : phase'[x] = phase[x] /\ capture'[x] = capture[x]
        /\ phase'[c] = p /\ capture'[c] = k
    BY <1>0, <1>1 DEF Quiet, TypeInv, TypeOK
  <2>2. k.submission = capture[c].submission /\ (p \in Live => phase[c] \in Live)
    BY <1>1 DEF Quiet
  <2> QED
    BY <2>1, <2>2 DEF Invoked
<1>5. /\ \A m \in msgs : m.client \in Client
      /\ \A r \in ran : r.owner[1] \in Client
  BY <1>0 DEF TypeInv, TypeOK, Message, Run, Connection
<1>6. \A x \in Client : RanFor(x)' = RanFor(x) /\ Submits(x)' \subseteq Submits(x)
  BY <1>2, <1>3 DEF RanFor, Submits
<1>7. InvocationInv'
  BY Zenon, <1>2, <1>3, <1>4, <1>5 DEF IInv, InvocationInv
<1>8. SubmissionInv'
  BY <1>3, <1>5, <1>6 DEF IInv, SubmissionInv
<1>9. ReplyInv'
  BY <1>3, <1>5, <1>6 DEF IInv, ReplyInv
<1>10. ReportInv'
  <2>1. \A x \in Client \ {c} : phase'[x] = "done" /\ Invoked(capture'[x]) =>
          /\ capture'[x].terminal = "runner_reply" => RanFor(x)' # {}
          /\ capture'[x].terminal = "submission_refused" => RanFor(x)' = {} /\ Submits(x)' = {}
    BY <1>4, <1>6 DEF IInv, ReportInv
  <2>2. p = "done" =>
          /\ k.terminal = "runner_reply" => RanFor(c)' # {}
          /\ k.terminal = "submission_refused" => RanFor(c)' = {} /\ Submits(c)' = {}
    BY Zenon, <1>1, <1>6 DEF Justified, IInv, ReplyInv
  <2> QED
    BY Zenon, <1>4, <2>1, <2>2 DEF ReportInv
<1>11. SlotInv' /\ SingleUse' /\ ExitIffRetired'
  BY <1>2, <1>6 DEF IInv, SlotInv, SingleUse, ExitIffRetired, RanFor
<1> QED
  BY <1>0, <1>7, <1>8, <1>9, <1>10, <1>11 DEF IInv

\* A submission comes from a session that had submitted nothing: whatever was
\* said or done for a client before contradicts its capture.
LEMMA SubmitStepIInv ==
  ASSUME IInv, NEW m \in msgs, SubmitStep(m)
  PROVE  IInv'
<1> DEFINE c == m.client
           s == Msg("submit", c, m.attempt, m.token, None)
<1>0. TypeInv /\ TypeInv' /\ c \in Client
  BY SubmitStepType DEF IInv, TypeInv, TypeOK, Message
<1>1. PICK k \in Capture : capture' = [capture EXCEPT ![c] = k] /\ k.submission = "invoked"
  BY Zenon DEF SubmitStep
<1>2. UNCHANGED <<up, inst, exitScheduled, slot, grants, ran>>
  BY DEF SubmitStep, hostVars
<1>3. /\ msgs' = (msgs \ {m}) \cup {s} /\ phase[c] = "acquiring"
      /\ s.type = "submit" /\ s.client = c
  BY DEF SubmitStep, Msg
<1>4. /\ \A x \in Client \ {c} : phase'[x] = phase[x] /\ capture'[x] = capture[x]
      /\ phase'[c] = "submitted" /\ Invoked(capture'[c])
  BY <1>0, <1>1 DEF SubmitStep, Invoked, TypeInv, TypeOK
<1>5. /\ \A x \in msgs : x.client \in Client
      /\ \A r \in ran : r.owner[1] \in Client
  BY Zenon, <1>0 DEF TypeInv, TypeOK, Message, Run, Connection
<1>6. ~Invoked(capture[c])
  BY <1>0, <1>3 DEF IInv, InvocationInv, Live
<1>7. /\ \A x \in msgs : x.type \in {"submit", "submitReply"} => x.client # c
      /\ \A r \in ran : r.owner[1] # c
  BY <1>6 DEF IInv, InvocationInv
<1>8. /\ \A x \in Client : RanFor(x)' = RanFor(x)
      /\ RanFor(c)' = {}
  BY <1>2, <1>7 DEF RanFor
<1>9. \A x \in Client \ {c} : Submits(x)' \subseteq Submits(x)
  BY Zenon, <1>3 DEF Submits
<1>10. InvocationInv'
  BY Zenon, <1>2, <1>3, <1>4, <1>5 DEF IInv, InvocationInv, Live
<1>11. SubmissionInv'
  <2>1. \A x \in msgs' : x.type = "submit" /\ x # s => x \in msgs /\ x.client # c
    BY <1>3, <1>7
  <2> HIDE DEF s
  <2>2. \A x \in msgs' : x.type = "submit" => RanFor(x.client)' = {}
    <3> SUFFICES ASSUME NEW x \in msgs', x.type = "submit"
                 PROVE  RanFor(x.client)' = {}
      OBVIOUS
    <3>1. CASE x = s
      BY Zenon, <1>3, <1>8, <3>1
    <3>2. CASE x # s
      <4>1. x \in msgs /\ x.client \in Client
        BY <1>5, <2>1, <3>2
      <4>2. RanFor(x.client) = {}
        BY <4>1 DEF IInv, SubmissionInv
      <4> QED
        BY Zenon, <1>8, <4>1, <4>2
    <3> QED
      BY <3>1, <3>2
  <2>3. \A x, y \in msgs' : /\ x.type = "submit" /\ y.type = "submit"
                            /\ x.client = y.client
                            => x = y
    <3> SUFFICES ASSUME NEW x \in msgs', NEW y \in msgs',
                        x.type = "submit", y.type = "submit", x.client = y.client, x # y
                 PROVE  FALSE
      OBVIOUS
    <3>1. x # s /\ y # s
      BY <1>3, <2>1
    <3>2. x \in msgs /\ y \in msgs
      BY Zenon, <2>1, <3>1
    <3> QED
      BY <3>2 DEF IInv, SubmissionInv
  <2> QED
    BY Zenon, <2>2, <2>3 DEF SubmissionInv
<1>12. ReplyInv'
  BY Zenon, <1>3, <1>5, <1>7, <1>8, <1>9 DEF IInv, ReplyInv
<1>13. ReportInv'
  BY ZenonT(60), <1>4, <1>8, <1>9 DEF IInv, ReportInv
<1>14. SlotInv' /\ SingleUse' /\ ExitIffRetired'
  BY <1>2, <1>8 DEF IInv, SlotInv, SingleUse, ExitIffRetired, RanFor
<1> QED
  BY ZenonT(60), <1>0, <1>10, <1>11, <1>12, <1>13, <1>14 DEF IInv

\* The transport turns calls and replies into errors, and a refusal into one
\* that cannot be read; it makes no submission and no result.
LEMMA TransportIInv ==
  ASSUME IInv, NEW m \in msgs, TransportStep(m)
  PROVE  IInv'
<1>0. TypeInv /\ TypeInv' /\ m.client \in Client
  BY TransportType DEF IInv, TypeInv, TypeOK, Message
<1>1. PICK x \in Message :
        /\ msgs' = (msgs \ {m}) \cup {x} /\ x.client = m.client
        /\ x.type \in {"error", "reserveReply", "submitReply"}
        /\ x.type = "submitReply" => m.type = "submitReply" /\ m.body # "result" /\ x.body # "result"
  BY DEF TransportStep
<1>2. UNCHANGED <<up, inst, exitScheduled, slot, phase, capture, grants, ran>>
  BY DEF TransportStep, hostVars, clientVars
<1>3. \A y \in Client : RanFor(y)' = RanFor(y) /\ Submits(y)' \subseteq Submits(y)
  BY Zenon, <1>1, <1>2 DEF RanFor, Submits
<1>4. InvocationInv'
  BY Zenon, <1>1, <1>2 DEF IInv, InvocationInv
<1>5. SubmissionInv'
  BY Zenon, <1>1, <1>2 DEF IInv, SubmissionInv, RanFor
<1>6. ReplyInv'
  <2>1. \A y \in msgs : y.client \in Client
    BY Zenon, <1>0 DEF TypeInv, TypeOK, Message
  <2> QED
    BY ZenonT(60), <1>1, <1>3, <2>1 DEF IInv, ReplyInv
<1>7. ReportInv'
  BY ZenonT(60), <1>2, <1>3 DEF IInv, ReportInv
<1>8. SlotInv' /\ SingleUse' /\ ExitIffRetired'
  BY <1>2 DEF IInv, SlotInv, SingleUse, ExitIffRetired, RanFor
<1> QED
  BY ZenonT(60), <1>0, <1>4, <1>5, <1>6, <1>7, <1>8 DEF IInv

\* A host step that executes and answers nothing keeps the clients' half.
LEMMA HostClients ==
  ASSUME IInv, UNCHANGED <<clientVars, ran>>,
         \A x \in msgs' : x.type \in {"submit", "submitReply"} => x \in msgs
  PROVE  InvocationInv' /\ SubmissionInv' /\ ReplyInv' /\ ReportInv' /\ SingleUse'
<1>1. UNCHANGED <<phase, capture, ran>>
  BY DEF clientVars
<1>2. \A y : RanFor(y)' = RanFor(y) /\ Submits(y)' \subseteq Submits(y)
  BY Zenon, <1>1 DEF RanFor, Submits
<1>3. InvocationInv'
  BY Zenon, <1>1 DEF IInv, InvocationInv
<1>4. SubmissionInv'
  BY <1>2 DEF IInv, SubmissionInv
<1>5. ReplyInv'
  BY Zenon, <1>2 DEF IInv, ReplyInv
<1>6. ReportInv'
  BY <1>1, <1>2 DEF IInv, ReportInv
<1>7. SingleUse'
  BY <1>1 DEF IInv, SingleUse
<1> QED
  BY Zenon, <1>3, <1>4, <1>5, <1>6, <1>7

\* A decision that leaves the slot alone, or retires a held reservation and
\* schedules the exit, keeps the slot's half.
LEMMA HostSlot ==
  ASSUME IInv, up, NEW d \in DecisionType, Apply(d), UNCHANGED <<up, inst, ran>>,
         grants \subseteq grants', Keeps(d)
  PROVE  SlotInv' /\ ExitIffRetired'
<1>1. slot' = d.slot /\ exitScheduled' = (exitScheduled \/ d.retire)
  BY DEF Apply
<1>2. \A y : RanFor(y)' = RanFor(y)
  BY Zenon DEF RanFor
<1>3. CASE d.slot = slot /\ ~d.retire
  <2>1. slot' = slot /\ exitScheduled' = exitScheduled
    BY ZenonT(60), <1>1, <1>3 DEF IInv, TypeInv, TypeOK
  <2> QED
    BY Zenon, <1>2, <2>1 DEF IInv, SlotInv, ExitIffRetired
<1>4. CASE slot.kind \in {"reserved", "executing"} /\ d.slot.kind = "retiring" /\ d.retire
  <2>1. slot'.kind = "retiring" /\ exitScheduled'
    BY Zenon, <1>1, <1>4
  <2> QED
    BY <1>2, <2>1 DEF IInv, SlotInv, ExitIffRetired
<1> QED
  BY <1>3, <1>4 DEF Keeps

\* The host's steps.  Only RunReservedSpecimen executes: the reservation it
\* consumes was granted, no other specimen can have run in a process whose
\* slot is reserved, and none for a client whose submission is in flight.
LEMMA HostIInv ==
  ASSUME IInv, HostNext
  PROVE  IInv'
<1>0. TypeInv /\ TypeOK /\ TypeInv'
  BY HostNextType DEF IInv, TypeInv
<1>a. /\ \A m \in msgs : <<m.client, m.attempt>> \in Connection /\ m.client \in Client
      /\ slot \in Slot
  BY <1>0 DEF TypeOK, Message, Connection
<1>1. ASSUME NEW m \in msgs, ReserveRunner(m) PROVE IInv'
  <2>1. up /\ UNCHANGED <<up, inst, clientVars, ran>>
    BY <1>0, <1>1, ReserveSummary
  <2>2. PICK d \in DecisionType :
          Apply(d) /\ (Grant(m) \/ (Refusal(m, d, "reserveReply") /\ UNCHANGED <<minted, grants>>))
    BY <1>0, <1>1, ReserveSummary
  <2>3. \A x \in msgs' : x.type \in {"submit", "submitReply"} => x \in msgs
    <3> SUFFICES ASSUME NEW x \in msgs', x \notin msgs
                 PROVE  x.type \notin {"submit", "submitReply"}
      OBVIOUS
    <3>1. CASE Grant(m)
      <4>1. x = Msg("reserveReply", m.client, m.attempt, minted + 1, "granted")
        BY Zenon, <3>1 DEF Grant
      <4> QED
        BY SMTT(60), <4>1, MsgFields
    <3>2. CASE Refusal(m, d, "reserveReply")
      <4>1. x = Msg("reserveReply", m.client, m.attempt, 0, d.reason)
        BY <3>2 DEF Refusal
      <4> QED
        BY SMTT(60), <4>1, MsgFields
    <3> QED
      BY Zenon, <2>2, <3>1, <3>2
  <2>4. InvocationInv' /\ SubmissionInv' /\ ReplyInv' /\ ReportInv' /\ SingleUse'
    BY <2>1, <2>3, HostClients
  <2>5. CASE Grant(m)
    <3>1. /\ slot'.kind = "reserved" /\ slot'.owner = <<m.client, m.attempt>>
          /\ slot'.token = minted + 1
      BY Zenon, <2>5 DEF Grant, Reserved
    <3>2. /\ [inst |-> inst, owner |-> slot'.owner, token |-> slot'.token] \in grants'
          /\ grants \subseteq grants'
      BY Zenon, <2>5, <3>1 DEF Grant
    <3>3. \A r \in ran : r \in grants /\ r.inst <= inst /\ r.inst # inst
      BY Zenon, <2>1, <2>5 DEF IInv, SlotInv, Grant
    <3>4. SlotInv'
      BY Zenon, <2>1, <3>1, <3>2, <3>3 DEF SlotInv
    <3>5. ExitIffRetired'
      BY Zenon, <2>1, <2>5, <3>1 DEF IInv, ExitIffRetired, Grant
    <3> QED
      BY Zenon, <1>0, <2>4, <3>4, <3>5 DEF IInv
  <2>6. CASE Refusal(m, d, "reserveReply") /\ UNCHANGED <<minted, grants>>
    <3>1. SlotInv' /\ ExitIffRetired'
      BY Zenon, <2>1, <2>2, <2>6, HostSlot DEF Refusal
    <3> QED
      BY Zenon, <1>0, <2>4, <3>1 DEF IInv
  <2> QED
    BY <2>2, <2>5, <2>6
<1>2. ASSUME NEW m \in msgs, RunReservedSpecimen(m) PROVE IInv'
  <2>1. /\ up /\ m.type = "submit" /\ UNCHANGED <<up, inst, clientVars, grants>>
        /\ UNCHANGED <<phase, capture>>
    BY <1>0, <1>2, RunSummary DEF clientVars
  <2>2. PICK d \in DecisionType :
          Apply(d) /\ (Accept(m) \/ (Refusal(m, d, "submitReply") /\ UNCHANGED ran))
    BY Zenon, <1>0, <1>2, RunSummary
  <2>3. /\ Invoked(capture[m.client]) /\ RanFor(m.client) = {}
        /\ \A x \in msgs : x.type = "submit" /\ x.client = m.client => x = m
        /\ m \in Submits(m.client)
    BY <2>1 DEF IInv, InvocationInv, SubmissionInv, Submits
  <2>4. CASE Accept(m)
    <3>1. PICK r : /\ ran' = ran \cup {r}
                   /\ r = [inst |-> inst, owner |-> <<m.client, m.attempt>>, token |-> m.token]
      BY Zenon, <2>4 DEF Accept
    <3>2. r \in grants
      BY Zenon, <2>1, <2>4, <3>1 DEF IInv, SlotInv, Accept
    <3>3. r.owner[1] = m.client /\ r.inst = inst
      BY Zenon, <3>1
    <3>4. \A s \in ran : s.inst # inst /\ s.inst <= inst /\ s \in grants
      BY Zenon, <2>1, <2>4 DEF IInv, SlotInv, Accept
    <3>5. \A s \in ran : s.owner[1] # m.client
      BY Zenon, <2>3 DEF RanFor
    <3>6. msgs' = msgs \ {m} /\ slot'.kind = "executing" /\ slot'.owner = <<m.client, m.attempt>>
          /\ UNCHANGED exitScheduled /\ slot.kind = "reserved"
      BY <2>4 DEF Accept, Executing
    <3>7. ran' = ran \cup {r}
      BY <3>1
    <3>8. /\ \A y : y # m.client => RanFor(y)' = RanFor(y)
          /\ RanFor(m.client)' # {}
      BY Zenon, <3>3, <3>7 DEF RanFor
    <3>9. \A y : Submits(y)' \subseteq Submits(y)
      BY Zenon, <3>6 DEF Submits
    <3>10. InvocationInv'
      BY ZenonT(60), <2>1, <2>3, <3>3, <3>6, <3>7 DEF IInv, InvocationInv
    <3>11. SubmissionInv'
      BY Zenon, <2>3, <3>6, <3>8 DEF IInv, SubmissionInv
    <3>12. ReplyInv'
      BY Zenon, <2>3, <3>6, <3>8, <3>9 DEF IInv, ReplyInv
    <3>13. ReportInv'
      BY Zenon, <2>1, <2>3, <3>8, <3>9 DEF IInv, ReportInv
    <3>14. SlotInv'
      <4>1. inst \in Nat
        BY SMTT(60), <1>0 DEF TypeOK
      <4>2. slot'.owner[1] = m.client
        BY <3>6
      <4>3. r \in grants /\ r.inst <= inst
        BY <3>2, <3>3, <4>1
      <4>4. \A s \in ran' : s \in grants /\ s.inst <= inst
        BY Zenon, <3>4, <3>7, <4>3
      <4> QED
        BY ZenonT(60), <2>1, <3>6, <3>8, <4>2, <4>4 DEF SlotInv
    <3>15. SingleUse'
      <4>1. \A s \in ran : s.inst # r.inst /\ s.owner[1] # r.owner[1]
        BY Zenon, <3>3, <3>4, <3>5
      <4> QED
        BY <3>7, <4>1 DEF IInv, SingleUse
    <3>16. ExitIffRetired'
      BY Zenon, <2>1, <3>6 DEF IInv, ExitIffRetired
    <3> QED
      BY Zenon, <1>0, <3>10, <3>11, <3>12, <3>13, <3>14, <3>15, <3>16 DEF IInv
  <2>5. CASE Refusal(m, d, "submitReply") /\ UNCHANGED ran
    <3>1. PICK x : /\ msgs' = (msgs \ {m}) \cup {x}
                   /\ x.type = "submitReply" /\ x.client = m.client /\ x.body # "result"
      <4>1. d.reason # "result"
        BY Zenon, <2>5 DEF Refusal, RefusalReason
      <4>2. PICK x : /\ msgs' = (msgs \ {m}) \cup {x}
                     /\ x = Msg("submitReply", m.client, m.attempt, 0, d.reason)
        BY Zenon, <2>5 DEF Refusal
      <4>3. x.type = "submitReply" /\ x.client = m.client /\ x.body # "result"
        BY SMTT(60), <4>1, <4>2, MsgFields
      <4> QED
        BY Zenon, <4>2, <4>3
    <3>2. SlotInv' /\ ExitIffRetired'
      BY Zenon, <2>1, <2>2, <2>5, HostSlot DEF Refusal
    <3>3. /\ \A y : RanFor(y)' = RanFor(y) /\ Submits(y)' \subseteq Submits(y)
          /\ Submits(m.client)' = {}
      BY Zenon, <2>3, <2>5, <3>1 DEF RanFor, Submits
    <3>4. InvocationInv'
      BY Zenon, <2>1, <2>3, <2>5, <3>1 DEF IInv, InvocationInv
    <3>5. SubmissionInv'
      BY Zenon, <3>1, <3>3 DEF IInv, SubmissionInv
    <3>6. ReplyInv'
      BY Zenon, <2>3, <3>1, <3>3 DEF IInv, ReplyInv
    <3>7. ReportInv'
      BY Zenon, <2>1, <3>3 DEF IInv, ReportInv
    <3>8. SingleUse'
      BY <2>5 DEF IInv, SingleUse
    <3> QED
      BY ZenonT(60), <1>0, <3>2, <3>4, <3>5, <3>6, <3>7, <3>8 DEF IInv
  <2> QED
    BY Zenon, <2>2, <2>4, <2>5
<1>3. ASSUME NEW m \in msgs, ConnectionInvalidated(m) PROVE IInv'
  <2> DEFINE d == disconnected(<<m.client, m.attempt>>)
  <2>1. d \in DecisionType /\ Keeps(d)
    BY Zenon, <1>a, SlotMembers DEF disconnected, Decision, DecisionType, Body, RetireReason, Retiring, Keeps
  <2>2. /\ up /\ Apply(d) /\ UNCHANGED <<up, inst, ran, clientVars>> /\ UNCHANGED grants
        /\ msgs' \subseteq msgs
    BY <1>3 DEF ConnectionInvalidated
  <2> HIDE DEF d
  <2>3. SlotInv' /\ ExitIffRetired'
    BY Zenon, <2>1, <2>2, HostSlot
  <2>4. InvocationInv' /\ SubmissionInv' /\ ReplyInv' /\ ReportInv' /\ SingleUse'
    BY Zenon, <2>2, HostClients
  <2> QED
    BY Zenon, <1>0, <2>3, <2>4 DEF IInv
<1>4. CASE ReplyAndExit
  <2> DEFINE d == complete(slot.owner, slot.token)
             x == Msg("submitReply", slot.owner[1], slot.owner[2], 0, "result")
  <2>1. up /\ slot.kind = "executing" /\ slot = Executing(slot.owner, slot.token)
        /\ slot.owner \in Connection
    BY Zenon, <1>4, <1>a, SlotKinds DEF ReplyAndExit
  <2>2. d \in DecisionType /\ d.slot.kind = "retiring" /\ d.retire
    BY Zenon, <2>1, SlotMembers DEF complete, Decision, DecisionType, Body, RetireReason, Retiring
  <2>3. Apply(d) /\ UNCHANGED <<up, inst, ran, clientVars>> /\ UNCHANGED grants
        /\ msgs' = msgs \cup {x}
    BY Zenon, <1>4 DEF ReplyAndExit
  <2>4. x.type = "submitReply" /\ x.client = slot.owner[1] /\ x.body = "result"
    BY Zenon DEF Msg
  <2> HIDE DEF d, x
  <2>5. SlotInv' /\ ExitIffRetired'
    BY Zenon, <2>1, <2>2, <2>3, HostSlot DEF Keeps
  <2>6. \A y : RanFor(y)' = RanFor(y) /\ Submits(y)' = Submits(y)
    BY Zenon, <2>3, <2>4 DEF RanFor, Submits
  <2>7. RanFor(slot.owner[1]) # {}
    BY Zenon, <2>1 DEF IInv, SlotInv
  <2>8. Invoked(capture[slot.owner[1]])
    BY <2>7 DEF RanFor, IInv, InvocationInv
  <2>9. UNCHANGED <<phase, capture>>
    BY Zenon, <2>3 DEF clientVars
  <2>10. InvocationInv'
    BY Zenon, <2>3, <2>4, <2>8, <2>9 DEF IInv, InvocationInv
  <2>11. SubmissionInv'
    BY Zenon, <2>3, <2>4, <2>6 DEF IInv, SubmissionInv
  <2>12. ReplyInv'
    BY Zenon, <2>3, <2>4, <2>6, <2>7 DEF IInv, ReplyInv
  <2>13. ReportInv' /\ SingleUse'
    BY Zenon, <2>3, <2>6, <2>9 DEF IInv, ReportInv, SingleUse
  <2> QED
    BY ZenonT(60), <1>0, <2>5, <2>10, <2>11, <2>12, <2>13 DEF IInv
<1>5. CASE CheckExpiry
  <2>1. PICK fault \in HostClock : expire(fault).retire /\ Apply(expire(fault))
    BY Zenon, <1>5 DEF CheckExpiry
  <2> DEFINE d == expire(fault)
  <2>2. /\ d \in DecisionType
        /\ slot.kind \in {"reserved", "executing"} /\ d.slot.kind = "retiring" /\ d.retire
    BY Zenon, <1>a, <2>1, SlotMembers DEF expire, Decision, DecisionType, Body, RetireReason, Retiring
  <2>3. Apply(d)
    BY <2>1
  <2>4. up /\ UNCHANGED <<up, inst, ran, clientVars, grants, msgs>>
    BY Zenon, <1>5 DEF CheckExpiry
  <2> HIDE DEF d
  <2>5. SlotInv' /\ ExitIffRetired'
    BY ZenonT(60), <2>2, <2>3, <2>4, HostSlot DEF Keeps
  <2>6. InvocationInv' /\ SubmissionInv' /\ ReplyInv' /\ ReportInv' /\ SingleUse'
    BY <2>4, HostClients
  <2> QED
    BY Zenon, <1>0, <2>5, <2>6 DEF IInv
<1>6. CASE LeaseLapses
  <2>1. UNCHANGED <<up, inst, exitScheduled, slot, clientVars, msgs, grants, ran>>
    BY <1>6 DEF LeaseLapses
  <2>2. InvocationInv' /\ SubmissionInv' /\ ReplyInv' /\ ReportInv' /\ SingleUse'
    BY Zenon, <2>1, HostClients
  <2>3. SlotInv' /\ ExitIffRetired'
    BY Zenon, <2>1 DEF IInv, SlotInv, ExitIffRetired, RanFor
  <2> QED
    BY Zenon, <1>0, <2>2, <2>3 DEF IInv
<1>7. CASE HostExit \/ HostCrash
  <2>1. /\ up' = FALSE /\ exitScheduled' = FALSE /\ slot' = Free
        /\ UNCHANGED <<inst, clientVars, grants, ran>>
    BY <1>7 DEF HostExit, HostCrash, HostGone
  <2>2. \A x \in msgs' : x.type \in {"submit", "submitReply"} => x \in msgs
    <3> SUFFICES ASSUME NEW x \in msgs', x \notin msgs
                 PROVE  x.type \notin {"submit", "submitReply"}
      OBVIOUS
    <3>0. HostCrash /\ msgs' # msgs
      BY <1>7 DEF HostExit
    <3>1. x = Msg("error", slot.owner[1], slot.owner[2], 0, "xpc_error")
      BY Zenon, <3>0 DEF HostCrash
    <3>2. x.type = "error"
      BY SMTT(60), <3>1, MsgFields
    <3> QED
      BY <3>2
  <2>3. InvocationInv' /\ SubmissionInv' /\ ReplyInv' /\ ReportInv' /\ SingleUse'
    BY Zenon, <2>1, <2>2, HostClients
  <2>4. SlotInv' /\ ExitIffRetired'
    BY <2>1 DEF IInv, SlotInv, ExitIffRetired
  <2> QED
    BY <1>0, <2>3, <2>4 DEF IInv
<1>8. CASE Launch
  <2>1. ~up /\ inst' = inst + 1 /\ UNCHANGED <<exitScheduled, slot, clientVars, msgs, grants, ran>>
    BY <1>8 DEF Launch
  <2>2. InvocationInv' /\ SubmissionInv' /\ ReplyInv' /\ ReportInv' /\ SingleUse'
    BY Zenon, <2>1, HostClients
  <2>3. slot' = Free /\ ~exitScheduled' /\ slot'.kind = "free"
    <3>1. slot = Free /\ ~exitScheduled
      BY Zenon, <2>1 DEF IInv, SlotInv
    <3> QED
      BY Zenon, <2>1, <3>1 DEF Free
  <2>4. inst \in Nat /\ \A r \in ran : r.inst \in Nat
    BY SMTT(60), <1>0 DEF TypeOK, Run
  <2>5. SlotInv'
    <3>0. \A r \in ran : r \in grants /\ r.inst <= inst
      BY DEF IInv, SlotInv
    <3>1. \A r \in ran : r \in grants /\ r.inst <= inst /\ r.inst <= inst' /\ r.inst # inst'
      BY SMTT(60), <2>1, <2>4, <3>0
    <3> QED
      BY Zenon, <2>1, <2>3, <3>1 DEF SlotInv
  <2>6. ExitIffRetired'
    BY <2>3 DEF ExitIffRetired
  <2> QED
    BY Zenon, <1>0, <2>2, <2>5, <2>6 DEF IInv
<1> QED
  BY ZenonT(60), <1>1, <1>2, <1>3, <1>4, <1>5, <1>6, <1>7, <1>8 DEF HostNext

LEMMA IInvInit == Init => IInv
<1> SUFFICES ASSUME Init PROVE IInv
  OBVIOUS
<1>1. TypeInv
  BY Zenon, TypeInit
<1>2. \A c \in Client : ~Invoked(capture[c]) /\ phase[c] = "initial"
  BY Zenon DEF Init, InitCapture, Invoked
<1>3. InvocationInv /\ SubmissionInv /\ ReplyInv /\ ReportInv
  BY Zenon, <1>2 DEF Init, InvocationInv, SubmissionInv, ReplyInv, ReportInv
<1>4. SlotInv /\ SingleUse /\ ExitIffRetired
  BY DEF Init, SlotInv, SingleUse, ExitIffRetired, Free
<1> QED
  BY <1>1, <1>3, <1>4 DEF IInv

LEMMA IInvStep == IInv /\ [Next]_vars => IInv'
<1> SUFFICES ASSUME IInv, [Next]_vars PROVE IInv'
  OBVIOUS
<1>1. CASE Next
  <2>1. TypeInv
    BY DEF IInv
  <2> QED
    BY Zenon, <1>1, <2>1, StepSummary, HostIInv, QuietIInv, SubmitStepIInv, TransportIInv
<1>2. CASE UNCHANGED vars
  <2>1. TypeInv'
    BY Zenon, <1>2, TypeStep DEF IInv
  <2>2. UNCHANGED <<up, inst, exitScheduled, slot, clientVars, msgs, grants, ran>>
    BY Zenon, <1>2 DEF vars, hostVars
  <2>3. InvocationInv' /\ SubmissionInv' /\ ReplyInv' /\ ReportInv' /\ SingleUse'
    BY ZenonT(60), <2>2, HostClients
  <2>4. SlotInv' /\ ExitIffRetired'
    BY <2>2 DEF IInv, SlotInv, ExitIffRetired, RanFor
  <2> QED
    BY <2>1, <2>3, <2>4 DEF IInv
<1> QED
  BY <1>1, <1>2

\* The strengthening IInv of the safety invariants is an invariant.
THEOREM Invariance == Spec => []IInv
BY IInvInit, IInvStep, PTL DEF Spec

-----------------------------------------------------------------------------
(* What follows.                                                            *)

\* No two executions share a host process or a specimen, however many clients
\* contend, hosts come and go, attempts are retried and messages are lost.
THEOREM SingleUseHolds == Spec => []SingleUse
<1>1. IInv => SingleUse
  BY Zenon DEF IInv
<1> QED
  BY <1>1, Invariance, PTL

\* What runs was granted by the same process to the same connection.
THEOREM RunsOnlyItsGrantHolds == Spec => []RunsOnlyItsGrant
<1>1. IInv => RunsOnlyItsGrant
  BY ZenonT(60) DEF IInv, SlotInv, InvocationInv, RunsOnlyItsGrant
<1> QED
  BY <1>1, Invariance, PTL

\* What a finished session reports about its specimen is true, and the host
\* cannot make it false afterwards.
LEMMA ReportsTrue == IInv => TruthfulReports
<1> SUFFICES ASSUME IInv, NEW c \in Client
             PROVE  /\ reportOf(c) = "result" => RanFor(c) # {}
                    /\ reportOf(c) \in {"not_invoked", "refused"} => RanFor(c) = {}
  BY Zenon DEF TruthfulReports
<1>1. RanFor(c) # {} => Invoked(capture[c])
  BY ZenonT(60) DEF IInv, InvocationInv, RanFor
<1> QED
  BY Zenon, <1>1 DEF reportOf, IInv, ReportInv

THEOREM TruthfulReportsHolds == Spec => []TruthfulReports
BY ReportsTrue, Invariance, PTL

\* The exit is scheduled exactly when the slot is retired: it never cuts an
\* execution short, and no retired host stays.
THEOREM ExitIffRetiredHolds == Spec => []ExitIffRetired
<1>1. IInv => ExitIffRetired
  BY DEF IInv
<1> QED
  BY <1>1, Invariance, PTL

\* How the slot of a host can change in one step.
SlotStep ==
  \/ UNCHANGED <<up, slot>>
  \/ up /\ up' /\ slot.kind = "free" /\ slot'.kind = "reserved"
  \/ up /\ up' /\ slot.kind = "reserved" /\ slot'.kind \in {"executing", "retiring"}
  \/ /\ up /\ up' /\ slot.kind = "executing" /\ slot'.kind = "retiring"
     /\ Msg("submitReply", slot.owner[1], slot.owner[2], 0, "result") \in msgs'
  \/ up /\ ~up'
  \/ ~up /\ up'

LEMMA SlotSteps ==
  ASSUME IInv, [Next]_vars
  PROVE  SlotStep
<1>0. TypeInv /\ TypeOK /\ slot \in Slot
  BY Zenon DEF IInv, TypeInv, TypeOK
<1>d. ASSUME NEW m, NEW d, NEW type, up, up', Apply(d), Refusal(m, d, type) PROVE SlotStep
  BY Zenon, <1>d DEF Refusal, Keeps, Apply, SlotStep
<1>1. ASSUME NEW m \in msgs, ReserveRunner(m) PROVE SlotStep
  <2>1. up /\ up' /\ \E d \in DecisionType :
          Apply(d) /\ (Grant(m) \/ Refusal(m, d, "reserveReply"))
    BY SMTT(60), <1>0, <1>1, ReserveSummary
  <2>2. CASE Grant(m)
    BY Zenon, <2>1, <2>2 DEF Grant, Reserved, SlotStep
  <2>3. ASSUME NEW d \in DecisionType, Apply(d), Refusal(m, d, "reserveReply") PROVE SlotStep
    BY Zenon, <1>d, <2>1, <2>3
  <2> QED
    BY Zenon, <2>1, <2>2, <2>3
<1>2. ASSUME NEW m \in msgs, RunReservedSpecimen(m) PROVE SlotStep
  <2>1. up /\ up' /\ \E d \in DecisionType :
          Apply(d) /\ (Accept(m) \/ Refusal(m, d, "submitReply"))
    BY SMTT(60), <1>0, <1>2, RunSummary
  <2>2. CASE Accept(m)
    BY Zenon, <2>1, <2>2 DEF Accept, Executing, SlotStep
  <2>3. ASSUME NEW d \in DecisionType, Apply(d), Refusal(m, d, "submitReply") PROVE SlotStep
    BY Zenon, <1>d, <2>1, <2>3
  <2> QED
    BY Zenon, <2>1, <2>2, <2>3
<1>3. ASSUME NEW m \in msgs, ConnectionInvalidated(m) PROVE SlotStep
  BY Zenon, <1>3 DEF ConnectionInvalidated, Apply, disconnected, Decision, SlotStep, Retiring
<1>4. CASE ReplyAndExit
  <2>1. slot = Executing(slot.owner, slot.token)
    BY Zenon, <1>0, <1>4, SlotKinds DEF ReplyAndExit
  <2>2. slot' = Retiring("consumed")
    BY ZenonT(60), <1>4, <2>1 DEF ReplyAndExit, Apply, complete, Decision
  <2> QED
    BY Zenon, <1>4, <2>2 DEF ReplyAndExit, SlotStep, Retiring
<1>5. CASE CheckExpiry
  <2>1. PICK fault \in HostClock : expire(fault).retire /\ slot' = expire(fault).slot
    BY Zenon, <1>5 DEF CheckExpiry, Apply
  <2>2. slot.kind = "reserved" /\ slot'.kind = "retiring"
    BY Zenon, <2>1 DEF expire, Decision, Retiring
  <2> QED
    BY Zenon, <1>5, <2>2 DEF CheckExpiry, SlotStep
<1>6. CASE HostExit \/ HostCrash \/ LeaseLapses \/ Launch
  BY ZenonT(60), <1>6 DEF HostExit, HostCrash, HostGone, LeaseLapses, Launch, SlotStep
<1>7. ASSUME \/ \E c \in Client : QuietStep(c)
             \/ \E m \in msgs : SubmitStep(m) \/ TransportStep(m)
             \/ UNCHANGED vars
      PROVE  SlotStep
  BY <1>7 DEF QuietStep, SubmitStep, TransportStep, vars, hostVars, SlotStep
<1>8. HostNext => SlotStep
  BY Zenon, <1>1, <1>2, <1>3, <1>4, <1>5, <1>6 DEF HostNext
<1> QED
  BY Zenon, <1>0, <1>7, <1>8, StepSummary

\* Within a host process the slot only moves from free to reserved, to
\* executing and to retiring; it is never given back.
THEOREM SlotNeverReopensHolds == Spec => SlotNeverReopens
<1> DEFINE A == up /\ up' =>
       /\ slot.kind # "free" => slot'.kind # "free"
       /\ slot.kind \in {"executing", "retiring"} => slot'.kind # "reserved"
       /\ slot.kind = "retiring" => slot' = slot
<1>1. IInv /\ [Next]_vars => [A]_vars
  BY SlotSteps DEF SlotStep
<1> QED
  BY <1>1, Invariance, PTL DEF Spec, SlotNeverReopens

\* An accepted specimen keeps its host until its result is on the way.
THEOREM ExecutionKeptHolds == Spec => ExecutionKept
<1> DEFINE A == up /\ slot.kind = "executing" =>
       \/ slot' = slot /\ up'
       \/ Msg("submitReply", slot.owner[1], slot.owner[2], 0, "result") \in msgs'
       \/ ~up' /\ ~exitScheduled
<1>1. IInv /\ [Next]_vars => [A]_vars
  BY Zenon, SlotSteps DEF SlotStep, IInv, ExitIffRetired
<1> QED
  BY <1>1, Invariance, PTL DEF Spec, ExecutionKept

-----------------------------------------------------------------------------
(* Refinement.                                                              *)

executedBar == {c \in Client : RanFor(c) # {}}
reportBar == [c \in Client |-> reportOf(c)]

\* Every step of the protocol is a step of the service, or none.
LEMMA ServiceStep ==
  ASSUME IInv, IInv', [Next]_vars
  PROVE  [Service!ServiceNext]_<<executedBar, reportBar>>
<1>0. TypeInv /\ TypeOK /\ TruthfulReports'
  <2>1. TruthfulReports'
    BY ReportsTrue, PTL
  <2> QED
    BY <2>1 DEF IInv, TypeInv
<1>1. ASSUME UNCHANGED <<clientVars, ran>> PROVE UNCHANGED <<executedBar, reportBar>>
  BY Zenon, <1>1 DEF clientVars, executedBar, reportBar, RanFor, reportOf
<1>2. ASSUME NEW m \in msgs, RunReservedSpecimen(m), ran' # ran
      PROVE  Service!Execute(m.client)
  <2> DEFINE c == m.client
             r == [inst |-> inst, owner |-> <<c, m.attempt>>, token |-> m.token]
  <2>1. m.type = "submit" /\ ran' = ran \cup {r} /\ UNCHANGED <<phase, capture>>
    BY Zenon, <1>2 DEF RunReservedSpecimen, clientVars
  <2>2. c \in Client /\ RanFor(c) = {} /\ Invoked(capture[c]) /\ Submits(c) # {}
    BY ZenonT(60), <1>0, <2>1 DEF TypeOK, Message, IInv, SubmissionInv, InvocationInv, Submits
  <2>3. reportOf(c) \in {"open", "unknown"}
    BY ZenonT(60), <2>2 DEF IInv, ReportInv, reportOf
  <2>4. executedBar' = executedBar \cup {c} /\ c \notin executedBar
    <3>1. r.owner[1] = c
      BY Zenon
    <3>2. RanFor(c)' # {} /\ \A x : x # c => RanFor(x)' = RanFor(x)
      BY Zenon, <2>1, <3>1 DEF RanFor
    <3> QED
      BY Zenon, <2>2, <3>2 DEF executedBar
  <2>5. reportBar' = reportBar /\ reportBar[c] = reportOf(c)
    BY <2>1, <2>2 DEF reportBar, reportOf
  <2> QED
    BY Zenon, <2>3, <2>4, <2>5 DEF Service!Execute, executedBar, reportBar
<1>3. ASSUME NEW c \in Client, QuietStep(c)
      PROVE  \/ UNCHANGED <<executedBar, reportBar>>
             \/ \E rep \in Service!Report : Service!Close(c, rep)
  <2>1. PICK p \in Phase, k \in Capture : Quiet(c, p, k)
    BY Zenon, <1>3 DEF QuietStep
  <2>2. /\ \A x \in Client \ {c} : phase'[x] = phase[x] /\ capture'[x] = capture[x]
        /\ phase'[c] = p /\ phase[c] \notin {"done", "crashed"}
    <3>1. /\ phase' = [phase EXCEPT ![c] = p] /\ capture' = [capture EXCEPT ![c] = k]
          /\ phase[c] \notin {"done", "crashed"}
      BY SMTT(60), <2>1 DEF Quiet
    <3>2. phase \in [Client -> Phase] /\ capture \in [Client -> Capture]
      BY Zenon, <1>0 DEF TypeOK
    <3> QED
      BY Zenon, <3>1, <3>2
  <2>3. executedBar' = executedBar /\ ran' = ran
    BY ZenonT(60), <1>3 DEF QuietStep, executedBar, RanFor
  <2>4. reportOf(c) = "open" /\ \A x \in Client \ {c} : reportOf(x)' = reportOf(x)
    BY <2>2 DEF reportOf
  <2>5. reportBar' = [reportBar EXCEPT ![c] = reportOf(c)']
    BY Zenon, <2>4 DEF reportBar
  <2>6. reportOf(c)' \in Service!Report
    BY DEF reportOf, Service!Report
  <2>7. CASE reportOf(c)' = "open"
    BY Zenon, <2>3, <2>4, <2>5, <2>7 DEF reportBar
  <2>8. CASE reportOf(c)' # "open"
    <3>1. /\ reportOf(c)' = "result" => c \in executedBar
          /\ reportOf(c)' \in {"refused", "not_invoked"} => c \notin executedBar
      BY <1>0, <2>3 DEF TruthfulReports, executedBar, RanFor
    <3>2. reportBar[c] = "open"
      BY Zenon, <2>4 DEF reportBar
    <3>3. Service!Close(c, reportOf(c)')
      BY Zenon, <2>3, <2>5, <2>8, <3>1, <3>2 DEF Service!Close, executedBar, reportBar
    <3> QED
      BY ZenonT(60), <2>6, <3>3
  <2> QED
    BY Zenon, <2>7, <2>8
<1>4. ASSUME NEW m \in msgs, SubmitStep(m) PROVE UNCHANGED <<executedBar, reportBar>>
  <2>1. /\ \A x \in Client \ {m.client} : phase'[x] = phase[x] /\ capture'[x] = capture[x]
        /\ phase[m.client] = "acquiring" /\ ran' = ran
    BY Zenon, <1>0, <1>4 DEF SubmitStep, TypeOK
  <2>2. m.client \in Client => phase'[m.client] = "submitted"
    BY Zenon, <1>0, <1>4 DEF SubmitStep, TypeOK
  <2>3. \A x \in Client : reportOf(x)' = reportOf(x)
    BY Zenon, <2>1, <2>2 DEF reportOf
  <2> QED
    BY Zenon, <2>1, <2>3 DEF executedBar, reportBar, RanFor
<1>5. ASSUME HostNext, ~ \E m \in msgs : RunReservedSpecimen(m) /\ ran' # ran
      PROVE  UNCHANGED <<clientVars, ran>>
  BY Zenon, <1>5 DEF HostNext, ReserveRunner, RunReservedSpecimen, ConnectionInvalidated, ReplyAndExit,
     CheckExpiry, LeaseLapses, HostExit, HostCrash, HostGone, Launch
<1>6. ASSUME UNCHANGED vars \/ \E m \in msgs : TransportStep(m) PROVE UNCHANGED <<clientVars, ran>>
  BY Zenon, <1>6 DEF vars, TransportStep
<1>7. \A m \in msgs : m.client \in Client
  BY Zenon, <1>0 DEF TypeOK, Message
<1>8. CASE HostNext
  BY Zenon, <1>1, <1>2, <1>5, <1>7, <1>8 DEF Service!ServiceNext
<1>9. CASE \E c \in Client : QuietStep(c)
  BY Zenon, <1>3, <1>9 DEF Service!ServiceNext
<1> QED
  BY ZenonT(60), <1>0, <1>1, <1>4, <1>6, <1>8, <1>9, StepSummary

LEMMA ServiceInitially == Init => Service!ServiceInit
<1> SUFFICES ASSUME Init PROVE Service!ServiceInit
  OBVIOUS
<1>1. \A c \in Client : RanFor(c) = {} /\ reportOf(c) = "open"
  BY DEF Init, RanFor, reportOf
<1> QED
  BY Zenon, <1>1 DEF Service!ServiceInit

\* The whole protocol of reservations, leases, retries, crashes and relaunches
\* implements the service its callers rely on.
THEOREM ImplementsServiceHolds == Spec => ImplementsService
<1>1. IInv /\ IInv' /\ [Next]_vars =>
        [Service!ServiceNext]_<<{c \in Client : RanFor(c) # {}}, [c \in Client |-> reportOf(c)]>>
  BY ServiceStep DEF executedBar, reportBar
<1> QED
  BY <1>1, ServiceInitially, Invariance, PTL DEF Spec, ImplementsService, Service!ServiceSpec

-----------------------------------------------------------------------------
(* The captures of a session, from its first attempt to validate_capture.   *)

\* What validate_capture asks of the attempts.
AttemptsValid(k) ==
  /\ Len(k.attempts) <= AcquisitionAttempts
  /\ \A i \in 1..Len(k.attempts) : ValidAttempt(k.attempts[i], i = Len(k.attempts))

\* Nothing beyond the attempts has been recorded yet.
Unstopped(k) ==
  /\ k.acquisition_stop = "local_error" /\ k.submission = "not_invoked"
  /\ ~k.runner_reply /\ k.submission_refusal = None

\* Between attempts: every attempt so far could be followed by another.
Between(k) ==
  /\ Unstopped(k) /\ Len(k.attempts) <= AcquisitionAttempts
  /\ \A i \in 1..Len(k.attempts) : ValidAttempt(k.attempts[i], FALSE)

\* An attempt is under way, and stands as the local error it started out as.
Asking(k) ==
  /\ Unstopped(k) /\ Len(k.attempts) \in 1..AcquisitionAttempts
  /\ Last(k).outcome = "local_error"
  /\ \A i \in 1..Len(k.attempts) : i # Len(k.attempts) => ValidAttempt(k.attempts[i], FALSE)

\* The last attempt was granted.
Holding(k) ==
  /\ k.acquisition_stop = "granted" /\ Granted(k)
  /\ ~k.runner_reply /\ k.submission_refusal = None
  /\ AttemptsValid(k)

\* The capture k of a session in phase p.
SessionCapture(p, k) ==
  /\ p \in Live \cup {"submitted"} => k.clock_available
  /\ p = "initial" => Between(k) /\ k.attempts = <<>>
  /\ p = "waiting" => Between(k)
  /\ p = "acquiring" => Asking(k)
  /\ p = "submitted" => Holding(k) /\ Invoked(k)
  /\ p = "done" => ValidCapture(k)

CaptureInv == \A c \in Client : SessionCapture(phase[c], capture[c])

\* An attempt that another may follow is also valid as the last one.
LEMMA BetweenValid ==
  ASSUME NEW k \in Capture, Between(k)
  PROVE  AttemptsValid(k) /\ ~Granted(k)
<1>1. \A a : ValidAttempt(a, FALSE) => \A b \in BOOLEAN : ValidAttempt(a, b)
  BY Zenon DEF ValidAttempt
<1>2. \A i \in 1..Len(k.attempts) : ValidAttempt(k.attempts[i], i = Len(k.attempts))
  BY Zenon, <1>1 DEF Between
<1>3. ASSUME k.attempts # <<>> PROVE Last(k).outcome # "granted"
  <2>1. k.attempts \in Seq(Attempt)
    BY Zenon DEF Capture
  <2>2. Len(k.attempts) \in 1..Len(k.attempts)
    BY ONLY <1>3, <2>1
  <2> QED
    BY Zenon, <2>2 DEF Between, Last, ValidAttempt
<1> QED
  BY Zenon, <1>2, <1>3 DEF AttemptsValid, Granted, Between

\* The attempt under way in cap stands as a in d, and nothing else is changed.
Ended(cap, d, a) ==
  /\ d \in Capture /\ Unstopped(d) /\ d.clock_available = cap.clock_available
  /\ Len(d.attempts) = Len(cap.attempts) /\ Len(d.attempts) \in 1..AcquisitionAttempts
  /\ Last(d) = a
  /\ \A i \in 1..Len(d.attempts) : i # Len(d.attempts) => ValidAttempt(d.attempts[i], FALSE)

\* What endAttempt makes of an attempt under way.
LEMMA EndAttemptAsking ==
  ASSUME NEW cap \in Capture, Asking(cap), NEW outcome \in AttemptOutcome,
         NEW status \in {None, "granted", "occupied"}, NEW error \in TransportError
  PROVE  Ended(cap, EndAttempt(cap, outcome, status, error),
               [outcome |-> outcome, status |-> status, error |-> error])
<1> DEFINE a == [outcome |-> outcome, status |-> status, error |-> error]
           n == Len(cap.attempts)
           s == [cap.attempts EXCEPT ![n] = a]
           d == EndAttempt(cap, outcome, status, error)
<1>1. cap.attempts \in Seq(Attempt) /\ n \in 1..AcquisitionAttempts
  BY Zenon DEF Capture, Asking
<1>2. cap.attempts # <<>> /\ n \in 1..Len(cap.attempts) /\ n \in Nat
  BY ONLY <1>1
<1>3. /\ s[n] = a /\ Len(s) = n
      /\ \A i \in 1..n : i # n => s[i] = cap.attempts[i]
  BY ONLY <1>1, <1>2
<1>4. d = [cap EXCEPT !.attempts = s]
  BY Zenon, <1>2 DEF EndAttempt, Capture
<1>5. d \in Capture
  BY Zenon, EndAttemptType
<1> HIDE DEF s, n, a, d
<1>6. /\ d.attempts = s /\ d.clock_available = cap.clock_available
      /\ d.acquisition_stop = cap.acquisition_stop /\ d.submission = cap.submission
      /\ d.runner_reply = cap.runner_reply /\ d.submission_refusal = cap.submission_refusal
  BY Zenon, <1>4 DEF Capture
<1>7. Unstopped(d)
  BY Zenon, <1>6 DEF Unstopped, Asking
<1>8. Len(d.attempts) = n /\ Last(d) = a
  BY Zenon, <1>3, <1>6 DEF Last
<1>9. \A i \in 1..n : i # n => ValidAttempt(d.attempts[i], FALSE)
  BY Zenon, <1>3, <1>6 DEF Asking, n
<1> QED
  BY Zenon, <1>1, <1>5, <1>6, <1>7, <1>8, <1>9 DEF n, a, d, Ended

\* d is cap after an attempt that another may follow.
Continues(cap, d) == d \in Capture /\ Between(d) /\ d.clock_available = cap.clock_available

\* d is cap after an attempt that ended the acquisition.
Closes(cap, d, outcome) ==
  /\ d \in Capture /\ Unstopped(d) /\ AttemptsValid(d)
  /\ d.clock_available = cap.clock_available
  /\ d.attempts # <<>> /\ Last(d).outcome = outcome

\* An attempt that ends in a way that another may follow.
LEMMA EndedBetween ==
  ASSUME NEW cap \in Capture, Asking(cap), NEW outcome \in AttemptOutcome,
         NEW status \in {None, "granted", "occupied"}, NEW error \in TransportError,
         ValidAttempt([outcome |-> outcome, status |-> status, error |-> error], FALSE)
  PROVE  Continues(cap, EndAttempt(cap, outcome, status, error))
<1> DEFINE a == [outcome |-> outcome, status |-> status, error |-> error]
           d == EndAttempt(cap, outcome, status, error)
<1>1. /\ d \in Capture /\ Unstopped(d) /\ d.clock_available = cap.clock_available
      /\ Len(d.attempts) = Len(cap.attempts) /\ Len(d.attempts) \in 1..AcquisitionAttempts
      /\ Last(d) = [outcome |-> outcome, status |-> status, error |-> error]
      /\ \A i \in 1..Len(d.attempts) : i # Len(d.attempts) => ValidAttempt(d.attempts[i], FALSE)
  <2>1. Ended(cap, EndAttempt(cap, outcome, status, error), a)
    BY Zenon, EndAttemptAsking
  <2> QED
    BY Zenon, <2>1 DEF Ended
<1> HIDE DEF d
<1>2. \A i \in 1..Len(d.attempts) : ValidAttempt(d.attempts[i], FALSE)
  BY Zenon, <1>1 DEF Last
<1>3. Len(d.attempts) <= AcquisitionAttempts
  BY ONLY <1>1, AcquisitionAttemptsAssumption
<1> QED
  BY Zenon, <1>1, <1>2, <1>3 DEF Between, Continues, d

\* An attempt that ends in a way that ends the acquisition.
LEMMA EndedLast ==
  ASSUME NEW cap \in Capture, Asking(cap), NEW outcome \in AttemptOutcome,
         NEW status \in {None, "granted", "occupied"}, NEW error \in TransportError,
         ValidAttempt([outcome |-> outcome, status |-> status, error |-> error], TRUE)
  PROVE  Closes(cap, EndAttempt(cap, outcome, status, error), outcome)
<1> DEFINE a == [outcome |-> outcome, status |-> status, error |-> error]
           d == EndAttempt(cap, outcome, status, error)
<1>1. /\ d \in Capture /\ Unstopped(d) /\ d.clock_available = cap.clock_available
      /\ Len(d.attempts) = Len(cap.attempts) /\ Len(d.attempts) \in 1..AcquisitionAttempts
      /\ Last(d) = [outcome |-> outcome, status |-> status, error |-> error]
      /\ \A i \in 1..Len(d.attempts) : i # Len(d.attempts) => ValidAttempt(d.attempts[i], FALSE)
  <2>1. Ended(cap, EndAttempt(cap, outcome, status, error), a)
    BY Zenon, EndAttemptAsking
  <2> QED
    BY Zenon, <2>1 DEF Ended
<1> HIDE DEF d
<1>2. a.outcome = outcome
  OBVIOUS
<1>3. \A i \in 1..Len(d.attempts) : ValidAttempt(d.attempts[i], i = Len(d.attempts))
  <2>1. TAKE i \in 1..Len(d.attempts)
  <2>2. CASE i = Len(d.attempts)
    BY Zenon, <1>1, <2>2 DEF Last
  <2>3. CASE i # Len(d.attempts)
    <3>1. ValidAttempt(d.attempts[i], FALSE) /\ (i = Len(d.attempts)) = FALSE
      BY Zenon, <1>1, <2>3
    <3> QED
      BY Zenon, <3>1
  <2> QED
    BY Zenon, <2>2, <2>3
<1>4. Len(d.attempts) <= AcquisitionAttempts /\ d.attempts # <<>>
  BY ONLY <1>1, AcquisitionAttemptsAssumption
<1>5. Last(d).outcome = outcome
  BY Zenon, <1>1, <1>2
<1>6. AttemptsValid(d)
  BY Zenon, <1>3, <1>4 DEF AttemptsValid
<1> QED
  BY ONLY Zenon, <1>1, <1>4, <1>5, <1>6 DEF Closes, d

\* beginAttempt opens the next attempt.
LEMMA AppendedAsking ==
  ASSUME NEW cap \in Capture, Between(cap), Len(cap.attempts) < AcquisitionAttempts,
         NEW d, d = AppendAttempt(cap)
  PROVE  d \in Capture /\ Asking(d) /\ d.clock_available = cap.clock_available
<1> DEFINE a == [outcome |-> "local_error", status |-> None, error |-> NoError]
           n == Len(cap.attempts)
           s == Append(cap.attempts, a)
<1>1. cap.attempts \in Seq(Attempt) /\ n < AcquisitionAttempts
  BY Zenon DEF Capture
<1>2. /\ Len(s) = n + 1 /\ s[n + 1] = a /\ n + 1 \in 1..AcquisitionAttempts
      /\ \A i \in 1..(n + 1) : i # n + 1 => i \in 1..n /\ s[i] = cap.attempts[i]
  BY ONLY <1>1, AcquisitionAttemptsAssumption
<1>3. d = [cap EXCEPT !.attempts = s]
  BY Zenon DEF AppendAttempt, Capture
<1>4. d \in Capture
  BY Zenon, AppendAttemptType
<1>5. a.outcome = "local_error"
  OBVIOUS
<1> HIDE DEF s, n, a
<1>6. /\ d.attempts = s /\ d.clock_available = cap.clock_available
      /\ d.acquisition_stop = cap.acquisition_stop /\ d.submission = cap.submission
      /\ d.runner_reply = cap.runner_reply /\ d.submission_refusal = cap.submission_refusal
  BY Zenon, <1>3 DEF Capture
<1>7. Unstopped(d)
  BY Zenon, <1>6 DEF Unstopped, Between
<1>8. Len(d.attempts) = n + 1 /\ Last(d).outcome = "local_error"
  BY Zenon, <1>2, <1>5, <1>6 DEF Last
<1>9. \A i \in 1..(n + 1) : i # n + 1 => ValidAttempt(d.attempts[i], FALSE)
  BY Zenon, <1>2, <1>6 DEF Between, n
<1> QED
  BY Zenon, <1>2, <1>4, <1>6, <1>7, <1>8, <1>9 DEF Asking

\* What validate_capture asks of the submission, beside its own rules.
Coherent(k) ==
  /\ ValidClock(k)
  /\ Invoked(k) => Granted(k) /\ k.acquisition_stop = "granted"
  /\ ~Invoked(k) => ~k.runner_reply /\ k.submission_refusal = None
  /\ k.runner_reply = (k.terminal = "runner_reply")
  /\ k.submission_refusal # None =>
       k.terminal = IF k.submission_refusal = "unadmitted"
                    THEN "protocol_error" ELSE "submission_refused"
  /\ Granted(k) /\ ~Invoked(k) => k.terminal \in {"xpc_timeout", "local_error"}

\* A session that ran out of time is admitted, whether it held a grant or not.
LEMMA TimeoutValid ==
  ASSUME NEW k \in Capture, AttemptsValid(k), k.terminal = "xpc_timeout",
         k.clock_available, k.deadline_elapsed, ~k.runner_reply, k.submission_refusal = None,
         k.error = <<IF Invoked(k) THEN "submission" ELSE "acquisition", "overall_deadline">>,
         \/ k.acquisition_stop = "granted" /\ Granted(k)
         \/ k.acquisition_stop = "overall_deadline" /\ ~Granted(k) /\ ~Invoked(k)
  PROVE  ValidCapture(k)
<1>1. ValidAcquisition(k)
  BY Zenon DEF ValidAcquisition
<1>2. ValidTerminal(k)
  BY DEF ValidTerminal
<1>3. Coherent(k)
  BY DEF Coherent, ValidClock, Capture
<1> QED
  BY Zenon, <1>1, <1>2, <1>3 DEF ValidCapture, Coherent, AttemptsValid

\* A session that failed locally is admitted: over a grant only a clock
\* failure can do that.
LEMMA LocalErrorValid ==
  ASSUME NEW k \in Capture, AttemptsValid(k), k.terminal = "local_error",
         ~k.runner_reply, k.submission_refusal = None,
         ~k.clock_available => k.error[2] = "clock_error",
         \/ k.error \in {"local"} \X {"clock_error", "encoding_failed", "input_read_failed"}
         \/ k.error = <<"acquisition", "proxy_type_mismatch">>,
         \/ k.acquisition_stop = "granted" /\ Granted(k) /\ ~k.clock_available
         \/ /\ k.acquisition_stop = "local_error" /\ ~Granted(k) /\ ~Invoked(k)
            /\ ~k.clock_available \/ k.attempts = <<>> \/ Last(k).outcome = "local_error"
  PROVE  ValidCapture(k)
<1>1. ValidAcquisition(k)
  BY Zenon DEF ValidAcquisition
<1>2. ValidTerminal(k)
  BY DEF ValidTerminal
<1>3. Coherent(k)
  BY DEF Coherent, ValidClock, Capture
<1> QED
  BY Zenon, <1>1, <1>2, <1>3 DEF ValidCapture, Coherent, AttemptsValid

\* An acquisition that used its last attempt is admitted.
LEMMA AttemptLimitValid ==
  ASSUME NEW k \in Capture, AttemptsValid(k), k.terminal = "acquisition_failed",
         k.clock_available, ~k.runner_reply, k.submission_refusal = None,
         k.error = <<"acquisition", "attempt_limit">>, k.acquisition_stop = "attempt_limit",
         ~Granted(k), ~Invoked(k), Len(k.attempts) = AcquisitionAttempts
  PROVE  ValidCapture(k)
<1>1. ValidAcquisition(k)
  BY DEF ValidAcquisition
<1>2. ValidTerminal(k)
  BY DEF ValidTerminal
<1>3. Coherent(k)
  BY DEF Coherent, ValidClock, Capture
<1> QED
  BY Zenon, <1>1, <1>2, <1>3 DEF ValidCapture, Coherent, AttemptsValid

\* An acquisition ended by a control reply that could not be admitted.
LEMMA ProtocolErrorValid ==
  ASSUME NEW k \in Capture, AttemptsValid(k), k.terminal = "protocol_error",
         k.clock_available, ~k.runner_reply, k.submission_refusal = None,
         k.error = <<"acquisition", "invalid_control">>, k.acquisition_stop = "protocol_error",
         k.attempts # <<>>, Last(k).outcome = "protocol_error", ~Invoked(k)
  PROVE  ValidCapture(k)
<1>1. ValidAcquisition(k)
  BY DEF ValidAcquisition
<1>2. ValidTerminal(k)
  BY DEF ValidTerminal
<1>3. Coherent(k)
  BY DEF Coherent, ValidClock, Capture, Granted
<1> QED
  BY Zenon, <1>1, <1>2, <1>3 DEF ValidCapture, Coherent, AttemptsValid

\* A session whose submission was answered, or failed.
LEMMA SubmissionValid ==
  ASSUME NEW k \in Capture, AttemptsValid(k), k.clock_available,
         k.acquisition_stop = "granted", Granted(k), Invoked(k),
         \/ /\ k.terminal = "runner_reply" /\ k.error = NoError
            /\ k.runner_reply /\ k.submission_refusal = None
         \/ /\ k.terminal = "submission_refused" /\ k.error = NoError
            /\ ~k.runner_reply /\ k.submission_refusal \in RefusalReason
         \/ /\ k.terminal = "protocol_error" /\ k.error = <<"submission", "invalid_control">>
            /\ ~k.runner_reply /\ k.submission_refusal = "unadmitted"
         \/ /\ k.terminal = "xpc_error"
            /\ k.error \in {"submission"} \X {"xpc_error", "proxy_type_mismatch"}
            /\ ~k.runner_reply /\ k.submission_refusal = None
  PROVE  ValidCapture(k)
<1>1. ValidAcquisition(k)
  BY DEF ValidAcquisition
<1>2. ValidTerminal(k)
  BY Zenon DEF ValidTerminal
<1>3. Coherent(k)
  BY DEF Coherent, ValidClock, Capture, None, RefusalReason
<1> QED
  BY Zenon, <1>1, <1>2, <1>3 DEF ValidCapture, Coherent, AttemptsValid

-----------------------------------------------------------------------------
(* What a step of a session does to its capture.                            *)

\* The session of c moves to phase p with capture k.
Moves(c, p, k) ==
  phase' = [phase EXCEPT ![c] = p] /\ capture' = [capture EXCEPT ![c] = k]

CaptureStep(c) ==
  \E p \in Phase, k \in Capture : Moves(c, p, k) /\ SessionCapture(p, k)

\* k records what cap does, but for how the session ended.
Carries(cap, k) ==
  /\ k.attempts = cap.attempts /\ k.clock_available = cap.clock_available
  /\ k.acquisition_stop = cap.acquisition_stop /\ k.submission = cap.submission
  /\ k.runner_reply = cap.runner_reply /\ k.submission_refusal = cap.submission_refusal

\* The session of c is over, with what cap records and this ending.
Concluded(c, cap, terminal, error) ==
  \E k \in Capture : /\ Moves(c, "done", k) /\ Carries(cap, k)
                     /\ k.terminal = terminal /\ k.error = error
                     /\ k.deadline_elapsed <=> cap.clock_available /\ c \in overdue'

\* complete: the capture it was given, with the terminal and the last reading.
LEMMA CompleteCapture ==
  ASSUME NEW c \in Client, NEW used, NEW cap \in Capture, NEW terminal \in Terminal,
         NEW error \in TransportError, Complete(c, used, cap, terminal, error)
  PROVE  Concluded(c, cap, terminal, error)
<1> DEFINE late == cap.clock_available /\ c \in overdue'
           k == [cap EXCEPT !.terminal = terminal, !.error = error, !.deadline_elapsed = late]
<1>1. late \in BOOLEAN
  BY Zenon
<1>2. Moves(c, "done", k)
  BY Zenon DEF Complete, Moves
<1> HIDE DEF late
<1>3. k \in Capture /\ k.terminal = terminal /\ k.error = error /\ k.deadline_elapsed = late
  BY Zenon, <1>1 DEF Capture
<1>4. Carries(cap, k)
  BY Zenon DEF Carries, Capture
<1> HIDE DEF k
<1>5. k.deadline_elapsed <=> cap.clock_available /\ c \in overdue'
  BY Zenon, <1>3 DEF late
<1> QED
  BY Zenon, <1>2, <1>3, <1>4, <1>5 DEF Concluded

\* The attempts of a capture and what is read off them are carried over.
LEMMA CarriesAttempts ==
  ASSUME NEW cap, NEW k, Carries(cap, k)
  PROVE  /\ AttemptsValid(k) <=> AttemptsValid(cap)
         /\ Granted(k) <=> Granted(cap)
         /\ Invoked(k) <=> Invoked(cap)
         /\ Last(k) = Last(cap)
<1>1. k.attempts = cap.attempts /\ k.submission = cap.submission
  BY Zenon DEF Carries
<1> QED
  BY Zenon, <1>1 DEF AttemptsValid, Granted, Invoked, Last

\* d is cap with this stop, or the grant on record.
Stopped(cap, reason, d) ==
  /\ d \in Capture
  /\ d.attempts = cap.attempts /\ d.clock_available = cap.clock_available
  /\ d.submission = cap.submission
  /\ d.runner_reply = cap.runner_reply /\ d.submission_refusal = cap.submission_refusal
  /\ d.acquisition_stop = IF cap.acquisition_stop = "granted" THEN "granted" ELSE reason

LEMMA StopCapture ==
  ASSUME NEW cap \in Capture, NEW reason \in AcquisitionStop
  PROVE  Stopped(cap, reason, StopUnlessGranted(cap, reason))
<1> DEFINE stop == IF cap.acquisition_stop = "granted" THEN "granted" ELSE reason
           d == StopUnlessGranted(cap, reason)
<1>1. d = [cap EXCEPT !.acquisition_stop = stop]
  BY Zenon DEF StopUnlessGranted, Capture
<1>2. stop \in AcquisitionStop
  BY Zenon DEF AcquisitionStop
<1> HIDE DEF stop, d
<1>3. Stopped(cap, reason, d)
  <2>1. d \in Capture /\ d.acquisition_stop = stop
    BY Zenon, <1>1, <1>2 DEF Capture
  <2>2. /\ d.attempts = cap.attempts /\ d.clock_available = cap.clock_available
        /\ d.submission = cap.submission
        /\ d.runner_reply = cap.runner_reply /\ d.submission_refusal = cap.submission_refusal
    BY Zenon, <1>1 DEF Capture
  <2> QED
    BY Zenon, <2>1, <2>2 DEF Stopped, stop
<1> QED
  BY Zenon, <1>3 DEF d

\* The capture of a session in phase ph; a grant that has not been submitted
\* yet is "reserved".
Stage(ph, cap) ==
  /\ cap.clock_available
  /\ \/ ph \in {"initial", "waiting"} /\ Between(cap)
     \/ ph = "acquiring" /\ Asking(cap)
     \/ ph = "reserved" /\ Holding(cap) /\ ~Invoked(cap)
     \/ ph = "submitted" /\ Holding(cap) /\ Invoked(cap)

LEMMA StageOf ==
  ASSUME TypeInv, CaptureInv, NEW c \in Client, phase[c] \notin {"done", "crashed"}
  PROVE  Stage(phase[c], capture[c])
<1>1. phase[c] \in Phase /\ SessionCapture(phase[c], capture[c])
  BY Zenon DEF TypeInv, TypeOK, CaptureInv
<1> QED
  BY Zenon, <1>1 DEF Phase, Live, SessionCapture, Stage

\* An admitted capture ends the session.
LEMMA DoneStep ==
  ASSUME NEW c, NEW k \in Capture, Moves(c, "done", k), ValidCapture(k)
  PROVE  CaptureStep(c)
<1>1. SessionCapture("done", k)
  BY DEF SessionCapture, Live
<1>2. "done" \in Phase
  BY Zenon DEF Phase
<1> QED
  BY Zenon, <1>1, <1>2 DEF CaptureStep

\* The attempts endAttempt can leave when time runs out, the clock fails or an
\* answer asks for another attempt.
LEMMA EndingsValid ==
  /\ ValidAttempt([outcome |-> "transport_error", status |-> None,
        error |-> <<"acquisition", "xpc_error">>], FALSE)
  /\ \A r \in {"rpc_timeout", "overall_deadline"} : ValidAttempt([outcome |-> "timeout",
        status |-> None, error |-> <<"acquisition", r>>], FALSE)
  /\ ValidAttempt([outcome |-> "occupied", status |-> "occupied", error |-> NoError], FALSE)
  /\ ValidAttempt([outcome |-> "granted", status |-> "granted", error |-> NoError], TRUE)
  /\ ValidAttempt([outcome |-> "protocol_error", status |-> None,
        error |-> <<"acquisition", "invalid_control">>], TRUE)
  /\ ValidAttempt([outcome |-> "local_error", status |-> None,
        error |-> <<"acquisition", "proxy_type_mismatch">>], TRUE)
  /\ \A r \in {"clock_error", "encoding_failed"} : ValidAttempt([outcome |-> "local_error",
        status |-> None, error |-> <<"local", r>>], TRUE)
<1> USE DEF ValidAttempt, ValidAttemptError, NoError, None
<1>1. ValidAttempt([outcome |-> "transport_error", status |-> None,
        error |-> <<"acquisition", "xpc_error">>], FALSE)
  OBVIOUS
<1>2. \A r \in {"rpc_timeout", "overall_deadline"} : ValidAttempt([outcome |-> "timeout",
        status |-> None, error |-> <<"acquisition", r>>], FALSE)
  OBVIOUS
<1>3. ValidAttempt([outcome |-> "occupied", status |-> "occupied", error |-> NoError], FALSE)
  OBVIOUS
<1>4. ValidAttempt([outcome |-> "granted", status |-> "granted", error |-> NoError], TRUE)
  OBVIOUS
<1>5. ValidAttempt([outcome |-> "protocol_error", status |-> None,
        error |-> <<"acquisition", "invalid_control">>], TRUE)
  OBVIOUS
<1>6. ValidAttempt([outcome |-> "local_error", status |-> None,
        error |-> <<"acquisition", "proxy_type_mismatch">>], TRUE)
  OBVIOUS
<1>7. \A r \in {"clock_error", "encoding_failed"} : ValidAttempt([outcome |-> "local_error",
        status |-> None, error |-> <<"local", r>>], TRUE)
  OBVIOUS
<1> QED
  BY ONLY Zenon, <1>1, <1>2, <1>3, <1>4, <1>5, <1>6, <1>7

\* overallTimeout ends the session with a capture that is admitted.
LEMMA OverallTimeoutCapture ==
  ASSUME NEW c \in Client, NEW used, NEW cap \in Capture, NEW ph, Stage(ph, cap),
         OverallTimeout(c, used, cap, ph)
  PROVE  CaptureStep(c)
<1> DEFINE ended == IF ph = "acquiring"
                    THEN EndAttempt(cap, "timeout", None, <<"acquisition", "overall_deadline">>)
                    ELSE cap
           stopped == StopUnlessGranted(ended, "overall_deadline")
           error == <<IF ph = "submitted" THEN "submission" ELSE "acquisition", "overall_deadline">>
<1>1. c \in overdue' /\ Complete(c, used, stopped, "xpc_timeout", error)
  BY Zenon DEF OverallTimeout
<1>2. /\ ended \in Capture /\ ended.clock_available
      /\ \/ Between(ended) /\ ph # "submitted"
         \/ ph = "reserved" /\ Holding(ended) /\ ~Invoked(ended)
         \/ ph = "submitted" /\ Holding(ended) /\ Invoked(ended)
  <2>1. CASE ph = "acquiring" /\ Asking(cap)
    <3>1. /\ "timeout" \in AttemptOutcome /\ None \in {None, "granted", "occupied"}
          /\ <<"acquisition", "overall_deadline">> \in TransportError
          /\ "overall_deadline" \in {"rpc_timeout", "overall_deadline"}
      BY Zenon, ErrorTypes DEF AttemptOutcome, ErrorStage, ErrorReason
    <3>2. ValidAttempt([outcome |-> "timeout", status |-> None,
                        error |-> <<"acquisition", "overall_deadline">>], FALSE)
      BY Zenon, <3>1, EndingsValid
    <3>3. Continues(cap, EndAttempt(cap, "timeout", None, <<"acquisition", "overall_deadline">>))
      BY Zenon, <2>1, <3>1, <3>2, EndedBetween
    <3>4. ph # "submitted" /\ cap.clock_available
      BY <2>1 DEF Stage
    <3> QED
      BY Zenon, <2>1, <3>3, <3>4 DEF Continues
  <2>2. CASE ~(ph = "acquiring" /\ Asking(cap))
    <3>1. /\ cap.clock_available
          /\ \/ ph \in {"initial", "waiting"} /\ Between(cap)
             \/ ph = "reserved" /\ Holding(cap) /\ ~Invoked(cap)
             \/ ph = "submitted" /\ Holding(cap) /\ Invoked(cap)
      BY Zenon, <2>2 DEF Stage
    <3>2. ph # "acquiring" /\ (ph \in {"initial", "waiting"} => ph # "submitted")
      BY <3>1
    <3> QED
      BY Zenon, <3>1, <3>2
  <2> QED
    BY Zenon, <2>1, <2>2
<1>3. "overall_deadline" \in AcquisitionStop /\ "xpc_timeout" \in Terminal /\ error \in TransportError
  BY Zenon, ErrorTypes DEF AcquisitionStop, Terminal, ErrorStage, ErrorReason
<1> HIDE DEF ended
<1>4. Stopped(ended, "overall_deadline", stopped)
  BY Zenon, <1>2, <1>3, StopCapture
<1> HIDE DEF stopped, error
<1>5. PICK k \in Capture : /\ Moves(c, "done", k) /\ Carries(stopped, k)
                           /\ k.terminal = "xpc_timeout" /\ k.error = error
                           /\ k.deadline_elapsed <=> stopped.clock_available /\ c \in overdue'
  <2>1. stopped \in Capture
    BY Zenon, <1>4 DEF Stopped
  <2>2. Concluded(c, stopped, "xpc_timeout", error)
    BY Zenon, <1>1, <1>3, <2>1, CompleteCapture
  <2> QED
    BY Zenon, <2>2 DEF Concluded
<1>6. /\ AttemptsValid(k) <=> AttemptsValid(ended)
      /\ Granted(k) <=> Granted(ended)
      /\ Invoked(k) <=> Invoked(ended)
  <2>0. Carries(stopped, k)
    BY Zenon, <1>5
  <2>1. k.attempts = ended.attempts /\ k.submission = ended.submission
    BY ONLY Zenon, <1>4, <2>0 DEF Carries, Stopped
  <2> QED
    BY Zenon, <2>1 DEF AttemptsValid, Granted, Invoked, Last
<1>7. /\ ended.clock_available /\ ~ended.runner_reply /\ ended.submission_refusal = None
      /\ AttemptsValid(ended)
      /\ Invoked(ended) <=> ph = "submitted"
      /\ \/ ended.acquisition_stop = "granted" /\ Granted(ended)
         \/ ended.acquisition_stop # "granted" /\ ~Granted(ended) /\ ~Invoked(ended)
  <2>1. CASE Between(ended) /\ ph # "submitted"
    <3>1. AttemptsValid(ended) /\ ~Granted(ended)
      BY Zenon, <1>2, <2>1, BetweenValid
    <3>2. /\ ~ended.runner_reply /\ ended.submission_refusal = None
          /\ ended.acquisition_stop = "local_error" /\ ended.submission = "not_invoked"
      BY Zenon, <2>1 DEF Between, Unstopped
    <3>3. ended.acquisition_stop # "granted" /\ ~Invoked(ended)
      BY <3>2 DEF Invoked
    <3> QED
      BY Zenon, <1>2, <2>1, <3>1, <3>2, <3>3
  <2>2. CASE Holding(ended) /\ (Invoked(ended) <=> ph = "submitted")
    <3>1. /\ ~ended.runner_reply /\ ended.submission_refusal = None /\ AttemptsValid(ended)
          /\ ended.acquisition_stop = "granted" /\ Granted(ended)
      BY ONLY Zenon, <2>2 DEF Holding
    <3> QED
      BY Zenon, <1>2, <2>2, <3>1
  <2>3. ph = "reserved" => ph # "submitted"
    OBVIOUS
  <2> QED
    BY Zenon, <1>2, <2>1, <2>2, <2>3
<1>8. /\ k.clock_available /\ ~k.runner_reply /\ k.submission_refusal = None /\ k.deadline_elapsed
      /\ AttemptsValid(k)
      /\ k.acquisition_stop = IF ended.acquisition_stop = "granted" THEN "granted" ELSE "overall_deadline"
  BY Zenon, <1>1, <1>4, <1>5, <1>6, <1>7 DEF Carries, Stopped
<1>9. /\ k.error = <<IF Invoked(k) THEN "submission" ELSE "acquisition", "overall_deadline">>
      /\ \/ k.acquisition_stop = "granted" /\ Granted(k)
         \/ k.acquisition_stop = "overall_deadline" /\ ~Granted(k) /\ ~Invoked(k)
  BY Zenon, <1>5, <1>6, <1>7, <1>8 DEF error
<1>10. ValidCapture(k)
  BY Zenon, <1>5, <1>8, <1>9, TimeoutValid
<1> QED
  BY Zenon, <1>5, <1>10, DoneStep

\* clockFailure ends the session with a capture that is admitted.
LEMMA ClockLostCapture ==
  ASSUME NEW c \in Client, NEW used, NEW cap \in Capture, NEW ph, Stage(ph, cap),
         ClockLost(c, used, cap, ph)
  PROVE  CaptureStep(c)
<1> DEFINE error == <<"local", "clock_error">>
           failed == [cap EXCEPT !.clock_available = FALSE]
           ended == IF ph = "acquiring" THEN EndAttempt(failed, "local_error", None, error)
                    ELSE failed
           stopped == StopUnlessGranted(ended, "local_error")
<1>1. Complete(c, used, stopped, "local_error", error)
  BY Zenon DEF ClockLost
<1>2. /\ "local_error" \in AttemptOutcome /\ None \in {None, "granted", "occupied"}
      /\ error \in TransportError /\ "clock_error" \in {"clock_error", "encoding_failed"}
      /\ "local_error" \in AcquisitionStop /\ "local_error" \in Terminal
  BY Zenon, ErrorTypes DEF AttemptOutcome, ErrorStage, ErrorReason, AcquisitionStop, Terminal
<1>3. /\ failed \in Capture /\ failed.clock_available = FALSE
      /\ failed.attempts = cap.attempts /\ failed.acquisition_stop = cap.acquisition_stop
      /\ failed.submission = cap.submission /\ failed.runner_reply = cap.runner_reply
      /\ failed.submission_refusal = cap.submission_refusal
  BY Zenon DEF Capture
<1> HIDE DEF failed
<1>4. /\ Between(failed) <=> Between(cap)
      /\ Asking(failed) <=> Asking(cap)
      /\ Holding(failed) <=> Holding(cap)
      /\ Invoked(failed) <=> Invoked(cap)
  <2>1. Unstopped(failed) <=> Unstopped(cap)
    BY Zenon, <1>3 DEF Unstopped
  <2>2. /\ AttemptsValid(failed) <=> AttemptsValid(cap)
        /\ Granted(failed) <=> Granted(cap)
        /\ Last(failed) = Last(cap)
    BY Zenon, <1>3 DEF AttemptsValid, Granted, Last
  <2>3. Between(failed) <=> Between(cap)
    BY Zenon, <1>3, <2>1 DEF Between
  <2>4. Asking(failed) <=> Asking(cap)
    BY Zenon, <1>3, <2>1, <2>2 DEF Asking
  <2>5. Holding(failed) <=> Holding(cap)
    BY Zenon, <1>3, <2>2 DEF Holding
  <2>6. Invoked(failed) <=> Invoked(cap)
    BY Zenon, <1>3 DEF Invoked
  <2> QED
    BY Zenon, <2>3, <2>4, <2>5, <2>6
<1>5. /\ ended \in Capture /\ ended.clock_available = FALSE
      /\ Between(ended) \/ Holding(ended) \/ Closes(failed, ended, "local_error")
  <2>1. CASE ph = "acquiring" /\ Asking(cap)
    <3>1. ValidAttempt([outcome |-> "local_error", status |-> None, error |-> error], TRUE)
      BY Zenon, <1>2, EndingsValid
    <3>2. Closes(failed, EndAttempt(failed, "local_error", None, error), "local_error")
      BY Zenon, <1>2, <1>3, <1>4, <2>1, <3>1, EndedLast
    <3>3. ended = EndAttempt(failed, "local_error", None, error)
      BY Zenon, <2>1
    <3> HIDE DEF ended
    <3> QED
      BY Zenon, <1>3, <3>2, <3>3 DEF Closes
  <2>2. CASE ~(ph = "acquiring" /\ Asking(cap))
    <3>1. \/ ph \in {"initial", "waiting"} /\ Between(cap)
          \/ ph = "reserved" /\ Holding(cap)
          \/ ph = "submitted" /\ Holding(cap)
      BY Zenon, <2>2 DEF Stage
    <3>2. ph # "acquiring"
      BY <3>1
    <3>3. ended = failed
      BY Zenon, <3>2
    <3> HIDE DEF ended
    <3> QED
      BY Zenon, <1>3, <1>4, <3>1, <3>3
  <2> QED
    BY Zenon, <2>1, <2>2
<1> HIDE DEF ended
<1>6. Stopped(ended, "local_error", stopped)
  BY Zenon, <1>2, <1>5, StopCapture
<1> HIDE DEF stopped, error
<1>7. PICK k \in Capture : /\ Moves(c, "done", k) /\ Carries(stopped, k)
                           /\ k.terminal = "local_error" /\ k.error = error
  <2>1. stopped \in Capture
    BY Zenon, <1>6 DEF Stopped
  <2>2. Concluded(c, stopped, "local_error", error)
    BY Zenon, <1>1, <1>2, <2>1, CompleteCapture
  <2> QED
    BY Zenon, <2>2 DEF Concluded
<1>8. /\ k.attempts = ended.attempts /\ k.submission = ended.submission
      /\ k.clock_available = FALSE
      /\ k.runner_reply = ended.runner_reply /\ k.submission_refusal = ended.submission_refusal
      /\ k.acquisition_stop = IF ended.acquisition_stop = "granted" THEN "granted" ELSE "local_error"
  <2>1. Carries(stopped, k) /\ ended.clock_available = FALSE
    BY Zenon, <1>5, <1>7
  <2> QED
    BY ONLY Zenon, <1>6, <2>1 DEF Carries, Stopped
<1>9. /\ AttemptsValid(k) <=> AttemptsValid(ended)
      /\ Granted(k) <=> Granted(ended)
      /\ Invoked(k) <=> Invoked(ended)
  BY Zenon, <1>8 DEF AttemptsValid, Granted, Invoked, Last
<1>10. /\ ~ended.runner_reply /\ ended.submission_refusal = None /\ AttemptsValid(ended)
       /\ \/ ended.acquisition_stop = "granted" /\ Granted(ended)
          \/ ended.acquisition_stop = "local_error" /\ ~Granted(ended) /\ ~Invoked(ended)
  <2>1. CASE Holding(ended)
    BY Zenon, <2>1 DEF Holding
  <2>2. CASE Between(ended)
    <3>1. AttemptsValid(ended) /\ ~Granted(ended) /\ Unstopped(ended)
      BY Zenon, <1>5, <2>2, BetweenValid DEF Between
    <3> QED
      BY ONLY <3>1 DEF Unstopped, Invoked
  <2>3. CASE Closes(failed, ended, "local_error")
    <3>1. AttemptsValid(ended) /\ Last(ended).outcome = "local_error" /\ Unstopped(ended)
      BY Zenon, <2>3 DEF Closes
    <3> QED
      BY ONLY <3>1 DEF Unstopped, Invoked, Granted
  <2> QED
    BY Zenon, <1>5, <2>1, <2>2, <2>3
<1>11. /\ AttemptsValid(k) /\ ~k.runner_reply /\ k.submission_refusal = None /\ ~k.clock_available
       /\ \/ k.acquisition_stop = "granted" /\ Granted(k)
          \/ k.acquisition_stop = "local_error" /\ ~Granted(k) /\ ~Invoked(k)
  BY Zenon, <1>8, <1>9, <1>10
<1>12. /\ k.error[2] = "clock_error"
       /\ k.error \in {"local"} \X {"clock_error", "encoding_failed", "input_read_failed"}
  BY ONLY <1>7 DEF error
<1>13. ValidCapture(k)
  BY Zenon, <1>7, <1>11, <1>12, LocalErrorValid
<1> QED
  BY Zenon, <1>7, <1>13, DoneStep

\* retry after an attempt that another may follow: another one, or the end.
LEMMA RetryCapture ==
  ASSUME NEW c \in Client, NEW used, NEW cap \in Capture, Between(cap), cap.clock_available,
         Retry(c, used, cap)
  PROVE  CaptureStep(c)
<1>1. Stage("waiting", cap)
  BY Zenon DEF Stage
<1>2. CASE ClockLost(c, used, cap, "waiting")
  BY Zenon, <1>1, <1>2, ClockLostCapture
<1>3. CASE OverallTimeout(c, used, cap, "waiting")
  BY Zenon, <1>1, <1>3, OverallTimeoutCapture
<1>4. CASE /\ Len(cap.attempts) >= AcquisitionAttempts
           /\ Complete(c, used, [cap EXCEPT !.acquisition_stop = "attempt_limit"],
                "acquisition_failed", <<"acquisition", "attempt_limit">>)
  <2> DEFINE d == [cap EXCEPT !.acquisition_stop = "attempt_limit"]
             error == <<"acquisition", "attempt_limit">>
  <2>1. /\ error \in TransportError /\ "attempt_limit" \in AcquisitionStop
        /\ "acquisition_failed" \in Terminal
    BY Zenon, ErrorTypes DEF ErrorStage, ErrorReason, AcquisitionStop, Terminal
  <2>2. /\ d \in Capture /\ d.acquisition_stop = "attempt_limit"
        /\ d.attempts = cap.attempts /\ d.clock_available = cap.clock_available
        /\ d.submission = cap.submission /\ d.runner_reply = cap.runner_reply
        /\ d.submission_refusal = cap.submission_refusal
    BY Zenon, <2>1 DEF Capture
  <2> HIDE DEF d, error
  <2>3. Concluded(c, d, "acquisition_failed", error)
    <3>1. Complete(c, used, d, "acquisition_failed", error)
      BY Zenon, <1>4 DEF d, error
    <3> QED
      BY Zenon, <2>1, <2>2, <3>1, CompleteCapture
  <2>4. PICK k \in Capture : /\ Moves(c, "done", k) /\ Carries(d, k)
                             /\ k.terminal = "acquisition_failed" /\ k.error = error
    BY Zenon, <2>3 DEF Concluded
  <2>5. /\ k.attempts = cap.attempts /\ k.clock_available /\ k.acquisition_stop = "attempt_limit"
        /\ k.submission = cap.submission /\ k.runner_reply = cap.runner_reply
        /\ k.submission_refusal = cap.submission_refusal
    BY Zenon, <2>2, <2>4 DEF Carries
  <2>6. AttemptsValid(cap) /\ ~Granted(cap) /\ Unstopped(cap)
    BY Zenon, BetweenValid DEF Between
  <2>7. AttemptsValid(k) /\ ~Granted(k)
    BY Zenon, <2>5, <2>6 DEF AttemptsValid, Granted, Last
  <2>8. ~k.runner_reply /\ k.submission_refusal = None /\ ~Invoked(k)
    BY ONLY <2>5, <2>6 DEF Unstopped, Invoked
  <2>9. Len(k.attempts) = AcquisitionAttempts
    <3>1. /\ cap.attempts \in Seq(Attempt) /\ Len(cap.attempts) >= AcquisitionAttempts
          /\ Len(cap.attempts) <= AcquisitionAttempts /\ k.attempts = cap.attempts
      BY Zenon, <1>4, <2>5 DEF Capture, Between
    <3> QED
      BY ONLY <3>1, AcquisitionAttemptsAssumption
  <2>10. ValidCapture(k)
    BY Zenon, <2>4, <2>5, <2>7, <2>8, <2>9, AttemptLimitValid DEF error
  <2> QED
    BY Zenon, <2>4, <2>10, DoneStep
<1>5. CASE Moves(c, "waiting", cap)
  <2>1. SessionCapture("waiting", cap)
    BY DEF SessionCapture
  <2>2. "waiting" \in Phase
    BY Zenon DEF Phase
  <2> QED
    BY Zenon, <1>5, <2>1, <2>2 DEF CaptureStep
<1> QED
  BY Zenon, <1>2, <1>3, <1>4, <1>5 DEF Retry, Moves

\* An attempt whose ending ends the session as well, with its own error.
LEMMA ClosingCapture ==
  ASSUME NEW c \in Client, NEW used, NEW cap \in Capture, Asking(cap), cap.clock_available,
         NEW outcome \in {"local_error", "protocol_error"}, NEW error \in TransportError,
         IF outcome = "protocol_error" THEN error = <<"acquisition", "invalid_control">>
         ELSE \/ error = <<"local", "encoding_failed">>
              \/ error = <<"acquisition", "proxy_type_mismatch">>,
         Complete(c, used,
           [EndAttempt(cap, outcome, None, error) EXCEPT !.acquisition_stop = outcome],
           outcome, error)
  PROVE  CaptureStep(c)
<1> DEFINE e == EndAttempt(cap, outcome, None, error)
           d == [e EXCEPT !.acquisition_stop = outcome]
<1>1. /\ outcome \in AttemptOutcome /\ None \in {None, "granted", "occupied"}
      /\ outcome \in AcquisitionStop /\ outcome \in Terminal
      /\ "encoding_failed" \in {"clock_error", "encoding_failed"}
  BY Zenon DEF AttemptOutcome, AcquisitionStop, Terminal
<1>2. ValidAttempt([outcome |-> outcome, status |-> None, error |-> error], TRUE)
  <2>1. CASE outcome = "protocol_error"
    BY Zenon, <2>1, EndingsValid
  <2>2. CASE outcome = "local_error" /\ error = <<"local", "encoding_failed">>
    BY Zenon, <1>1, <2>2, EndingsValid
  <2>3. CASE outcome = "local_error" /\ error = <<"acquisition", "proxy_type_mismatch">>
    BY Zenon, <2>3, EndingsValid
  <2> QED
    BY Zenon, <2>1, <2>2, <2>3
<1>3. Closes(cap, e, outcome)
  BY Zenon, <1>1, <1>2, EndedLast
<1> HIDE DEF e
<1>4. /\ e \in Capture /\ Unstopped(e) /\ AttemptsValid(e) /\ e.clock_available
      /\ e.attempts # <<>> /\ Last(e).outcome = outcome
  BY Zenon, <1>3 DEF Closes
<1>5. /\ d \in Capture /\ d.acquisition_stop = outcome
      /\ d.attempts = e.attempts /\ d.clock_available = e.clock_available
      /\ d.submission = e.submission /\ d.runner_reply = e.runner_reply
      /\ d.submission_refusal = e.submission_refusal
  BY Zenon, <1>1, <1>4 DEF Capture
<1>6. Concluded(c, d, outcome, error)
  <2>1. Complete(c, used, d, outcome, error)
    BY Zenon DEF e
  <2> HIDE DEF d
  <2> QED
    BY Zenon, <1>1, <1>5, <2>1, CompleteCapture
<1> HIDE DEF d
<1>7. PICK k \in Capture : /\ Moves(c, "done", k) /\ Carries(d, k)
                           /\ k.terminal = outcome /\ k.error = error
  BY Zenon, <1>6 DEF Concluded
<1>8. /\ k.attempts = e.attempts /\ k.clock_available /\ k.acquisition_stop = outcome
      /\ k.submission = e.submission /\ k.runner_reply = e.runner_reply
      /\ k.submission_refusal = e.submission_refusal
  BY Zenon, <1>4, <1>5, <1>7 DEF Carries
<1>9. AttemptsValid(k) /\ k.attempts # <<>> /\ Last(k).outcome = outcome
  BY Zenon, <1>4, <1>8 DEF AttemptsValid, Last
<1>10. ~k.runner_reply /\ k.submission_refusal = None /\ ~Invoked(k)
  BY ONLY <1>4, <1>8 DEF Unstopped, Invoked
<1>11. ValidCapture(k)
  <2>1. CASE outcome = "protocol_error"
    <3>1. k.error = <<"acquisition", "invalid_control">>
      BY Zenon, <1>7, <2>1
    <3> QED
      BY Zenon, <1>7, <1>8, <1>9, <1>10, <2>1, <3>1, ProtocolErrorValid
  <2>2. CASE outcome = "local_error"
    <3>1. \/ k.error = <<"local", "encoding_failed">>
          \/ k.error = <<"acquisition", "proxy_type_mismatch">>
      BY <1>7, <2>2
    <3>2. \/ k.error \in {"local"} \X {"clock_error", "encoding_failed", "input_read_failed"}
          \/ k.error = <<"acquisition", "proxy_type_mismatch">>
      BY ONLY <3>1
    <3>3. ~Granted(k)
      BY <1>9, <2>2 DEF Granted
    <3> QED
      BY Zenon, <1>7, <1>8, <1>9, <1>10, <2>2, <3>2, <3>3, LocalErrorValid
  <2> QED
    BY Zenon, <2>1, <2>2
<1> QED
  BY Zenon, <1>7, <1>11, DoneStep

\* A submission's answer, or its failure, ends the session.
LEMMA AnsweredCapture ==
  ASSUME NEW c \in Client, NEW used, NEW cap \in Capture, Holding(cap), Invoked(cap),
         cap.clock_available, NEW d \in Capture, NEW terminal \in Terminal,
         NEW error \in TransportError, Complete(c, used, d, terminal, error),
         d.attempts = cap.attempts, d.clock_available = cap.clock_available,
         d.acquisition_stop = cap.acquisition_stop, d.submission = cap.submission,
         \/ /\ terminal = "runner_reply" /\ error = NoError
            /\ d.runner_reply /\ d.submission_refusal = None
         \/ /\ terminal = "submission_refused" /\ error = NoError
            /\ ~d.runner_reply /\ d.submission_refusal \in RefusalReason
         \/ /\ terminal = "protocol_error" /\ error = <<"submission", "invalid_control">>
            /\ ~d.runner_reply /\ d.submission_refusal = "unadmitted"
         \/ /\ terminal = "xpc_error"
            /\ error \in {"submission"} \X {"xpc_error", "proxy_type_mismatch"}
            /\ ~d.runner_reply /\ d.submission_refusal = None
  PROVE  CaptureStep(c)
<1>1. Concluded(c, d, terminal, error)
  BY Zenon, CompleteCapture
<1>2. PICK k \in Capture : /\ Moves(c, "done", k) /\ Carries(d, k)
                           /\ k.terminal = terminal /\ k.error = error
  BY Zenon, <1>1 DEF Concluded
<1>3. /\ k.attempts = cap.attempts /\ k.clock_available
      /\ k.acquisition_stop = cap.acquisition_stop /\ k.submission = cap.submission
      /\ k.runner_reply = d.runner_reply /\ k.submission_refusal = d.submission_refusal
  BY Zenon, <1>2 DEF Carries
<1>4. AttemptsValid(cap) /\ Granted(cap) /\ cap.acquisition_stop = "granted"
  BY Zenon DEF Holding
<1>5. AttemptsValid(k) /\ Granted(k) /\ Invoked(k) /\ k.acquisition_stop = "granted"
  BY Zenon, <1>3, <1>4 DEF AttemptsValid, Granted, Invoked, Last
<1>6. \/ /\ k.terminal = "runner_reply" /\ k.error = NoError
         /\ k.runner_reply /\ k.submission_refusal = None
      \/ /\ k.terminal = "submission_refused" /\ k.error = NoError
         /\ ~k.runner_reply /\ k.submission_refusal \in RefusalReason
      \/ /\ k.terminal = "protocol_error" /\ k.error = <<"submission", "invalid_control">>
         /\ ~k.runner_reply /\ k.submission_refusal = "unadmitted"
      \/ /\ k.terminal = "xpc_error"
         /\ k.error \in {"submission"} \X {"xpc_error", "proxy_type_mismatch"}
         /\ ~k.runner_reply /\ k.submission_refusal = None
  BY Zenon, <1>2, <1>3
<1>7. ValidCapture(k)
  BY Zenon, <1>3, <1>5, <1>6, SubmissionValid
<1> QED
  BY Zenon, <1>2, <1>7, DoneStep

\* Every timer, local failure and passage of time keeps to the stages.
LEMMA ClientCaptures ==
  ASSUME TypeInv, CaptureInv, NEW c \in Client, ClientNext(c)
  PROVE  CaptureStep(c) \/ UNCHANGED <<phase, capture>>
<1>0. /\ capture \in [Client -> Capture] /\ capture[c] \in Capture
      /\ SessionCapture(phase[c], capture[c])
  BY Zenon DEF TypeInv, TypeOK, CaptureInv
<1>1. CASE InputReadFailed(c)
  <2> DEFINE cap == capture[c]
             error == <<"local", "input_read_failed">>
  <2>1. Complete(c, {}, cap, "local_error", error) /\ phase[c] = "initial"
    BY Zenon, <1>1 DEF InputReadFailed
  <2>2. "local_error" \in Terminal /\ error \in TransportError
    BY Zenon, ErrorTypes DEF ErrorStage, ErrorReason, Terminal
  <2>3. Between(cap) /\ cap.attempts = <<>> /\ cap.clock_available
    BY Zenon, <1>0, <2>1 DEF SessionCapture, Live
  <2> HIDE DEF error, cap
  <2>4. Concluded(c, cap, "local_error", error)
    BY Zenon, <1>0, <2>1, <2>2, CompleteCapture DEF cap
  <2>5. PICK k \in Capture : /\ Moves(c, "done", k) /\ Carries(cap, k)
                             /\ k.terminal = "local_error" /\ k.error = error
    BY Zenon, <2>4 DEF Concluded
  <2>6. AttemptsValid(cap) /\ ~Granted(cap) /\ Unstopped(cap)
    BY Zenon, <1>0, <2>3, BetweenValid DEF Between, cap
  <2>7. /\ AttemptsValid(k) <=> AttemptsValid(cap)
        /\ Granted(k) <=> Granted(cap)
        /\ Invoked(k) <=> Invoked(cap)
        /\ Last(k) = Last(cap)
    BY Zenon, <2>5, CarriesAttempts
  <2>8. /\ k.attempts = <<>> /\ k.clock_available /\ k.acquisition_stop = "local_error"
        /\ ~k.runner_reply /\ k.submission_refusal = None /\ cap.submission = "not_invoked"
    BY Zenon, <2>3, <2>5, <2>6 DEF Carries, Unstopped
  <2>9. ~Invoked(k) /\ AttemptsValid(k) /\ ~Granted(k)
    BY ONLY <2>6, <2>7, <2>8 DEF Invoked
  <2>10. k.error \in {"local"} \X {"clock_error", "encoding_failed", "input_read_failed"}
    BY ONLY <2>5 DEF error
  <2>11. ValidCapture(k)
    BY Zenon, <2>5, <2>8, <2>9, <2>10, LocalErrorValid
  <2> QED
    BY Zenon, <2>5, <2>11, DoneStep
<1>2. CASE BeginAttempt(c)
  <2> DEFINE k == AppendAttempt(capture[c])
  <2>1. /\ Moves(c, "acquiring", k) /\ phase[c] \in {"initial", "waiting"}
        /\ Len(capture[c].attempts) < AcquisitionAttempts
    BY Zenon, <1>0, <1>2 DEF BeginAttempt, Moves
  <2>2. Between(capture[c]) /\ capture[c].clock_available
    BY Zenon, <1>0, <2>1 DEF SessionCapture, Live
  <2>3. k \in Capture /\ Asking(k) /\ k.clock_available = capture[c].clock_available
    BY Zenon, <1>0, <2>1, <2>2, AppendedAsking
  <2> HIDE DEF k
  <2>4. SessionCapture("acquiring", k) /\ "acquiring" \in Phase
    BY <2>2, <2>3 DEF SessionCapture, Phase
  <2> QED
    BY Zenon, <2>1, <2>3, <2>4 DEF CaptureStep
<1>3. CASE EncodingFailed(c)
  <2> DEFINE cap == AppendAttempt(capture[c])
             error == <<"local", "encoding_failed">>
  <2>1. /\ phase[c] \in {"initial", "waiting"}
        /\ Complete(c, {}, [EndAttempt(cap, "local_error", None, error)
                              EXCEPT !.acquisition_stop = "local_error"], "local_error", error)
    BY Zenon, <1>3 DEF EncodingFailed
  <2>2. Between(capture[c]) /\ capture[c].clock_available
    BY Zenon, <1>0, <2>1 DEF SessionCapture, Live
  <2>3. Len(capture[c].attempts) < AcquisitionAttempts
    BY Zenon, <2>1 DEF TypeInv, AttemptBound
  <2>4. cap \in Capture /\ Asking(cap) /\ cap.clock_available = capture[c].clock_available
    BY Zenon, <1>0, <2>2, <2>3, AppendedAsking
  <2> HIDE DEF cap
  <2>5. /\ error \in TransportError /\ "local_error" \in {"local_error", "protocol_error"}
        /\ IF "local_error" = "protocol_error" THEN error = <<"acquisition", "invalid_control">>
           ELSE \/ error = <<"local", "encoding_failed">>
                \/ error = <<"acquisition", "proxy_type_mismatch">>
    BY Zenon, ErrorTypes DEF ErrorStage, ErrorReason
  <2> HIDE DEF error
  <2> QED
    BY Zenon, <2>1, <2>2, <2>4, <2>5, ClosingCapture
<1>4. CASE ArmDeadline(c)
  <2>1. phase[c] \notin {"done", "crashed"} /\ OverallTimeout(c, {}, capture[c], phase[c])
    BY Zenon, <1>4 DEF ArmDeadline
  <2>2. Stage(phase[c], capture[c])
    BY Zenon, <2>1, StageOf
  <2> QED
    BY Zenon, <1>0, <2>1, <2>2, OverallTimeoutCapture
<1>5. CASE ReservationTimeout(c)
  <2> DEFINE cap == EndAttempt(capture[c], "timeout", None, <<"acquisition", "rpc_timeout">>)
  <2>1. phase[c] = "acquiring" /\ Retry(c, {}, cap)
    BY Zenon, <1>5 DEF ReservationTimeout
  <2>2. Asking(capture[c]) /\ capture[c].clock_available
    BY Zenon, <1>0, <2>1 DEF SessionCapture, Live
  <2>3. /\ "timeout" \in AttemptOutcome /\ None \in {None, "granted", "occupied"}
        /\ <<"acquisition", "rpc_timeout">> \in TransportError
        /\ "rpc_timeout" \in {"rpc_timeout", "overall_deadline"}
    BY Zenon, ErrorTypes DEF AttemptOutcome, ErrorStage, ErrorReason
  <2>4. ValidAttempt([outcome |-> "timeout", status |-> None,
                      error |-> <<"acquisition", "rpc_timeout">>], FALSE)
    BY Zenon, <2>3, EndingsValid
  <2>5. Continues(capture[c], cap)
    BY Zenon, <1>0, <2>2, <2>3, <2>4, EndedBetween
  <2> HIDE DEF cap
  <2>6. cap \in Capture /\ Between(cap) /\ cap.clock_available
    BY Zenon, <2>2, <2>5 DEF Continues
  <2> QED
    BY Zenon, <2>1, <2>6, RetryCapture
<1>6. CASE ClockFailure(c)
  <2>1. phase[c] \notin {"done", "crashed"} /\ ClockLost(c, {}, capture[c], phase[c])
    BY Zenon, <1>6 DEF ClockFailure
  <2>2. Stage(phase[c], capture[c])
    BY Zenon, <2>1, StageOf
  <2> QED
    BY Zenon, <1>0, <2>1, <2>2, ClockLostCapture
<1>7. CASE ClientCrash(c)
  <2>1. Moves(c, "crashed", capture[c])
    BY Zenon, <1>0, <1>7 DEF ClientCrash, Moves
  <2>2. SessionCapture("crashed", capture[c]) /\ "crashed" \in Phase
    BY DEF SessionCapture, Phase, Live
  <2> QED
    BY Zenon, <1>0, <2>1, <2>2 DEF CaptureStep
<1>8. CASE DeadlinePasses(c) \/ RpcDeadlinePasses(c)
  BY Zenon, <1>8 DEF DeadlinePasses, RpcDeadlinePasses
<1> QED
  BY Zenon, <1>1, <1>2, <1>3, <1>4, <1>5, <1>6, <1>7, <1>8 DEF ClientNext

\* A reply to a reservation call.
LEMMA ReservationReplyCapture ==
  ASSUME TypeInv, CaptureInv, NEW m \in msgs, ReservationReply(m)
  PROVE  CaptureStep(m.client)
<1> DEFINE c == m.client
           cap == EndAttempt(capture[c], m.body, m.body, NoError)
           held == [cap EXCEPT !.acquisition_stop = "granted"]
           invalid == <<"acquisition", "invalid_control">>
<1>1. /\ c \in Client /\ phase[c] = "acquiring" /\ capture[c] \in Capture
      /\ Asking(capture[c]) /\ capture[c].clock_available
  <2>1. c \in Client
    BY Zenon, MessageOwner DEF TypeInv
  <2>2. phase[c] = "acquiring"
    BY Zenon DEF ReservationReply, Current
  <2>3. capture[c] \in Capture /\ SessionCapture(phase[c], capture[c])
    BY Zenon, <2>1 DEF TypeInv, TypeOK, CaptureInv
  <2> QED
    BY Zenon, <2>1, <2>2, <2>3 DEF SessionCapture, Live
<1>2. \/ m.body = "occupied" /\ Retry(c, {m}, cap)
      \/ Complete(c, {m}, [EndAttempt(capture[c], "protocol_error", None, invalid)
                             EXCEPT !.acquisition_stop = "protocol_error"], "protocol_error", invalid)
      \/ m.body = "granted" /\ OverallTimeout(c, {m}, held, "reserved")
      \/ m.body = "granted" /\ ClockLost(c, {m}, held, "reserved")
      \/ m.body = "granted" /\ Moves(c, "submitted", InvokeSubmission(held))
  BY Zenon DEF ReservationReply, Moves
<1>3. /\ "occupied" \in AttemptOutcome /\ "occupied" \in {None, "granted", "occupied"}
      /\ "granted" \in AttemptOutcome /\ "granted" \in {None, "granted", "occupied"}
      /\ NoError \in TransportError /\ invalid \in TransportError
      /\ "protocol_error" \in {"local_error", "protocol_error"} /\ "granted" \in AcquisitionStop
  BY Zenon, ErrorTypes DEF AttemptOutcome, AcquisitionStop, ErrorStage, ErrorReason
<1>4. CASE m.body = "occupied" /\ Retry(c, {m}, cap)
  <2>1. ValidAttempt([outcome |-> "occupied", status |-> "occupied", error |-> NoError], FALSE)
    BY Zenon, EndingsValid
  <2>2. Continues(capture[c], EndAttempt(capture[c], "occupied", "occupied", NoError))
    BY Zenon, <1>1, <1>3, <2>1, EndedBetween
  <2>3. Continues(capture[c], cap)
    BY Zenon, <1>4, <2>2
  <2> HIDE DEF cap
  <2>4. cap \in Capture /\ Between(cap) /\ cap.clock_available
    BY Zenon, <1>1, <2>3 DEF Continues
  <2> HIDE DEF c
  <2>5. CaptureStep(c)
    BY Zenon, <1>1, <1>4, <2>4, RetryCapture
  <2> QED
    BY Zenon, <2>5 DEF c
<1>5. CASE Complete(c, {m}, [EndAttempt(capture[c], "protocol_error", None, invalid)
                               EXCEPT !.acquisition_stop = "protocol_error"], "protocol_error", invalid)
  <2>1. IF "protocol_error" = "protocol_error" THEN invalid = <<"acquisition", "invalid_control">>
        ELSE \/ invalid = <<"local", "encoding_failed">>
             \/ invalid = <<"acquisition", "proxy_type_mismatch">>
    BY Zenon
  <2> HIDE DEF invalid, c
  <2>2. CaptureStep(c)
    BY Zenon, <1>1, <1>3, <1>5, <2>1, ClosingCapture
  <2> QED
    BY Zenon, <2>2 DEF c
<1>6. CASE m.body = "granted"
  <2>1. ValidAttempt([outcome |-> "granted", status |-> "granted", error |-> NoError], TRUE)
    BY Zenon, EndingsValid
  <2>2. Closes(capture[c], EndAttempt(capture[c], "granted", "granted", NoError), "granted")
    BY Zenon, <1>1, <1>3, <2>1, EndedLast
  <2>3. Closes(capture[c], cap, "granted")
    BY Zenon, <1>6, <2>2
  <2> HIDE DEF cap
  <2>4. /\ cap \in Capture /\ Unstopped(cap) /\ AttemptsValid(cap) /\ cap.clock_available
        /\ cap.attempts # <<>> /\ Last(cap).outcome = "granted"
    BY Zenon, <1>1, <2>3 DEF Closes
  <2>5. /\ held \in Capture /\ held.acquisition_stop = "granted"
        /\ held.attempts = cap.attempts /\ held.clock_available = cap.clock_available
        /\ held.submission = cap.submission /\ held.runner_reply = cap.runner_reply
        /\ held.submission_refusal = cap.submission_refusal
    BY Zenon, <1>3, <2>4 DEF Capture
  <2> HIDE DEF held
  <2>6. /\ AttemptsValid(held) /\ Granted(held) /\ held.clock_available
        /\ ~held.runner_reply /\ held.submission_refusal = None
        /\ held.submission = "not_invoked"
    BY Zenon, <2>4, <2>5 DEF AttemptsValid, Granted, Last, Unstopped
  <2>7. Holding(held) /\ ~Invoked(held)
    BY <2>5, <2>6 DEF Holding, Invoked
  <2>8. Stage("reserved", held)
    BY Zenon, <2>6, <2>7 DEF Stage
  <2>9. CASE OverallTimeout(c, {m}, held, "reserved")
    BY Zenon, <1>1, <2>5, <2>8, <2>9, OverallTimeoutCapture
  <2>10. CASE ClockLost(c, {m}, held, "reserved")
    BY Zenon, <1>1, <2>5, <2>8, <2>10, ClockLostCapture
  <2>11. CASE Moves(c, "submitted", InvokeSubmission(held))
    <3> DEFINE k == InvokeSubmission(held)
    <3>1. /\ k \in Capture /\ k.submission = "invoked"
          /\ k.attempts = held.attempts /\ k.clock_available = held.clock_available
          /\ k.acquisition_stop = held.acquisition_stop /\ k.runner_reply = held.runner_reply
          /\ k.submission_refusal = held.submission_refusal
      BY Zenon, <2>5 DEF InvokeSubmission, Capture
    <3> HIDE DEF k
    <3>2. AttemptsValid(k) /\ Granted(k) /\ Invoked(k) /\ k.clock_available
      BY Zenon, <2>6, <3>1 DEF AttemptsValid, Granted, Invoked, Last
    <3>3. Holding(k)
      BY Zenon, <2>5, <2>6, <3>1, <3>2 DEF Holding
    <3>4. SessionCapture("submitted", k) /\ "submitted" \in Phase
      BY <3>2, <3>3 DEF SessionCapture, Phase
    <3>5. Moves(c, "submitted", k)
      BY Zenon, <2>11 DEF k
    <3> QED
      BY Zenon, <3>1, <3>4, <3>5 DEF CaptureStep
  <2>12. ~(m.body = "occupied")
    BY <1>6
  <2> QED
    BY Zenon, <1>2, <1>5, <2>9, <2>10, <2>11, <2>12
<1> QED
  BY Zenon, <1>2, <1>4, <1>5, <1>6

\* A reply to a submission.
LEMMA SubmissionReplyCapture ==
  ASSUME TypeInv, CaptureInv, NEW m \in msgs, SubmissionReply(m)
  PROVE  CaptureStep(m.client)
<1> DEFINE c == m.client
           cap == capture[c]
<1>1. /\ c \in Client /\ phase[c] = "submitted" /\ cap \in Capture
      /\ Holding(cap) /\ Invoked(cap) /\ cap.clock_available
  <2>1. c \in Client
    BY Zenon, MessageOwner DEF TypeInv
  <2>2. phase[c] = "submitted"
    BY Zenon DEF SubmissionReply, Current
  <2>3. cap \in Capture /\ SessionCapture(phase[c], cap)
    BY Zenon, <2>1 DEF TypeInv, TypeOK, CaptureInv
  <2> QED
    BY Zenon, <2>1, <2>2, <2>3 DEF SessionCapture, Live
<1>2. \/ OverallTimeout(c, {m}, cap, "submitted")
      \/ Complete(c, {m}, [cap EXCEPT !.runner_reply = TRUE], "runner_reply", NoError)
      \/ /\ m.body \in RefusalReason
         /\ Complete(c, {m}, [cap EXCEPT !.submission_refusal = m.body],
                     "submission_refused", NoError)
      \/ Complete(c, {m}, [cap EXCEPT !.submission_refusal = "unadmitted"],
                  "protocol_error", <<"submission", "invalid_control">>)
  BY Zenon DEF SubmissionReply
<1>3. /\ "runner_reply" \in Terminal /\ "submission_refused" \in Terminal
      /\ "protocol_error" \in Terminal /\ NoError \in TransportError
      /\ <<"submission", "invalid_control">> \in TransportError
  BY Zenon, ErrorTypes DEF Terminal, ErrorStage, ErrorReason
<1>4. ~cap.runner_reply /\ cap.submission_refusal = None
  BY Zenon, <1>1 DEF Holding
<1> HIDE DEF c, cap
<1>5. CASE OverallTimeout(c, {m}, cap, "submitted")
  <2>1. Stage("submitted", cap)
    BY Zenon, <1>1 DEF Stage
  <2>2. CaptureStep(c)
    BY Zenon, <1>1, <1>5, <2>1, OverallTimeoutCapture
  <2> QED
    BY Zenon, <2>2 DEF c
<1>6. CASE Complete(c, {m}, [cap EXCEPT !.runner_reply = TRUE], "runner_reply", NoError)
  <2> DEFINE d == [cap EXCEPT !.runner_reply = TRUE]
  <2>1. /\ d \in Capture /\ d.runner_reply
        /\ d.attempts = cap.attempts /\ d.clock_available = cap.clock_available
        /\ d.acquisition_stop = cap.acquisition_stop /\ d.submission = cap.submission
        /\ d.submission_refusal = cap.submission_refusal
    BY Zenon, <1>1 DEF Capture
  <2> HIDE DEF d
  <2>2. Complete(c, {m}, d, "runner_reply", NoError) /\ d.submission_refusal = None
    BY Zenon, <1>4, <1>6, <2>1 DEF d
  <2>3. CaptureStep(c)
    BY Zenon, <1>1, <1>3, <2>1, <2>2, AnsweredCapture
  <2> QED
    BY Zenon, <2>3 DEF c
<1>7. CASE /\ m.body \in RefusalReason
           /\ Complete(c, {m}, [cap EXCEPT !.submission_refusal = m.body],
                       "submission_refused", NoError)
  <2> DEFINE d == [cap EXCEPT !.submission_refusal = m.body]
  <2>1. /\ d \in Capture /\ d.submission_refusal = m.body
        /\ d.attempts = cap.attempts /\ d.clock_available = cap.clock_available
        /\ d.acquisition_stop = cap.acquisition_stop /\ d.submission = cap.submission
        /\ d.runner_reply = cap.runner_reply
    BY Zenon, <1>1, <1>7 DEF Capture
  <2> HIDE DEF d
  <2>2. /\ Complete(c, {m}, d, "submission_refused", NoError)
        /\ ~d.runner_reply /\ d.submission_refusal \in RefusalReason
    BY Zenon, <1>4, <1>7, <2>1 DEF d
  <2>3. CaptureStep(c)
    BY Zenon, <1>1, <1>3, <2>1, <2>2, AnsweredCapture
  <2> QED
    BY Zenon, <2>3 DEF c
<1>8. CASE Complete(c, {m}, [cap EXCEPT !.submission_refusal = "unadmitted"],
                    "protocol_error", <<"submission", "invalid_control">>)
  <2> DEFINE d == [cap EXCEPT !.submission_refusal = "unadmitted"]
  <2>1. /\ d \in Capture /\ d.submission_refusal = "unadmitted"
        /\ d.attempts = cap.attempts /\ d.clock_available = cap.clock_available
        /\ d.acquisition_stop = cap.acquisition_stop /\ d.submission = cap.submission
        /\ d.runner_reply = cap.runner_reply
    BY Zenon, <1>1 DEF Capture
  <2> HIDE DEF d
  <2>2. /\ Complete(c, {m}, d, "protocol_error", <<"submission", "invalid_control">>)
        /\ ~d.runner_reply
    BY Zenon, <1>4, <1>8, <2>1 DEF d
  <2>3. CaptureStep(c)
    BY Zenon, <1>1, <1>3, <2>1, <2>2, AnsweredCapture
  <2> QED
    BY Zenon, <2>3 DEF c
<1> QED
  BY Zenon, <1>2, <1>5, <1>6, <1>7, <1>8 DEF c, cap

\* An error callback in place of a reply.
LEMMA ConnectionFailedCapture ==
  ASSUME TypeInv, CaptureInv, NEW m \in msgs, ConnectionFailed(m)
  PROVE  CaptureStep(m.client)
<1> DEFINE c == m.client
           cap == capture[c]
           mismatch == <<"acquisition", "proxy_type_mismatch">>
           failure == <<"acquisition", "xpc_error">>
<1>1. /\ c \in Client /\ phase[c] \in {"acquiring", "submitted"} /\ cap \in Capture
      /\ SessionCapture(phase[c], cap) /\ cap.clock_available
  <2>1. c \in Client
    BY Zenon, MessageOwner DEF TypeInv
  <2>2. phase[c] \in {"acquiring", "submitted"}
    BY Zenon DEF ConnectionFailed, Current
  <2>3. cap \in Capture /\ SessionCapture(phase[c], cap)
    BY Zenon, <2>1 DEF TypeInv, TypeOK, CaptureInv
  <2> QED
    BY Zenon, <2>1, <2>2, <2>3 DEF SessionCapture, Live
<1>2. Stage(phase[c], cap)
  <2>1. phase[c] \notin {"done", "crashed"}
    BY <1>1
  <2> QED
    BY Zenon, <1>1, <2>1, StageOf
<1>3. \/ OverallTimeout(c, {m}, cap, phase[c])
      \/ phase[c] = "submitted" /\ Complete(c, {m}, cap, "xpc_error", <<"submission", m.body>>)
      \/ /\ phase[c] = "acquiring"
         /\ Complete(c, {m}, [EndAttempt(cap, "local_error", None, mismatch)
                                EXCEPT !.acquisition_stop = "local_error"], "local_error", mismatch)
      \/ /\ phase[c] = "acquiring"
         /\ Retry(c, {m}, EndAttempt(cap, "transport_error", None, failure))
  BY Zenon DEF ConnectionFailed
<1>4. /\ "xpc_error" \in Terminal /\ mismatch \in TransportError /\ failure \in TransportError
      /\ "local_error" \in {"local_error", "protocol_error"}
      /\ "transport_error" \in AttemptOutcome /\ None \in {None, "granted", "occupied"}
  BY Zenon, ErrorTypes DEF Terminal, ErrorStage, ErrorReason, AttemptOutcome
<1>5. m.body \in {"xpc_error", "proxy_type_mismatch"}
  BY Zenon DEF ConnectionFailed, TypeInv, ErrorBodies
<1>6. CASE OverallTimeout(c, {m}, cap, phase[c])
  BY Zenon, <1>1, <1>2, <1>6, OverallTimeoutCapture
<1>7. CASE phase[c] = "submitted" /\ Complete(c, {m}, cap, "xpc_error", <<"submission", m.body>>)
  <2> DEFINE error == <<"submission", m.body>>
  <2>1. /\ error \in TransportError
        /\ error \in {"submission"} \X {"xpc_error", "proxy_type_mismatch"}
    BY <1>5 DEF TransportError, ErrorStage, ErrorReason
  <2>2. Complete(c, {m}, cap, "xpc_error", error)
    BY Zenon, <1>7
  <2>3. Holding(cap) /\ Invoked(cap)
    BY Zenon, <1>1, <1>7 DEF SessionCapture
  <2>4. ~cap.runner_reply /\ cap.submission_refusal = None
    BY Zenon, <2>3 DEF Holding
  <2> HIDE DEF error, c, cap
  <2>5. CaptureStep(c)
    BY Zenon, <1>1, <1>4, <2>1, <2>2, <2>3, <2>4, AnsweredCapture
  <2> QED
    BY Zenon, <2>5 DEF c
<1>8. CASE /\ phase[c] = "acquiring"
           /\ Complete(c, {m}, [EndAttempt(cap, "local_error", None, mismatch)
                                  EXCEPT !.acquisition_stop = "local_error"], "local_error", mismatch)
  <2>1. IF "local_error" = "protocol_error" THEN mismatch = <<"acquisition", "invalid_control">>
        ELSE \/ mismatch = <<"local", "encoding_failed">>
             \/ mismatch = <<"acquisition", "proxy_type_mismatch">>
    BY Zenon
  <2>2. Asking(cap)
    BY Zenon, <1>1, <1>8 DEF SessionCapture
  <2> HIDE DEF mismatch, c, cap
  <2>3. CaptureStep(c)
    BY Zenon, <1>1, <1>4, <1>8, <2>1, <2>2, ClosingCapture
  <2> QED
    BY Zenon, <2>3 DEF c
<1>9. CASE /\ phase[c] = "acquiring"
           /\ Retry(c, {m}, EndAttempt(cap, "transport_error", None, failure))
  <2> DEFINE d == EndAttempt(cap, "transport_error", None, failure)
  <2>1. ValidAttempt([outcome |-> "transport_error", status |-> None, error |-> failure], FALSE)
    BY Zenon, EndingsValid
  <2>2. Asking(cap)
    BY Zenon, <1>1, <1>9 DEF SessionCapture
  <2> HIDE DEF failure, c, cap
  <2>3. Continues(cap, d)
    BY Zenon, <1>1, <1>4, <2>1, <2>2, EndedBetween
  <2>4. Retry(c, {m}, d)
    BY Zenon, <1>9
  <2> HIDE DEF d
  <2>5. d \in Capture /\ Between(d) /\ d.clock_available
    BY Zenon, <1>1, <2>3 DEF Continues
  <2>6. CaptureStep(c)
    BY Zenon, <1>1, <2>4, <2>5, RetryCapture
  <2> QED
    BY Zenon, <2>6 DEF c
<1> QED
  BY Zenon, <1>3, <1>6, <1>7, <1>8, <1>9

\* A step of the session of c keeps every session's capture in its stage.
LEMMA CaptureStepKeeps ==
  ASSUME TypeInv, CaptureInv, NEW c \in Client, CaptureStep(c)
  PROVE  CaptureInv'
<1>1. PICK p \in Phase, k \in Capture :
        /\ phase' = [phase EXCEPT ![c] = p] /\ capture' = [capture EXCEPT ![c] = k]
        /\ SessionCapture(p, k)
  BY Zenon DEF CaptureStep, Moves
<1>2. DOMAIN phase = Client /\ DOMAIN capture = Client
  BY Zenon DEF TypeInv, TypeOK
<1>3. ASSUME NEW b \in Client PROVE SessionCapture(phase'[b], capture'[b])
  <2>1. CASE b = c
    BY Zenon, <1>1, <1>2, <2>1
  <2>2. CASE b # c
    <3>1. phase'[b] = phase[b] /\ capture'[b] = capture[b]
      BY Zenon, <1>1, <1>2, <2>2
    <3>2. SessionCapture(phase[b], capture[b])
      BY Zenon DEF CaptureInv
    <3> QED
      BY Zenon, <3>1, <3>2
  <2> QED
    BY Zenon, <2>1, <2>2
<1> QED
  BY Zenon, <1>3 DEF CaptureInv, SessionCapture, Between, Asking, Holding, Unstopped, AttemptsValid

LEMMA CaptureInvStep == TypeInv /\ CaptureInv /\ [Next]_vars => CaptureInv'
<1> SUFFICES ASSUME TypeInv, CaptureInv, [Next]_vars PROVE CaptureInv'
  BY Zenon
<1>1. ASSUME UNCHANGED <<phase, capture>> PROVE CaptureInv'
  BY Zenon, <1>1 DEF CaptureInv
<1>2. CASE CallbackNext
  <2>1. PICK m \in msgs :
          \/ ReservationReply(m) \/ SubmissionReply(m) \/ ConnectionFailed(m) \/ BadControl(m)
          \/ \E body \in {"xpc_error", "proxy_type_mismatch"} : Fail(m, body)
    BY Zenon, <1>2 DEF CallbackNext
  <2>2. m.client \in Client
    BY Zenon, MessageOwner DEF TypeInv
  <2>3. CASE ReservationReply(m)
    BY Zenon, <2>2, <2>3, ReservationReplyCapture, CaptureStepKeeps
  <2>4. CASE SubmissionReply(m)
    BY Zenon, <2>2, <2>4, SubmissionReplyCapture, CaptureStepKeeps
  <2>5. CASE ConnectionFailed(m)
    BY Zenon, <2>2, <2>5, ConnectionFailedCapture, CaptureStepKeeps
  <2>6. CASE BadControl(m) \/ \E body \in {"xpc_error", "proxy_type_mismatch"} : Fail(m, body)
    <3>1. UNCHANGED clientVars
      BY Zenon, <2>6 DEF BadControl, Fail
    <3> QED
      BY Zenon, <1>1, <3>1 DEF clientVars
  <2> QED
    BY Zenon, <2>1, <2>3, <2>4, <2>5, <2>6
<1>3. ASSUME NEW c \in Client, ClientNext(c) PROVE CaptureInv'
  BY Zenon, <1>1, <1>3, ClientCaptures, CaptureStepKeeps
<1>4. CASE HostNext
  <2>1. UNCHANGED clientVars
    BY Zenon, <1>4 DEF HostNext, ReserveRunner, RunReservedSpecimen, ConnectionInvalidated,
       ReplyAndExit, CheckExpiry, LeaseLapses, HostExit, HostCrash, HostGone, Launch
  <2> QED
    BY Zenon, <1>1, <2>1 DEF clientVars
<1>5. CASE UNCHANGED vars
  BY Zenon, <1>1, <1>5 DEF vars, clientVars
<1> QED
  BY Zenon, <1>2, <1>3, <1>4, <1>5 DEF Next

\* A session starts with an empty capture.
LEMMA CaptureInvInit == Init => CaptureInv
<1> SUFFICES ASSUME Init, NEW c \in Client PROVE SessionCapture(phase[c], capture[c])
  BY Zenon DEF CaptureInv
<1>1. phase[c] = "initial" /\ capture[c] = InitCapture
  BY Zenon DEF Init
<1>2. /\ InitCapture.attempts = <<>> /\ InitCapture.clock_available
      /\ InitCapture.acquisition_stop = "local_error" /\ InitCapture.submission = "not_invoked"
      /\ ~InitCapture.runner_reply /\ InitCapture.submission_refusal = None
  BY Zenon DEF InitCapture
<1>3. Len(<<>>) <= AcquisitionAttempts /\ \A i \in 1..Len(<<>>) : FALSE
  BY ONLY AcquisitionAttemptsAssumption
<1>4. Between(InitCapture)
  BY Zenon, <1>2, <1>3 DEF Between, Unstopped
<1>5. SessionCapture("initial", InitCapture)
  BY <1>2, <1>4 DEF SessionCapture
<1> QED
  BY Zenon, <1>1, <1>5

\* Every capture a session can end with passes validate_capture, whatever the
\* number of attempts and wherever a deadline, a clock failure, an XPC error
\* or an inadmissible reply cut it short.
THEOREM CapturesAdmittedHolds == Spec => []CapturesAdmitted
<1>1. CaptureInv => CapturesAdmitted
  BY Zenon DEF CaptureInv, SessionCapture, CapturesAdmitted
<1> QED
  BY <1>1, TypeInit, TypeStep, CaptureInvInit, CaptureInvStep, PTL DEF Spec
=============================================================================
