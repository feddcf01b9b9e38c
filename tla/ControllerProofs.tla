-------------------------- MODULE ControllerProofs --------------------------
(***************************************************************************)
(* What `policy-witness run` reports, for every request, command line,     *)
(* manifest, registry and augment library, whatever is replaced on disk    *)
(* while it runs and however the client and the helper end; and the        *)
(* delivery of a request to a child, for a request of any length, pipes of *)
(* any size and a child that does anything in any order.                   *)
(***************************************************************************)
EXTENDS RunFlow, ChildDelivery, TLAPS

-----------------------------------------------------------------------------
(* The operators of the controller.                                         *)

\* The checks are made one after the other, and each of them finds nothing.
LEMMA NoErrorAt ==
  ASSUME NEW errors, firstOf(errors) = {}, NEW k \in DOMAIN errors,
         \A j \in 1..(k - 1) : errors[j] = {}
  PROVE  errors[k] = {}
  BY Zenon DEF firstOf

LEMMA FirstOfTwo ==
  ASSUME NEW a, NEW b
  PROVE  firstOf(<<a, b>>) = IF a # {} THEN a ELSE b
<1>1. CASE a # {}
  <2>1. {k \in DOMAIN <<a, b>> : \A j \in 1..(k - 1) : <<a, b>>[j] = {}} = {1}
    BY <1>1
  <2> QED
    BY <2>1, <1>1 DEF firstOf
<1>2. CASE a = {}
  <2>1. {k \in DOMAIN <<a, b>> : \A j \in 1..(k - 1) : <<a, b>>[j] = {}} = {1, 2}
    BY <1>2
  <2> QED
    BY <2>1, <1>2 DEF firstOf
<1> QED
  BY <1>1, <1>2

LEMMA FirstOfThree ==
  ASSUME NEW a, NEW b, NEW c
  PROVE  firstOf(<<a, b, c>>) = IF a # {} THEN a ELSE IF b # {} THEN b ELSE c
<1> DEFINE e == <<a, b, c>>
           S == {k \in DOMAIN e : \A j \in 1..(k - 1) : e[j] = {}}
<1>1. CASE a # {}
  <2>1. S = {1}
    BY <1>1
  <2> QED
    BY <2>1, <1>1 DEF firstOf
<1>2. CASE a = {} /\ b # {}
  <2>1. S = {1, 2}
    BY <1>2
  <2> QED
    BY <2>1, <1>2 DEF firstOf
<1>3. CASE a = {} /\ b = {}
  <2>1. S = {1, 2, 3}
    BY <1>3
  <2> QED
    BY <2>1, <1>3 DEF firstOf
<1> QED
  BY <1>1, <1>2, <1>3

-----------------------------------------------------------------------------
(* How a run ends.                                                          *)

\* A capture is admitted when the request was delivered, the client printed a
\* current document and the document is valid.
LEMMA Accepted ==
  ASSUME NEW c, ClientForm(c)
  PROVE  (transport_admission(c) = "accepted") <=>
           (c.delivered /\ c.stdout = "json" /\ c.protocol = "current" /\ c.valid)
  BY DEF ClientForm, transport_admission, capture_json_output, Mistyped

LEMMA Admitted ==
  ASSUME NEW c, failure(c) = {}
  PROVE  transport_admission(c) = "accepted" /\ c.terminal = "runner_reply" /\ c.retained = "whole"
<1>1. transport_admission(c) = "accepted"
  BY DEF failure
<1>2. c.terminal = "runner_reply"
  BY <1>1 DEF failure
<1>3. c.retained = "whole"
  BY <1>1, <1>2 DEF failure
<1> QED
  BY <1>1, <1>2, <1>3

\* An answered run, as PrintEnvelope puts its envelope together.
answered(c, timeout, specimen, policy_check, actor_checks) ==
  LET refused == admit_reply(c)
      outcome == CHOOSE o \in refused : TRUE
      said == runner_outcome(c)
      base == IF refused = {}
              THEN Envelope(said, IF said = "finished" THEN 0 ELSE 1, specimen,
                     IF said = "bad_request" THEN UNION {r.request_failure : r \in runner_result(c)} ELSE {})
              ELSE Envelope(outcome, IF c.delivered THEN 1 ELSE 2, specimen, {})
  IN [base EXCEPT !.timeout_ms = {timeout}, !.runner_client = {c}, !.runner_result = runner_result(c),
        !.diagnostics = (refused = {}), !.policy_check = policy_check,
        !.actor_policy_checks = actor_checks]

\* What the envelope of an answered run says.
LEMMA AnsweredFields ==
  ASSUME NEW c, NEW timeout, NEW specimen, NEW policy_check, NEW checks
  PROVE  LET e == answered(c, timeout, specimen, policy_check, checks)
         IN /\ e.runner_client = {c} /\ e.runner_result = runner_result(c)
            /\ e.policy_check = policy_check /\ e.diagnostics = (admit_reply(c) = {})
            /\ admit_reply(c) = {} => e.exit_code = IF runner_outcome(c) = "finished" THEN 0 ELSE 1
            /\ admit_reply(c) # {} => /\ e.exit_code = IF c.delivered THEN 1 ELSE 2
                                      /\ e.outcome = CHOOSE o \in admit_reply(c) : TRUE
  BY DEF answered, Envelope

LEMMA AnsweredTells ==
  ASSUME NEW c, ClientForm(c), NEW timeout, NEW specimen, NEW policy_check, NEW checks,
         (policy_check # {}) <=> fallback_eligible(c)
  PROVE  tells(answered(c, timeout, specimen, policy_check, checks), {c})
<1> DEFINE e == answered(c, timeout, specimen, policy_check, checks)
<1>1. /\ e.runner_client = {c} /\ e.runner_result = runner_result(c)
      /\ e.policy_check = policy_check /\ e.diagnostics = (admit_reply(c) = {})
      /\ admit_reply(c) = {} => e.exit_code = IF runner_outcome(c) = "finished" THEN 0 ELSE 1
      /\ admit_reply(c) # {} => /\ e.exit_code = IF c.delivered THEN 1 ELSE 2
                                /\ e.outcome = CHOOSE o \in admit_reply(c) : TRUE
  BY AnsweredFields
<1> HIDE DEF e
<1>2. admit_reply(c) =
        IF ~c.delivered THEN {"tool_error"}
        ELSE IF failure(c) # {} THEN failure(c)
        ELSE LET version == {reply_version(r) : r \in runner_result(c)}
             IN IF version = {"unsupported"} THEN {"unsupported_runner_response"}
                ELSE IF version = {"malformed"} THEN {"malformed_runner_response"} ELSE {}
  BY FirstOfThree DEF admit_reply
<1>3. ASSUME admit_reply(c) = {}
      PROVE  /\ c.delivered /\ c.stdout = "json" /\ c.valid /\ c.retained = "whole"
             /\ c.terminal = "runner_reply" /\ runner_result(c) = {c.reply}
             /\ reply_version(c.reply) = "supported"
  <2>1. c.delivered /\ failure(c) = {}
    BY <1>2, <1>3
  <2>2. /\ transport_admission(c) = "accepted" /\ c.terminal = "runner_reply" /\ c.retained = "whole"
    BY <2>1, Admitted
  <2>3. c.stdout = "json" /\ c.valid
    BY <2>2, Accepted
  <2>4. runner_result(c) = {c.reply}
    BY <2>2 DEF runner_result
  <2>5. {reply_version(r) : r \in runner_result(c)} = {reply_version(c.reply)}
    BY <2>4, Zenon
  <2>6. reply_version(c.reply) # "unsupported" /\ reply_version(c.reply) # "malformed"
    BY <1>2, <1>3, <2>1, <2>5
  <2>7. reply_version(c.reply) = "supported"
    BY <2>6 DEF reply_version
  <2> QED
    BY <2>1, <2>2, <2>3, <2>4, <2>7
<1>4. ASSUME admit_reply(c) = {}, runner_outcome(c) = "finished"
      PROVE  c.reply.normalized_outcome = {"finished"} /\ c.reply.schema_version = "current"
  <2>1. runner_result(c) = {c.reply} /\ reply_version(c.reply) = "supported"
    BY <1>3, <1>4
  <2>2. UNION {r.normalized_outcome : r \in runner_result(c)} = c.reply.normalized_outcome
    BY <2>1
  <2>3. c.reply.normalized_outcome # {} /\ "finished" = CHOOSE o \in c.reply.normalized_outcome : TRUE
    BY <1>4, <2>2 DEF runner_outcome
  <2>4. "finished" \in c.reply.normalized_outcome
    BY <2>3
  <2>5. c.reply.normalized_outcome = {"finished"}
    BY <2>4 DEF ClientForm, optional
  <2>6. c.reply.schema_version = "current"
    BY <2>1 DEF reply_version
  <2> QED
    BY <2>5, <2>6
<1>5. e.exit_code = 0 =>
       \E k \in {c} : /\ k.delivered /\ k.stdout = "json" /\ k.valid /\ k.retained = "whole"
                      /\ k.terminal = "runner_reply" /\ e.runner_result = {k.reply}
                      /\ k.reply.schema_version = "current"
                      /\ k.reply.normalized_outcome = {"finished"}
  BY <1>1, <1>3, <1>4
<1>6. e.exit_code = 2 => e.outcome = "tool_error" /\ \A k \in {c} : ~k.delivered
  <2> SUFFICES ASSUME e.exit_code = 2 PROVE e.outcome = "tool_error" /\ ~c.delivered
    OBVIOUS
  <2>1. admit_reply(c) # {} /\ ~c.delivered
    BY <1>1
  <2>2. admit_reply(c) = {"tool_error"}
    BY <1>2, <2>1
  <2> QED
    BY <1>1, <2>1, <2>2
<1>7. e.diagnostics => /\ \E k \in {c} : k.delivered /\ k.valid
                       /\ \A r \in e.runner_result : reply_version(r) = "supported"
  <2> SUFFICES ASSUME e.diagnostics
               PROVE  c.delivered /\ c.valid /\ \A r \in e.runner_result : reply_version(r) = "supported"
    BY Zenon
  <2>1. admit_reply(c) = {}
    BY ONLY Zenon, e.diagnostics, <1>1
  <2>2. c.delivered /\ c.valid /\ runner_result(c) = {c.reply} /\ reply_version(c.reply) = "supported"
    BY Zenon, <2>1, <1>3
  <2> QED
    BY ONLY <1>1, <2>2
<1>8. (e.policy_check # {}) =
       \E k \in {c} : k.delivered /\ k.stdout = "json" /\ k.protocol = "current" /\ k.valid
                      /\ k.terminal = "xpc_error"
  <2>1. fallback_eligible(c) <=> /\ c.delivered /\ c.stdout = "json" /\ c.protocol = "current" /\ c.valid
                                 /\ c.terminal = "xpc_error"
    BY Zenon, Accepted DEF fallback_eligible
  <2>2. (e.policy_check # {}) <=> fallback_eligible(c)
    <3>1. e.policy_check = policy_check
      BY ONLY <1>1, Zenon
    <3> QED
      BY ONLY <3>1, (policy_check # {}) <=> fallback_eligible(c), Zenon
  <2> QED
    BY ONLY <2>1, <2>2, Zenon
<1> QED
  BY Zenon, <1>1, <1>5, <1>6, <1>7, <1>8 DEF tells, e

\* A run that ends before the client is invoked.
LEMMA Unanswered ==
  ASSUME NEW e, e.runner_client = {}, e.runner_result = {}, e.diagnostics = FALSE, e.policy_check = {},
         \/ e.outcome = "tool_error" /\ e.exit_code = 2 /\ e.request_failure = {}
         \/ e.outcome = "bad_request" /\ e.exit_code = 1 /\ e.request_failure # {}
  PROVE  tells(e, {})
<1>1. e.exit_code # 0 /\ (e.exit_code = 2 => e.outcome = "tool_error")
  OBVIOUS
<1>2. /\ (e.request_failure # {}) = (e.outcome = "bad_request")
      /\ (e.exit_code = 1) = (e.outcome = "bad_request")
  OBVIOUS
<1> QED
  BY Zenon, <1>1, <1>2 DEF tells

LEMMA UnansweredTells ==
  ASSUME NEW specimen, NEW code, NEW timeout
  PROVE  /\ tells(Envelope("tool_error", 2, specimen, {}), {})
         /\ tells([Envelope("tool_error", 2, specimen, {}) EXCEPT !.timeout_ms = timeout], {})
         /\ code # {} => tells([Envelope("bad_request", 1, specimen, code) EXCEPT !.timeout_ms = timeout], {})
<1> DEFINE t == Envelope("tool_error", 2, specimen, {})
           u == [t EXCEPT !.timeout_ms = timeout]
           b == [Envelope("bad_request", 1, specimen, code) EXCEPT !.timeout_ms = timeout]
<1>1. /\ t.runner_client = {} /\ t.runner_result = {} /\ t.diagnostics = FALSE /\ t.policy_check = {}
      /\ t.outcome = "tool_error" /\ t.exit_code = 2 /\ t.request_failure = {}
  BY Zenon DEF Envelope
<1>2. /\ u.runner_client = {} /\ u.runner_result = {} /\ u.diagnostics = FALSE /\ u.policy_check = {}
      /\ u.outcome = "tool_error" /\ u.exit_code = 2 /\ u.request_failure = {}
  BY Zenon DEF Envelope
<1>3. /\ b.runner_client = {} /\ b.runner_result = {} /\ b.diagnostics = FALSE /\ b.policy_check = {}
      /\ b.outcome = "bad_request" /\ b.exit_code = 1 /\ b.request_failure = code
  BY Zenon DEF Envelope
<1> HIDE DEF t, u, b
<1>4. tells(t, {})
  BY Zenon, <1>1, Unanswered
<1>5. tells(u, {})
  BY Zenon, <1>2, Unanswered
<1>6. code # {} => tells(b, {})
  BY Zenon, <1>3, Unanswered
<1> QED
  BY Zenon, <1>4, <1>5, <1>6 DEF t, u, b

-----------------------------------------------------------------------------
(* Every field is there, and a step says which of them it changes.          *)

RunFields ==
  {"pc", "args", "verify", "app_root", "now", "timebase", "disk", "replaced", "parsed", "manifest",
   "app_provenance", "submitted", "request", "consulted", "target", "refusal", "actor_refusal",
   "policy", "actors", "specimen", "held", "deadline", "client", "policy_check", "checked", "envelope"}

\* Where the client has not been invoked yet, and where it has.
Before == {"start", "helped", "manifest", "request", "select", "augment", "actors", "observe", "invoke"}
After == {"answered", "checked"}

\* The run so far: nothing is printed before the end, the client is the one that
\* was invoked, and the fallback check has run exactly when it was due.
EndInv ==
  /\ DOMAIN rf = RunFields
  /\ rf.pc \in Before \cup After \cup {"printed"}
  /\ rf.pc # "printed" => rf.envelope = {}
  /\ rf.pc \in Before => rf.client = {}
  /\ rf.pc \in After => \E c \in Clients : rf.client = {c}
  /\ rf.pc # "checked" /\ rf.pc # "printed" => rf.policy_check = {}
  /\ rf.pc = "checked" => \A c \in rf.client : (rf.policy_check # {}) <=> fallback_eligible(c)
  /\ OutcomeIsTrue

LEMMA InitEnd == rf \in RunStarts => EndInv
  BY DEF RunStarts, EndInv, RunFields, Before, After, OutcomeIsTrue

\* A step that prints the envelope of a run that invoked no client.
LEMMA PrintEnd ==
  ASSUME EndInv, rf.pc \in Before, NEW e, tells(e, {}), rf' = print(e)
  PROVE  EndInv'
<1>1. rf.client = {} /\ DOMAIN rf = RunFields
  BY DEF EndInv
<1>2. DOMAIN rf' = RunFields /\ rf'.pc = "printed" /\ rf'.envelope = {e} /\ rf'.client = rf.client
  BY <1>1 DEF print, RunFields
<1> QED
  BY Zenon, <1>1, <1>2 DEF EndInv, OutcomeIsTrue, Before, After

\* A step that changes none of what the invariant is about, before the client is invoked.
LEMMA MoveEnd ==
  ASSUME EndInv, rf.pc \in Before, DOMAIN rf' = RunFields, rf'.pc \in Before,
         rf'.envelope = rf.envelope, rf'.client = rf.client, rf'.policy_check = rf.policy_check
  PROVE  EndInv'
  BY Zenon DEF EndInv, OutcomeIsTrue, Before, After

LEMMA NextEnd == EndInv /\ [NextRun]_rf => EndInv'
<1> SUFFICES ASSUME EndInv, [NextRun]_rf PROVE EndInv'
  OBVIOUS
<1>0. DOMAIN rf = RunFields
  BY DEF EndInv
<1>1. CASE ParseArgument
  <2>1. /\ rf.pc = "start" /\ DOMAIN rf' = RunFields /\ rf'.pc = rf.pc
        /\ rf'.envelope = rf.envelope /\ rf'.client = rf.client /\ rf'.policy_check = rf.policy_check
    BY <1>0, <1>1 DEF ParseArgument, at, RunFields
  <2> QED
    BY <2>1, MoveEnd, Zenon DEF Before
<1>2. CASE ParseArguments
  <2> DEFINE p == parsed_arguments(rf.parsed)
  <2>1. rf.pc \in Before /\ rf.pc = "start"
    BY <1>2 DEF ParseArguments, at, Before
  <2>2. \/ rf' = [rf EXCEPT !.pc = "helped"] \/ rf' = [rf EXCEPT !.pc = "manifest", !.parsed = p]
        \/ \E specimen : rf' = print(Envelope("tool_error", 2, specimen, {}))
    BY Zenon, <1>2 DEF ParseArguments
  <2>3. CASE \E specimen : rf' = print(Envelope("tool_error", 2, specimen, {}))
    BY Zenon, <2>1, <2>3, UnansweredTells, PrintEnd
  <2>4. CASE rf' = [rf EXCEPT !.pc = "helped"] \/ rf' = [rf EXCEPT !.pc = "manifest", !.parsed = p]
    <3>1. /\ DOMAIN rf' = RunFields /\ rf'.pc \in {"helped", "manifest"}
          /\ rf'.envelope = rf.envelope /\ rf'.client = rf.client /\ rf'.policy_check = rf.policy_check
      BY Zenon, <1>0, <2>4 DEF RunFields
    <3> QED
      BY <2>1, <3>1, MoveEnd, Zenon DEF Before
  <2> QED
    BY Zenon, <2>2, <2>3, <2>4
<1>3. CASE LoadManifest
  <2>1. /\ rf.pc = "manifest" /\ DOMAIN rf' = RunFields /\ rf'.pc = "request"
        /\ rf'.envelope = rf.envelope /\ rf'.client = rf.client /\ rf'.policy_check = rf.policy_check
    BY <1>0, <1>3 DEF LoadManifest, at, RunFields
  <2> QED
    BY <2>1, MoveEnd, Zenon DEF Before
<1>4. CASE ReadRequest
  <2>1. rf.pc \in Before /\ rf.pc = "request"
    BY <1>4 DEF ReadRequest, at, Before
  <2>2. \/ \E specimen : rf' = tool_error(specimen)
        \/ \E specimen, code : code # {} /\ rf' = bad_request(specimen, code)
        \/ \E read, request : rf' = [rf EXCEPT !.pc = "select", !.submitted = read, !.request = request]
    BY Zenon, <1>4 DEF ReadRequest
  <2>3. CASE \E specimen : rf' = tool_error(specimen)
    BY Zenon, <2>1, <2>3, UnansweredTells, PrintEnd DEF tool_error
  <2>4. CASE \E specimen, code : code # {} /\ rf' = bad_request(specimen, code)
    BY Zenon, <2>1, <2>4, UnansweredTells, PrintEnd DEF bad_request
  <2>5. CASE \E read, request : rf' = [rf EXCEPT !.pc = "select", !.submitted = read, !.request = request]
    <3>1. /\ DOMAIN rf' = RunFields /\ rf'.pc = "select"
          /\ rf'.envelope = rf.envelope /\ rf'.client = rf.client /\ rf'.policy_check = rf.policy_check
      BY <1>0, <2>5 DEF RunFields
    <3> QED
      BY <2>1, <3>1, MoveEnd, Zenon DEF Before
  <2> QED
    BY Zenon, <2>2, <2>3, <2>4, <2>5
<1>5. CASE SelectRunner
  <2>1. /\ rf.pc = "select" /\ DOMAIN rf' = RunFields /\ rf'.pc = "augment"
        /\ rf'.envelope = rf.envelope /\ rf'.client = rf.client /\ rf'.policy_check = rf.policy_check
    BY <1>0, <1>5 DEF SelectRunner, at, RunFields
  <2> QED
    BY <2>1, MoveEnd, Zenon DEF Before
<1>6. CASE ResolveAugments
  <2>1. /\ rf.pc = "augment" /\ DOMAIN rf' = RunFields /\ rf'.pc = "actors"
        /\ rf'.envelope = rf.envelope /\ rf'.client = rf.client /\ rf'.policy_check = rf.policy_check
    BY <1>0, <1>6 DEF ResolveAugments, at, RunFields
  <2> QED
    BY <2>1, MoveEnd, Zenon DEF Before
<1>7. CASE ResolveActor
  <2> DEFINE i == Len(rf.actors) + 1
             actor == rf.request.actors[i]
             r == resolvePolicy(actor.policy, rf.disk.augments)
  <2>1. /\ rf.pc = "actors"
        /\ \/ rf' = [rf EXCEPT !.pc = "observe"]
           \/ rf' = [rf EXCEPT !.request = [@ EXCEPT !.actors[i].policy = r.policy],
                       !.actor_refusal = r.code, !.actors = Append(@, actor_policy_dossier(actor, r))]
    BY Zenon, <1>7 DEF ResolveActor, at
  <2> HIDE DEF i, actor, r
  <2>2. /\ DOMAIN rf' = RunFields /\ rf'.pc \in {"actors", "observe"}
        /\ rf'.envelope = rf.envelope /\ rf'.client = rf.client /\ rf'.policy_check = rf.policy_check
    BY Zenon, <1>0, <2>1 DEF RunFields
  <2> QED
    BY <2>1, <2>2, MoveEnd, Zenon DEF Before
<1>8. CASE ObserveBinaries
  <2>1. rf.pc \in Before /\ rf.pc = "observe"
    BY <1>8 DEF ObserveBinaries, at, Before
  <2>2. \/ \E specimen : rf' = tool_error(specimen)
        \/ \E specimen, code : code # {} /\ rf' = bad_request(specimen, code)
        \/ \E specimen : rf' = [rf EXCEPT !.pc = "invoke", !.specimen = specimen, !.held = hold(rf.request)]
    BY Zenon, <1>8 DEF ObserveBinaries
  <2>3. CASE \E specimen : rf' = tool_error(specimen)
    BY Zenon, <2>1, <2>3, UnansweredTells, PrintEnd DEF tool_error
  <2>4. CASE \E specimen, code : code # {} /\ rf' = bad_request(specimen, code)
    BY Zenon, <2>1, <2>4, UnansweredTells, PrintEnd DEF bad_request
  <2>5. CASE \E specimen : rf' = [rf EXCEPT !.pc = "invoke", !.specimen = specimen, !.held = hold(rf.request)]
    <3>1. /\ DOMAIN rf' = RunFields /\ rf'.pc = "invoke"
          /\ rf'.envelope = rf.envelope /\ rf'.client = rf.client /\ rf'.policy_check = rf.policy_check
      BY <1>0, <2>5 DEF RunFields
    <3> QED
      BY <2>1, <3>1, MoveEnd, Zenon DEF Before
  <2> QED
    BY Zenon, <2>2, <2>3, <2>4, <2>5
<1>9. CASE InvokeClient
  <2>1. rf.pc \in Before /\ rf.pc = "invoke"
    BY <1>9 DEF InvokeClient, at, Before
  <2>2. PICK c \in Clients :
          rf' = IF ~c.launched THEN tool_error(rf.specimen)
                ELSE [rf EXCEPT !.pc = "answered", !.client = {c},
                        !.deadline = deadline_ticks(rf.now, rf.parsed.timeout_ms, rf.timebase)]
    BY Zenon, <1>9 DEF InvokeClient
  <2>3. CASE ~c.launched
    BY Zenon, <2>1, <2>2, <2>3, UnansweredTells, PrintEnd DEF tool_error
  <2>4. CASE c.launched
    <3>1. /\ DOMAIN rf' = RunFields /\ rf'.pc = "answered" /\ rf'.client = {c}
          /\ rf'.envelope = rf.envelope /\ rf'.policy_check = rf.policy_check
      BY <1>0, <2>2, <2>4 DEF RunFields
    <3>2. rf.envelope = {} /\ rf.policy_check = {}
      BY <2>1 DEF EndInv
    <3> QED
      BY Zenon, <3>1, <3>2 DEF EndInv, OutcomeIsTrue, Before, After
  <2> QED
    BY <2>3, <2>4
<1>10. CASE FallbackCheck
  <2>1. rf.pc = "answered" /\ rf.envelope = {}
    BY <1>10 DEF FallbackCheck, at
  <2>2. PICK c \in Clients : rf.client = {c}
    BY <2>1 DEF EndInv, After
  <2>3. fallback_eligible(c)
    BY <1>10, <2>2 DEF FallbackCheck
  <2>4. /\ DOMAIN rf' = RunFields /\ rf'.pc = "checked" /\ rf'.client = {c}
        /\ rf'.envelope = {} /\ rf'.policy_check # {}
    BY <1>0, <1>10, <2>1, <2>2 DEF FallbackCheck, RunFields
  <2> QED
    BY Zenon, <2>3, <2>4 DEF EndInv, OutcomeIsTrue, Before, After
<1>11. CASE NoFallback
  <2>1. rf.pc = "answered" /\ rf.envelope = {}
    BY <1>11 DEF NoFallback, at
  <2>2. PICK c \in Clients : rf.client = {c}
    BY <2>1 DEF EndInv, After
  <2>3. ~fallback_eligible(c)
    BY <1>11, <2>2 DEF NoFallback
  <2>4. rf.policy_check = {}
    BY <2>1 DEF EndInv
  <2>5. /\ DOMAIN rf' = RunFields /\ rf'.pc = "checked" /\ rf'.client = {c}
        /\ rf'.envelope = {} /\ rf'.policy_check = {}
    BY <1>0, <1>11, <2>1, <2>2, <2>4 DEF NoFallback, RunFields
  <2> QED
    BY Zenon, <2>3, <2>5 DEF EndInv, OutcomeIsTrue, Before, After
<1>12. CASE PrintEnvelope
  <2>1. rf.pc = "checked"
    BY <1>12 DEF PrintEnvelope, at
  <2>2. PICK c \in Clients : rf.client = {c}
    BY <2>1 DEF EndInv, After
  <2> DEFINE e == answered(c, rf.parsed.timeout_ms, rf.specimen, rf.policy_check,
                           {k.actors : k \in rf.checked})
  <2>3. rf' = print(e)
    BY Zenon, <1>12, <2>2 DEF PrintEnvelope, answered, complete_execution
  <2>4. tells(e, {c})
    <3>1. (rf.policy_check # {}) <=> fallback_eligible(c)
      BY Zenon, <2>1, <2>2 DEF EndInv
    <3>2. ClientForm(c)
      BY InputAssumption
    <3> QED
      BY Zenon, <3>1, <3>2, AnsweredTells
  <2> HIDE DEF e
  <2>5. DOMAIN rf' = RunFields /\ rf'.pc = "printed" /\ rf'.envelope = {e} /\ rf'.client = {c}
    BY <1>0, <2>2, <2>3 DEF print, RunFields
  <2> QED
    BY Zenon, <2>4, <2>5 DEF EndInv, OutcomeIsTrue, Before, After
<1>13. CASE ReplaceFile
  <2>1. /\ rf.pc \in Before /\ DOMAIN rf' = RunFields /\ rf'.pc = rf.pc
        /\ rf'.envelope = rf.envelope /\ rf'.client = rf.client /\ rf'.policy_check = rf.policy_check
    BY <1>0, <1>13 DEF ReplaceFile, RunFields, Before
  <2> QED
    BY <2>1, MoveEnd, Zenon
<1>14. CASE UNCHANGED rf
  BY Zenon, <1>14 DEF EndInv, OutcomeIsTrue
<1> QED
  BY Zenon, <1>1, <1>2, <1>3, <1>4, <1>5, <1>6, <1>7, <1>8, <1>9, <1>10, <1>11, <1>12, <1>13, <1>14
  DEF NextRun

\* The envelope and the exit code of policy-witness run say how the run ended, for
\* whatever the run reads and however the client and the compiler end.
THEOREM OutcomeIsTrueHolds == RunSpec => []OutcomeIsTrue
<1>1. EndInv => OutcomeIsTrue
  BY DEF EndInv
<1> QED
  BY InitEnd, NextEnd, <1>1, PTL DEF RunSpec

-----------------------------------------------------------------------------
(* The arguments, and the selector they and the request make.               *)

RunnerModes == {{}, {"standard"}, {"byoxpc"}}

ParsedForm(p) ==
  /\ DOMAIN p = {"kind", "request_path", "timeout_ms", "runner_mode_arg", "awaiting"}
  /\ p.timeout_ms \in Nat /\ p.runner_mode_arg \in RunnerModes

LEMMA ArgumentForm ==
  ASSUME NEW p, ParsedForm(p), NEW arg
  PROVE  ParsedForm(argument(p, arg)) /\ ParsedForm(parsed_arguments(p))
<1>1. ParsedForm(argument(p, arg))
  <2>1. CASE p.awaiting = "--timeout-ms"
    BY <2>1 DEF argument, ParsedForm
  <2>2. CASE p.awaiting = "--runner-mode"
    BY <2>2 DEF argument, ParsedForm, RunnerModes
  <2>3. CASE p.awaiting # "--timeout-ms" /\ p.awaiting # "--runner-mode"
    BY <2>3 DEF argument, ParsedForm
  <2> QED
    BY Zenon, <2>1, <2>2, <2>3
<1>2. ParsedForm(parsed_arguments(p))
  BY DEF parsed_arguments, ParsedForm
<1> QED
  BY <1>1, <1>2

\* The selector of a request, with --runner-mode over what the request says.
chosen(request, mode) ==
  [runner_id |-> over(request.runner_id, nested(request).id),
   runner_service |-> over(request.runner_service, nested(request).service),
   required_entitlements |->
     UNION over(request.required_entitlements, nested(request).required_entitlements),
   mode |-> over(over(request.runner_mode, nested(request).mode), mode)]

LEMMA NestedForm ==
  ASSUME NEW q, RequestForm(q)
  PROVE  DOMAIN nested(q) = DOMAIN NoRunner /\ RunnerForm(nested(q))
  BY DEF RequestForm, RunnerForm, nested, NoRunner, optional

injected(q, mode) == IF mode = {} THEN q ELSE inject_runner_mode(q, mode).request

LEMMA InjectedFields ==
  ASSUME NEW q, RequestForm(q), NEW mode
  PROVE  /\ DOMAIN injected(q, mode) = DOMAIN q
         /\ \A f \in DOMAIN q \ {"runner"} : injected(q, mode)[f] = q[f]
         /\ mode # {} => injected(q, mode).runner = {[nested(q) EXCEPT !.mode = mode]}
  BY DEF injected, inject_runner_mode, RequestForm, SELECTOR_FIELDS, NoSelector

LEMMA InjectedSelector ==
  ASSUME NEW q, RequestForm(q), NEW mode
  PROVE  selectorOf(injected(q, mode)) = chosen(q, mode)
<1>1. CASE mode = {}
  BY Zenon, <1>1 DEF selectorOf, chosen, injected, over
<1>2. CASE mode # {}
  <2> DEFINE j == injected(q, mode)
             r == nested(q)
  <2>1. j.runner = {[r EXCEPT !.mode = mode]}
    BY Zenon, <1>2, InjectedFields
  <2>2. /\ j.runner_id = q.runner_id /\ j.runner_service = q.runner_service
        /\ j.required_entitlements = q.required_entitlements /\ j.runner_mode = q.runner_mode
    BY InjectedFields DEF RequestForm, SELECTOR_FIELDS, NoSelector
  <2> HIDE DEF j
  <2>3. nested(j) = [r EXCEPT !.mode = mode]
    BY <2>1 DEF nested
  <2>4. DOMAIN r = DOMAIN NoRunner
    BY NestedForm
  <2> HIDE DEF r
  <2>5. /\ nested(j).id = r.id /\ nested(j).service = r.service /\ nested(j).mode = mode
        /\ nested(j).required_entitlements = r.required_entitlements
    BY <2>3, <2>4 DEF NoRunner
  <2>6. over(over(q.runner_mode, r.mode), mode) = mode /\ over(q.runner_mode, mode) = mode
    BY <1>2 DEF over
  <2>7. selectorOf(j) = chosen(q, mode)
    BY Zenon, <2>2, <2>5, <2>6 DEF selectorOf, chosen, r
  <2> QED
    BY Zenon, <2>7 DEF j
<1> QED
  BY <1>1, <1>2

\* A request whose selector is accepted names a known mode or none.
LEMMA KnownModes ==
  ASSUME NEW q, parse_runner_selector_value(q) = {}
  PROVE  selectorOf(q).mode \subseteq {"standard", "byoxpc"}
<1> DEFINE r == nested(q)
           e1 == selector_string(q.runner_id)
           e2 == selector_string(q.runner_service)
           e3 == selector_entitlements(q.required_entitlements)
           e4 == parse_runner_mode(q.runner_mode)
           e5 == IF r.object THEN {} ELSE {"type_mismatch"}
           e6 == IF r.unknown THEN {"unknown_field"} ELSE {}
           e7 == selector_string(r.id)
           e8 == selector_string(r.service)
           e9 == selector_entitlements(r.required_entitlements)
           e10 == parse_runner_mode(r.mode)
           e11 == selector_problem(selectorOf(q))
           e == <<e1, e2, e3, e4, e5, e6, e7, e8, e9, e10, e11>>
<1>1. firstOf(e) = {}
  BY Zenon DEF parse_runner_selector_value
<1> HIDE DEF r, e1, e2, e3, e4, e5, e6, e7, e8, e9, e10, e11
<1>2. /\ DOMAIN e = 1..11 /\ e[4] = e4 /\ e[10] = e10
  OBVIOUS
<1> HIDE DEF e
<1>3. /\ e[1] = {} /\ e[2] = {} /\ e[3] = {} /\ e[4] = {} /\ e[5] = {} /\ e[6] = {} /\ e[7] = {}
      /\ e[8] = {} /\ e[9] = {} /\ e[10] = {}
  <2>0. \A k \in 1..11 : (\A j \in 1..(k - 1) : e[j] = {}) => e[k] = {}
    BY <1>1, <1>2, NoErrorAt
  <2>1. e[1] = {} BY <2>0
  <2>2. e[2] = {} BY <2>0, <2>1
  <2>3. e[3] = {} BY <2>0, <2>1, <2>2
  <2>4. e[4] = {} BY <2>0, <2>1, <2>2, <2>3
  <2>5. e[5] = {} BY <2>0, <2>1, <2>2, <2>3, <2>4
  <2>6. e[6] = {} BY <2>0, <2>1, <2>2, <2>3, <2>4, <2>5
  <2>7. e[7] = {} BY <2>0, <2>1, <2>2, <2>3, <2>4, <2>5, <2>6
  <2>8. e[8] = {} BY <2>0, <2>1, <2>2, <2>3, <2>4, <2>5, <2>6, <2>7
  <2>9. e[9] = {} BY <2>0, <2>1, <2>2, <2>3, <2>4, <2>5, <2>6, <2>7, <2>8
  <2>10. e[10] = {} BY <2>0, <2>1, <2>2, <2>3, <2>4, <2>5, <2>6, <2>7, <2>8, <2>9
  <2> QED
    BY <2>1, <2>2, <2>3, <2>4, <2>5, <2>6, <2>7, <2>8, <2>9, <2>10
<1>4. parse_runner_mode(q.runner_mode) = {} /\ parse_runner_mode(nested(q).mode) = {}
  BY Zenon, <1>2, <1>3 DEF e4, e10, r
<1>5. q.runner_mode \subseteq {"standard", "byoxpc"} /\ nested(q).mode \subseteq {"standard", "byoxpc"}
  BY <1>4 DEF parse_runner_mode
<1> QED
  BY Zenon, <1>5 DEF selectorOf, over

-----------------------------------------------------------------------------
(* The target.                                                              *)

\* What the selected target has of the selector and of the registry.
AsSelected(t, s, g) ==
  /\ s.mode \subseteq {t.kind}
  /\ s.required_entitlements # {} =>
       \E w \in t.worker : ~w.error /\ s.required_entitlements \subseteq w.granted
  /\ (t.registry_id = {}) = (s.runner_id \cup s.runner_service = {})
  /\ t.registry_id # {} =>
       \E i \in DOMAIN g.runners :
         LET record == g.runners[i]
         IN /\ record.state = "installed" /\ record.current_protocol
            /\ {record.id} = t.registry_id /\ record.service_name = t.service_name
            /\ IF s.runner_id # {} THEN s.runner_id = {record.id}
               ELSE s.runner_service = {record.service_name}
            /\ (record.scope = "system") = (t.connection = "mach_privileged")
            /\ record.worker = t.worker

\* Of a registry the first record that has the id, or the service, is the only one found.
LEMMA FoundRecord ==
  ASSUME NEW g, RegistryForm(g), NEW s, NEW record \in find(g, s)
  PROVE  /\ \E i \in DOMAIN g.runners : g.runners[i] = record
         /\ IF s.runner_id # {} THEN record.id \in s.runner_id ELSE record.service_name \in s.runner_service
         /\ find(g, s) = {record}
<1> DEFINE is(r) == IF s.runner_id # {} THEN r.id \in s.runner_id ELSE r.service_name \in s.runner_service
           first == {k \in DOMAIN g.runners : is(g.runners[k]) /\ \A j \in 1..(k - 1) : ~is(g.runners[j])}
<1>1. find(g, s) = {g.runners[i] : i \in first}
  BY Zenon DEF find
<1>2. PICK i \in first : record = g.runners[i]
  BY Zenon, <1>1
<1>3. DOMAIN g.runners = 1..Len(g.runners) /\ Len(g.runners) \in Nat
  BY DEF RegistryForm, array
<1>4. ASSUME NEW k \in first PROVE k = i
  <2>1. /\ k \in 1..Len(g.runners) /\ is(g.runners[k]) /\ \A j \in 1..(k - 1) : ~is(g.runners[j])
        /\ i \in 1..Len(g.runners) /\ is(g.runners[i]) /\ \A j \in 1..(i - 1) : ~is(g.runners[j])
    BY Zenon, <1>2, <1>3, <1>4
  <2> HIDE DEF is
  <2>2. ~(k < i)
    BY ONLY <1>3, <2>1
  <2>3. ~(i < k)
    BY ONLY <1>3, <2>1
  <2> QED
    BY ONLY <1>3, <2>1, <2>2, <2>3
<1>5. find(g, s) = {record}
  BY Zenon, <1>1, <1>2, <1>4
<1> QED
  BY Zenon, <1>2, <1>5

LEMMA ExternalSelected ==
  ASSUME NEW g, RegistryForm(g), NEW s, optional(s.runner_id), optional(s.runner_service),
         needs_external(s), NEW record \in find_external_record(g, s),
         NEW t \in resolve_external_target(record, s)
  PROVE  AsSelected(t, s, g)
<1>1. record \in find(g, s) /\ record.state # "pending"
  BY Zenon DEF find_external_record
<1>2. PICK i \in DOMAIN g.runners : g.runners[i] = record
  BY Zenon, <1>1, FoundRecord
<1>3. IF s.runner_id # {} THEN record.id \in s.runner_id ELSE record.service_name \in s.runner_service
  BY Zenon, <1>1, FoundRecord
<1>4. IF s.runner_id # {} THEN s.runner_id = {record.id} ELSE s.runner_service = {record.service_name}
  BY <1>3 DEF optional
<1>5. record.state = "installed"
  BY <1>1, <1>2 DEF RegistryForm
<1>6. /\ record.current_protocol /\ s.mode \subseteq {"byoxpc"}
      /\ enforce_required_entitlements(s.required_entitlements, record.worker)
      /\ t = Target("byoxpc", IF record.scope = "system" THEN "mach_privileged" ELSE "mach_service",
                    record.service_name, record.bundle, {record.id}, record.worker)
  BY DEF resolve_external_target
<1>7. /\ t.kind = "byoxpc" /\ t.worker = record.worker /\ t.registry_id = {record.id}
      /\ t.service_name = record.service_name
      /\ (record.scope = "system") = (t.connection = "mach_privileged")
  BY <1>6 DEF Target
<1>8. s.required_entitlements # {} =>
        \E w \in t.worker : ~w.error /\ s.required_entitlements \subseteq w.granted
  BY Zenon, <1>6, <1>7 DEF enforce_required_entitlements
<1>9. t.registry_id # {} /\ s.runner_id \cup s.runner_service # {}
  BY Zenon, <1>7 DEF needs_external
<1>10. /\ g.runners[i].state = "installed" /\ g.runners[i].current_protocol
       /\ {g.runners[i].id} = t.registry_id /\ g.runners[i].service_name = t.service_name
       /\ IF s.runner_id # {} THEN s.runner_id = {g.runners[i].id}
          ELSE s.runner_service = {g.runners[i].service_name}
       /\ (g.runners[i].scope = "system") = (t.connection = "mach_privileged")
       /\ g.runners[i].worker = t.worker
  BY ONLY <1>2, <1>4, <1>5, <1>6, <1>7, Zenon
<1>11. (t.registry_id = {}) = (s.runner_id \cup s.runner_service = {}) /\ s.mode \subseteq {t.kind}
  BY ONLY <1>6, <1>7, <1>9, Zenon
<1> QED
  BY ONLY <1>2, <1>8, <1>10, <1>11, Zenon DEF AsSelected

LEMMA BuiltinSelected ==
  ASSUME NEW m, NEW g, NEW s, s.mode \subseteq {"standard", "byoxpc"}, selector_problem(s) = {},
         ~needs_external(s), NEW t \in builtin_runner_target(m),
         enforce_required_entitlements(s.required_entitlements, t.worker)
  PROVE  AsSelected(t, s, g)
<1>1. t.kind = "standard" /\ t.registry_id = {}
  <2>1. PICK name, worker : t = Target("standard", "xpc_service", name, "app", {}, worker)
    BY Zenon DEF builtin_runner_target
  <2> QED
    BY Zenon, <2>1 DEF Target
<1>2. s.mode \subseteq {"standard"}
  BY DEF selector_problem
<1>3. s.required_entitlements # {} =>
        \E w \in t.worker : ~w.error /\ s.required_entitlements \subseteq w.granted
  BY Zenon DEF enforce_required_entitlements
<1>4. s.runner_id \cup s.runner_service = {}
  BY Zenon DEF needs_external
<1> QED
  BY Zenon, <1>1, <1>2, <1>3, <1>4 DEF AsSelected

\* At most one target, and it is what the selector asks for.
LEMMA TargetSelected ==
  ASSUME NEW m, ManifestForm(m), NEW g, RegistryForm(g), NEW s, optional(s.runner_id),
         optional(s.runner_service), s.mode \subseteq {"standard", "byoxpc"},
         NEW t \in resolve_runner_target_with_registry(m, g, s)
  PROVE  AsSelected(t, s, g) /\ resolve_runner_target_with_registry(m, g, s) = {t}
<1>1. selector_problem(s) = {}
  BY Zenon DEF resolve_runner_target_with_registry
<1>2. CASE ~needs_external(s)
  <2>1. resolve_runner_target_with_registry(m, g, s) =
          {u \in builtin_runner_target(m) : enforce_required_entitlements(s.required_entitlements, u.worker)}
    BY Zenon, <1>1, <1>2 DEF resolve_runner_target_with_registry
  <2>2. t \in builtin_runner_target(m) /\ enforce_required_entitlements(s.required_entitlements, t.worker)
    BY Zenon, <2>1
  <2>3. AsSelected(t, s, g)
    BY Zenon, <1>1, <1>2, <2>2, BuiltinSelected
  <2>4. ASSUME NEW u \in builtin_runner_target(m) PROVE u = t
    <3> DEFINE names == (UNION {e.bundle_id : e \in unique_typed_entry(m, "service")}) \ {""}
               target(name) == Target("standard", "xpc_service", name, "app", {}, {helper_entitlements(m, "worker")})
    <3>1. builtin_runner_target(m) = {target(name) : name \in names}
      BY Zenon DEF builtin_runner_target
    <3> DEFINE found == unique_typed_entry(m, "service")
               entry == m.entries["service"][1]
    <3>2. found \in {{}, {entry}}
      BY Zenon DEF unique_typed_entry
    <3>3. found # {} => 1 \in DOMAIN m.entries["service"] /\ optional(entry.bundle_id)
      <4> SUFFICES ASSUME found # {} PROVE 1 \in DOMAIN m.entries["service"] /\ optional(entry.bundle_id)
        OBVIOUS
      <4>1. Len(m.entries["service"]) = 1
        BY Zenon DEF unique_typed_entry
      <4>2. 1 \in DOMAIN m.entries["service"]
        BY <4>1 DEF ManifestForm, array, Roles
      <4> QED
        BY <4>2 DEF ManifestForm, Roles
    <3> HIDE DEF found, entry
    <3>4. \A a, b \in names : a = b
      BY Zenon, <3>2, <3>3 DEF optional, found
    <3> QED
      BY Zenon, <2>2, <2>4, <3>1, <3>4
  <2>5. resolve_runner_target_with_registry(m, g, s) = {t}
    BY Zenon, <2>1, <2>2, <2>4
  <2> QED
    BY <2>3, <2>5
<1>3. CASE needs_external(s)
  <2>1. resolve_runner_target_with_registry(m, g, s) =
          UNION {resolve_external_target(r, s) : r \in find_external_record(g, s)}
    BY Zenon, <1>1, <1>3 DEF resolve_runner_target_with_registry
  <2>2. PICK record \in find_external_record(g, s) : t \in resolve_external_target(record, s)
    BY Zenon, <2>1
  <2>3. AsSelected(t, s, g)
    BY Zenon, <1>3, <2>2, ExternalSelected
  <2>4. find_external_record(g, s) = {record}
    <3>1. record \in find(g, s) /\ find_external_record(g, s) \subseteq find(g, s)
      BY Zenon DEF find_external_record
    <3>2. find(g, s) = {record}
      BY Zenon, <3>1, FoundRecord
    <3> QED
      BY ONLY <3>1, <3>2, <2>2, Zenon
  <2>5. resolve_external_target(record, s) = {t}
    BY Zenon, <2>2 DEF resolve_external_target
  <2>6. UNION {resolve_external_target(r, s) : r \in find_external_record(g, s)} = {t}
    BY Zenon, <2>4, <2>5
  <2> QED
    BY <2>1, <2>3, <2>6
<1> QED
  BY <1>2, <1>3

-----------------------------------------------------------------------------
(* The records of the binaries.                                             *)

\* A record compares with the manifest's hash, matches only a hash that was
\* taken, and is left out only where the file is the app's own.
RecordsTrue(records, manifest, role) ==
  \A b \in records :
    /\ b.verification = "match" => b.actual_sha256 = baseline(manifest, role) /\ b.actual_sha256 # {}
    /\ b.baseline_sha256 = baseline(manifest, role)

BinariesTrue(binaries, t, request, manifest) ==
  \A role \in Roles :
    /\ RecordsTrue(binaries[role], manifest, role)
    /\ binaries[role] = {} => t.bundle = "app" \/ override_for(request, role) = "app"

LEMMA SelectedRecord ==
  ASSUME NEW directory, NEW role, NEW manifest, NEW files
  PROVE  LET records == selectedRecord(<<directory, role>>, manifest, role, files)
         IN RecordsTrue(records, manifest, role) /\ (records = {} => directory = "app")
<1> DEFINE path == <<directory, role>>
           records == selectedRecord(path, manifest, role, files)
<1>1. CASE path \in manifest_entry(manifest, role)
  <2>1. records = {}
    BY Zenon, <1>1 DEF selectedRecord
  <2>2. path = <<"app", role>>
    BY Zenon, <1>1 DEF manifest_entry
  <2>3. directory = "app"
    BY <2>2
  <2> QED
    BY Zenon, <2>1, <2>3 DEF RecordsTrue
<1>2. CASE path \notin manifest_entry(manifest, role)
  <2> DEFINE b == compare(path, manifest, role, files)
  <2>1. records = {b}
    BY Zenon, <1>2 DEF selectedRecord
  <2>2. b.baseline_sha256 = baseline(manifest, role)
    BY Zenon DEF compare, BinaryRecord
  <2>3. /\ b.actual_sha256 = hash_regular_file(files, path)
        /\ b.verification = IF hash_regular_file(files, path) = {} \/ baseline(manifest, role) = {}
                            THEN "unavailable"
                            ELSE IF baseline(manifest, role) = hash_regular_file(files, path)
                            THEN "match" ELSE "mismatch"
    BY Zenon DEF compare, BinaryRecord
  <2> HIDE DEF b
  <2>4. b.verification = "match" => b.actual_sha256 = baseline(manifest, role) /\ b.actual_sha256 # {}
    BY <2>3
  <2> QED
    BY Zenon, <2>1, <2>2, <2>4 DEF RecordsTrue
<1> QED
  BY Zenon, <1>1, <1>2

LEMMA HelperRecord ==
  ASSUME NEW request, NEW bundle, NEW manifest, NEW role, NEW files
  PROVE  LET records == helper_record(request, bundle, manifest, role, files)
         IN /\ RecordsTrue(records, manifest, role)
            /\ records = {} => bundle = "app" \/ override_for(request, role) = "app"
<1> DEFINE override == override_for(request, role)
           records == helper_record(request, bundle, manifest, role, files)
<1>1. CASE override = "malformed" \/ override \in {"empty", "relative"}
  <2>1. PICK path : records = {unavailable(path, baseline(manifest, role))}
    <3>1. CASE override = "malformed"
      BY <3>1 DEF helper_record
    <3>2. CASE override \in {"empty", "relative"}
      BY <3>2 DEF helper_record
    <3> QED
      BY <1>1, <3>1, <3>2
  <2>2. LET b == unavailable(path, baseline(manifest, role))
        IN b.verification = "unavailable" /\ b.baseline_sha256 = baseline(manifest, role)
    BY Zenon DEF unavailable, BinaryRecord
  <2>3. RecordsTrue(records, manifest, role)
    BY <2>1, <2>2 DEF RecordsTrue
  <2> QED
    BY Zenon, <2>1, <2>3
<1>2. CASE override = "absent"
  <2>1. records = selectedRecord(<<bundle, role>>, manifest, role, files)
    BY <1>2 DEF helper_record
  <2> QED
    BY Zenon, <2>1, SelectedRecord
<1>3. CASE override \notin {"malformed", "empty", "relative", "absent"}
  <2>1. records = selectedRecord(<<override, role>>, manifest, role, files)
    BY <1>3 DEF helper_record
  <2> QED
    BY Zenon, <2>1, SelectedRecord
<1> QED
  BY <1>1, <1>2, <1>3

LEMMA ObservedBinaries ==
  ASSUME NEW t, NEW request, NEW manifest, NEW files, NEW submitted,
         request.overrides = submitted.overrides
  PROVE  BinariesTrue(observe(t, request, manifest, files), t, submitted, manifest)
<1> DEFINE binaries == observe(t, request, manifest, files)
<1> SUFFICES ASSUME NEW role \in Roles
             PROVE  /\ RecordsTrue(binaries[role], manifest, role)
                    /\ binaries[role] = {} => t.bundle = "app" \/ override_for(submitted, role) = "app"
  BY Zenon DEF BinariesTrue
<1>1. binaries[role] = IF role = "service" THEN selectedRecord(<<t.bundle, role>>, manifest, role, files)
                       ELSE helper_record(request, t.bundle, manifest, role, files)
  BY Zenon DEF observe
<1>2. override_for(request, role) = override_for(submitted, role)
  BY Zenon DEF override_for
<1> QED
  BY Zenon, <1>1, <1>2, SelectedRecord, HelperRecord

-----------------------------------------------------------------------------
(* What a step leaves alone.                                                *)

Only(changed) == DOMAIN rf' = RunFields /\ \A f \in RunFields \ changed : rf'[f] = rf[f]

LEMMA PrintFrame ==
  ASSUME DOMAIN rf = RunFields, NEW e, rf' = print(e)
  PROVE  Only({"pc", "envelope"}) /\ rf'.pc = "printed"
  BY Zenon DEF Only, print, RunFields

LEMMA Frames ==
  ASSUME DOMAIN rf = RunFields
  PROVE  /\ ParseArgument => Only({"args", "parsed"})
         /\ ParseArguments => Only({"pc", "parsed", "envelope"})
         /\ LoadManifest => Only({"pc", "manifest", "app_provenance"})
         /\ ReadRequest => Only({"pc", "submitted", "request", "envelope"})
         /\ SelectRunner => Only({"pc", "consulted", "target"})
         /\ ResolveAugments => Only({"pc", "request", "refusal", "policy"})
         /\ ResolveActor => Only({"pc", "request", "actor_refusal", "actors"})
         /\ ObserveBinaries => Only({"pc", "specimen", "held", "envelope"})
         /\ InvokeClient => Only({"pc", "client", "deadline", "envelope"})
         /\ FallbackCheck => Only({"pc", "policy_check", "checked"})
         /\ NoFallback => Only({"pc"})
         /\ PrintEnvelope => Only({"pc", "envelope"})
         /\ ReplaceFile => Only({"disk", "replaced"})
<1>1. ParseArgument => Only({"args", "parsed"})
  BY Zenon DEF ParseArgument, Only, RunFields
<1>2. ParseArguments => Only({"pc", "parsed", "envelope"})
  <2> SUFFICES ASSUME ParseArguments PROVE Only({"pc", "parsed", "envelope"})
    OBVIOUS
  <2> DEFINE p == parsed_arguments(rf.parsed)
  <2>1. \/ rf' = [rf EXCEPT !.pc = "helped"] \/ rf' = [rf EXCEPT !.pc = "manifest", !.parsed = p]
        \/ \E e : rf' = print(e)
    BY Zenon DEF ParseArguments
  <2> HIDE DEF p
  <2> QED
    BY Zenon, <2>1 DEF Only, RunFields, print
<1>3. LoadManifest => Only({"pc", "manifest", "app_provenance"})
  BY Zenon DEF LoadManifest, Only, RunFields
<1>4. ReadRequest => Only({"pc", "submitted", "request", "envelope"})
  <2> SUFFICES ASSUME ReadRequest PROVE Only({"pc", "submitted", "request", "envelope"})
    OBVIOUS
  <2>1. \/ \E read, request : rf' = [rf EXCEPT !.pc = "select", !.submitted = read, !.request = request]
        \/ \E e : rf' = print(e)
    BY Zenon DEF ReadRequest, tool_error, bad_request
  <2> QED
    BY Zenon, <2>1 DEF Only, RunFields, print
<1>5. SelectRunner => Only({"pc", "consulted", "target"})
  BY Zenon DEF SelectRunner, Only, RunFields
<1>6. ResolveAugments => Only({"pc", "request", "refusal", "policy"})
  BY Zenon DEF ResolveAugments, Only, RunFields
<1>7. ResolveActor => Only({"pc", "request", "actor_refusal", "actors"})
  <2> SUFFICES ASSUME ResolveActor PROVE Only({"pc", "request", "actor_refusal", "actors"})
    OBVIOUS
  <2> DEFINE i == Len(rf.actors) + 1
             actor == rf.request.actors[i]
             r == resolvePolicy(actor.policy, rf.disk.augments)
  <2>1. \/ rf' = [rf EXCEPT !.pc = "observe"]
        \/ rf' = [rf EXCEPT !.request = [@ EXCEPT !.actors[i].policy = r.policy],
                    !.actor_refusal = r.code, !.actors = Append(@, actor_policy_dossier(actor, r))]
    BY Zenon DEF ResolveActor
  <2> HIDE DEF i, actor, r
  <2> QED
    BY Zenon, <2>1 DEF Only, RunFields
<1>8. ObserveBinaries => Only({"pc", "specimen", "held", "envelope"})
  <2> SUFFICES ASSUME ObserveBinaries PROVE Only({"pc", "specimen", "held", "envelope"})
    OBVIOUS
  <2>1. \/ \E specimen : rf' = [rf EXCEPT !.pc = "invoke", !.specimen = specimen, !.held = hold(rf.request)]
        \/ \E e : rf' = print(e)
    BY Zenon DEF ObserveBinaries, tool_error, bad_request
  <2> QED
    BY Zenon, <2>1 DEF Only, RunFields, print
<1>9. InvokeClient => Only({"pc", "client", "deadline", "envelope"})
  <2> SUFFICES ASSUME InvokeClient PROVE Only({"pc", "client", "deadline", "envelope"})
    OBVIOUS
  <2>1. \/ \E c, deadline : rf' = [rf EXCEPT !.pc = "answered", !.client = {c}, !.deadline = deadline]
        \/ \E e : rf' = print(e)
    BY Zenon DEF InvokeClient, tool_error
  <2> QED
    BY Zenon, <2>1 DEF Only, RunFields, print
<1>10. FallbackCheck => Only({"pc", "policy_check", "checked"})
  BY Zenon DEF FallbackCheck, Only, RunFields
<1>11. NoFallback => Only({"pc"})
  BY DEF NoFallback, Only, RunFields
<1>12. PrintEnvelope => Only({"pc", "envelope"})
  <2> SUFFICES ASSUME PrintEnvelope PROVE Only({"pc", "envelope"})
    OBVIOUS
  <2>1. \E e : rf' = print(e)
    BY Zenon DEF PrintEnvelope
  <2> QED
    BY Zenon, <2>1, PrintFrame
<1>13. ReplaceFile => Only({"disk", "replaced"})
  BY Zenon DEF ReplaceFile, Only, RunFields
<1> QED
  BY Zenon, <1>1, <1>2, <1>3, <1>4, <1>5, <1>6, <1>7, <1>8, <1>9, <1>10, <1>11, <1>12, <1>13

-----------------------------------------------------------------------------
(* The form of what was read.                                               *)

DiskForm(disk) == DOMAIN disk = DiskParts /\ \A part \in DiskParts : PartForm(part, disk[part])

InputInv ==
  /\ DiskForm(rf.disk) /\ ParsedForm(rf.parsed)
  /\ ManifestForm(rf.manifest) /\ RegistryForm(rf.consulted) /\ RequestForm(rf.submitted)

LEMMA DiskParsed ==
  ASSUME NEW disk, DiskForm(disk)
  PROVE  ManifestForm(disk.manifest) /\ RegistryForm(disk.registry) /\ RequestForm(disk.request)
         /\ AugmentsForm(disk.augments)
  BY DEF DiskForm, DiskParts, PartForm

LEMMA InitInput == rf \in RunStarts => InputInv
<1> SUFFICES ASSUME NEW r \in Runs, rf.disk = r.disk, rf.parsed = NoArguments,
                    rf.manifest = r.disk.manifest, rf.consulted = r.disk.registry,
                    rf.submitted = r.disk.request
             PROVE  InputInv
  BY DEF RunStarts
<1>1. DiskForm(r.disk)
  BY Zenon, InputAssumption DEF DiskForm
<1>2. ParsedForm(NoArguments)
  BY Zenon DEF ParsedForm, NoArguments, RunnerModes, DEFAULT_TIMEOUT_MS
<1> QED
  BY Zenon, <1>1, <1>2, DiskParsed DEF InputInv

LEMMA NextInput ==
  ASSUME InputInv, DOMAIN rf = RunFields, [NextRun]_rf
  PROVE  InputInv'
<1> DEFINE kept == /\ rf'.disk = rf.disk /\ rf'.parsed = rf.parsed /\ rf'.manifest = rf.manifest
                   /\ rf'.consulted = rf.consulted /\ rf'.submitted = rf.submitted
<1>0. kept => InputInv'
  BY Zenon DEF InputInv
<1>1. CASE ParseArgument
  <2>1. Only({"args", "parsed"})
    BY Zenon, <1>1, Frames
  <2>2. /\ rf'.disk = rf.disk /\ rf'.manifest = rf.manifest
        /\ rf'.consulted = rf.consulted /\ rf'.submitted = rf.submitted
    BY ONLY <2>1 DEF Only, RunFields
  <2>3. rf'.parsed = argument(rf.parsed, Head(rf.args))
    BY <1>1 DEF ParseArgument, RunFields
  <2>4. ParsedForm(argument(rf.parsed, Head(rf.args)))
    BY Zenon, ArgumentForm DEF InputInv
  <2> QED
    BY Zenon, <2>2, <2>3, <2>4 DEF InputInv
<1>2. CASE ParseArguments
  <2>1. Only({"pc", "parsed", "envelope"})
    BY Zenon, <1>2, Frames
  <2>2. /\ rf'.disk = rf.disk /\ rf'.manifest = rf.manifest
        /\ rf'.consulted = rf.consulted /\ rf'.submitted = rf.submitted
    BY ONLY <2>1 DEF Only, RunFields
  <2> DEFINE p == parsed_arguments(rf.parsed)
  <2>3. rf'.parsed \in {rf.parsed, p}
    <3>1. \/ rf' = [rf EXCEPT !.pc = "helped"] \/ rf' = [rf EXCEPT !.pc = "manifest", !.parsed = p]
          \/ \E e : rf' = print(e)
      BY Zenon, <1>2 DEF ParseArguments
    <3> HIDE DEF p
    <3> QED
      BY Zenon, <3>1 DEF RunFields, print
  <2>4. ParsedForm(rf.parsed) /\ ParsedForm(p)
    BY Zenon, ArgumentForm DEF InputInv
  <2> HIDE DEF p
  <2> QED
    BY Zenon, <2>2, <2>3, <2>4 DEF InputInv
<1>3. CASE LoadManifest
  <2>1. Only({"pc", "manifest", "app_provenance"})
    BY Zenon, <1>3, Frames
  <2>2. /\ rf'.disk = rf.disk /\ rf'.parsed = rf.parsed
        /\ rf'.consulted = rf.consulted /\ rf'.submitted = rf.submitted
    BY ONLY <2>1 DEF Only, RunFields
  <2>3. rf'.manifest = rf.disk.manifest
    BY <1>3 DEF LoadManifest, RunFields
  <2> QED
    BY Zenon, <2>2, <2>3, DiskParsed DEF InputInv
<1>4. CASE ReadRequest
  <2>1. Only({"pc", "submitted", "request", "envelope"})
    BY Zenon, <1>4, Frames
  <2>2. /\ rf'.disk = rf.disk /\ rf'.parsed = rf.parsed /\ rf'.manifest = rf.manifest
        /\ rf'.consulted = rf.consulted
    BY ONLY <2>1 DEF Only, RunFields
  <2>3. rf'.submitted \in {rf.submitted, rf.disk.request}
    <3>1. \/ \E request : rf' = [rf EXCEPT !.pc = "select", !.submitted = rf.disk.request, !.request = request]
          \/ \E e : rf' = print(e)
      BY Zenon, <1>4 DEF ReadRequest, tool_error, bad_request
    <3> QED
      BY Zenon, <3>1 DEF RunFields, print
  <2> QED
    BY Zenon, <2>2, <2>3, DiskParsed DEF InputInv
<1>5. CASE SelectRunner
  <2>1. Only({"pc", "consulted", "target"})
    BY Zenon, <1>5, Frames
  <2>2. /\ rf'.disk = rf.disk /\ rf'.parsed = rf.parsed /\ rf'.manifest = rf.manifest
        /\ rf'.submitted = rf.submitted
    BY ONLY <2>1 DEF Only, RunFields
  <2>3. rf'.consulted = rf.disk.registry
    BY <1>5 DEF SelectRunner, RunFields
  <2> QED
    BY Zenon, <2>2, <2>3, DiskParsed DEF InputInv
<1>6. CASE \/ ResolveAugments \/ ResolveActor \/ ObserveBinaries \/ InvokeClient
           \/ FallbackCheck \/ NoFallback \/ PrintEnvelope
  <2>1. \/ Only({"pc", "request", "refusal", "policy"}) \/ Only({"pc", "request", "actor_refusal", "actors"})
        \/ Only({"pc", "specimen", "held", "envelope"}) \/ Only({"pc", "client", "deadline", "envelope"})
        \/ Only({"pc", "policy_check", "checked"}) \/ Only({"pc"}) \/ Only({"pc", "envelope"})
    BY Zenon, <1>6, Frames
  <2>2. kept
    BY ONLY <2>1 DEF Only, RunFields
  <2> QED
    BY <1>0, <2>2
<1>7. CASE ReplaceFile
  <2>1. Only({"disk", "replaced"})
    BY Zenon, <1>7, Frames
  <2>2. /\ rf'.parsed = rf.parsed /\ rf'.manifest = rf.manifest
        /\ rf'.consulted = rf.consulted /\ rf'.submitted = rf.submitted
    BY ONLY <2>1 DEF Only, RunFields
  <2>3. PICK part \in DOMAIN Later : \E new \in Later[part] :
          rf' = [rf EXCEPT !.disk[part] = new, !.replaced = @ + 1]
    BY Zenon, <1>7 DEF ReplaceFile
  <2>8. PICK new \in Later[part] : rf' = [rf EXCEPT !.disk[part] = new, !.replaced = @ + 1]
    BY Zenon, <2>3
  <2>4. rf'.disk = [rf.disk EXCEPT ![part] = new]
    BY <2>8 DEF RunFields
  <2>5. part \in DiskParts /\ PartForm(part, new)
    BY Zenon, InputAssumption
  <2>6. DiskForm(rf.disk)
    BY Zenon DEF InputInv
  <2>7. DiskForm(rf'.disk)
    BY ONLY <2>4, <2>5, <2>6 DEF DiskForm
  <2> QED
    BY Zenon, <2>2, <2>7 DEF InputInv
<1>8. CASE UNCHANGED rf
  BY Zenon, <1>8 DEF InputInv
<1> QED
  BY Zenon, <1>1, <1>2, <1>3, <1>4, <1>5, <1>6, <1>7, <1>8 DEF NextRun

-----------------------------------------------------------------------------
(* The selection.                                                           *)

\* The request has been read; the runner selected; the specimen described.  A client
\* is there only after all of that.
Read(pc, client) ==
  pc \in {"select", "augment", "actors", "observe", "invoke", "answered", "checked"} \/ client # {}
Selected(pc, client) ==
  pc \in {"augment", "actors", "observe", "invoke", "answered", "checked"} \/ client # {}
Described(pc, client) == pc \in {"invoke", "answered", "checked"} \/ client # {}

asked == chosen(rf.submitted, rf.parsed.runner_mode_arg)

\* The selector in force is that of the request as it was read and of --runner-mode,
\* the target is what it is resolved to, and the specimen describes that target.
SelectInv ==
  /\ rf.pc = "select" => selectorOf(rf.request) = asked
  /\ Read(rf.pc, rf.client) =>
       /\ asked.mode \subseteq {"standard", "byoxpc"}
       /\ rf.request.overrides = rf.submitted.overrides
       /\ DOMAIN rf.request = DOMAIN rf.submitted
  /\ Selected(rf.pc, rf.client) =>
       rf.target = resolve_runner_target_with_registry(rf.manifest, rf.consulted, asked)
  /\ Described(rf.pc, rf.client) =>
       /\ rf.specimen.runner_provenance = rf.target
       /\ \A t \in rf.target : BinariesTrue(rf.specimen.binaries, t, rf.submitted, rf.manifest)

LEMMA InitSelect == rf \in RunStarts => SelectInv
<1> SUFFICES ASSUME rf \in RunStarts PROVE SelectInv
  OBVIOUS
<1>1. rf.pc = "start" /\ rf.client = {}
  BY DEF RunStarts
<1> QED
  BY <1>1 DEF SelectInv, Read, Selected, Described

\* A step that goes no further in the run and keeps what was read.
LEMMA SelectKept ==
  ASSUME SelectInv, rf'.manifest = rf.manifest, rf'.consulted = rf.consulted,
         rf'.submitted = rf.submitted, rf'.parsed = rf.parsed, rf'.request = rf.request,
         rf'.target = rf.target, rf'.specimen = rf.specimen,
         rf'.pc = "select" => rf.pc = "select",
         Read(rf'.pc, rf'.client) => Read(rf.pc, rf.client),
         Selected(rf'.pc, rf'.client) => Selected(rf.pc, rf.client),
         Described(rf'.pc, rf'.client) => Described(rf.pc, rf.client)
  PROVE  SelectInv'
  BY Zenon DEF SelectInv, asked

\* A step before the request is read, or one that ends the run there.
LEMMA SelectUnread ==
  ASSUME rf'.pc # "select", ~Read(rf'.pc, rf'.client)
  PROVE  SelectInv'
<1>1. ~Selected(rf'.pc, rf'.client) /\ ~Described(rf'.pc, rf'.client)
  BY Zenon DEF Read, Selected, Described
<1> QED
  BY Zenon, <1>1 DEF SelectInv

LEMMA SubmittedSelector ==
  ASSUME InputInv
  PROVE  optional(asked.runner_id) /\ optional(asked.runner_service)
<1>1. RequestForm(rf.submitted) /\ RunnerForm(nested(rf.submitted))
  BY Zenon, NestedForm DEF InputInv
<1>2. /\ optional(rf.submitted.runner_id) /\ optional(rf.submitted.runner_service)
      /\ optional(nested(rf.submitted).id) /\ optional(nested(rf.submitted).service)
  BY Zenon, <1>1 DEF RequestForm, RunnerForm
<1> QED
  BY Zenon, <1>2 DEF asked, chosen, over

\* The target in hand is the one the selector asked for names.
LEMMA TargetNow ==
  ASSUME InputInv, SelectInv, Read(rf.pc, rf.client), Selected(rf.pc, rf.client), NEW t \in rf.target
  PROVE  AsSelected(t, asked, rf.consulted) /\ rf.target = {t}
<1> DEFINE m == rf.manifest
           g == rf.consulted
           s == asked
<1>1. /\ ManifestForm(m) /\ RegistryForm(g)
      /\ optional(s.runner_id) /\ optional(s.runner_service)
      /\ s.mode \subseteq {"standard", "byoxpc"}
      /\ rf.target = resolve_runner_target_with_registry(m, g, s)
  BY Zenon, SubmittedSelector DEF InputInv, SelectInv
<1>2. t \in resolve_runner_target_with_registry(m, g, s)
  BY Zenon, <1>1
<1> HIDE DEF m, g, s
<1>3. AsSelected(t, s, g) /\ resolve_runner_target_with_registry(m, g, s) = {t}
  BY ONLY <1>1, <1>2, TargetSelected, Zenon
<1> QED
  BY Zenon, <1>1, <1>3 DEF m, g, s

\* ReadRequest goes on with a request whose selector was accepted.
LEMMA ReadSelects ==
  ASSUME EndInv, InputInv, ReadRequest
  PROVE  \/ \E e : rf' = print(e)
         \/ LET request == injected(rf.disk.request, rf.parsed.runner_mode_arg)
            IN /\ rf' = [rf EXCEPT !.pc = "select", !.submitted = rf.disk.request, !.request = request]
               /\ parse_runner_selector_value(request) = {}
<1> DEFINE read == rf.disk.request
           mode == rf.parsed.runner_mode_arg
           request == injected(read, mode)
           e1 == parse_request(read)
           e2 == validate_request_version(read)
           e3 == IF mode = {} THEN {} ELSE inject_runner_mode(read, mode).error
           e4 == parse_runner_selector_value(request)
           error == firstOf(<<e1, e2, e3, e4>>)
<1>1. \/ \E e : rf' = print(e)
      \/ /\ error = {}
         /\ rf' = [rf EXCEPT !.pc = "select", !.submitted = read, !.request = request]
  BY Zenon DEF ReadRequest, tool_error, bad_request, injected
<1>2. ASSUME error = {} PROVE e4 = {}
  <2> DEFINE e == <<e1, e2, e3, e4>>
  <2> HIDE DEF e1, e2, e3, e4
  <2>1. firstOf(e) = {}
    BY Zenon, <1>2
  <2>2. DOMAIN e = 1..4 /\ e[4] = e4
    OBVIOUS
  <2> HIDE DEF e
  <2>3. \A k \in 1..4 : (\A j \in 1..(k - 1) : e[j] = {}) => e[k] = {}
    BY Zenon, <2>1, <2>2, NoErrorAt
  <2>4. e[1] = {}
    BY <2>3
  <2>5. e[2] = {}
    BY <2>3, <2>4
  <2>6. e[3] = {}
    BY <2>3, <2>4, <2>5
  <2>7. e[4] = {}
    BY <2>3, <2>4, <2>5, <2>6
  <2> QED
    BY Zenon, <2>2, <2>7
<1> QED
  BY Zenon, <1>1, <1>2

(* Where each step leads and what it writes.                                *)

LEMMA EarlySteps ==
  ASSUME EndInv, ParseArgument \/ ParseArguments \/ LoadManifest
  PROVE  /\ rf.pc \in {"start", "manifest"} /\ rf.client = {} /\ rf'.client = {}
         /\ rf'.pc \in {"start", "helped", "manifest", "request", "printed"}
<1>0. DOMAIN rf = RunFields /\ (rf.pc \in Before => rf.client = {})
  BY Zenon DEF EndInv
<1>1. Only({"args", "parsed"}) \/ Only({"pc", "parsed", "envelope"}) \/ Only({"pc", "manifest", "app_provenance"})
  BY Zenon, <1>0, Frames
<1>2. rf'.client = rf.client
  BY ONLY <1>1 DEF Only, RunFields
<1>3. rf.pc \in {"start", "manifest"}
  BY DEF ParseArgument, ParseArguments, LoadManifest, at
<1>4. rf'.pc \in {"start", "helped", "manifest", "request", "printed"}
  <2>1. CASE ParseArgument
    <3>1. Only({"args", "parsed"})
      BY Zenon, <1>0, <2>1, Frames
    <3> QED
      BY ONLY <1>3, <3>1 DEF Only, RunFields
  <2>2. CASE ParseArguments
    <3>1. \/ rf' = [rf EXCEPT !.pc = "helped"]
          \/ rf' = [rf EXCEPT !.pc = "manifest", !.parsed = parsed_arguments(rf.parsed)]
          \/ \E e : rf' = print(e)
      BY Zenon, <2>2 DEF ParseArguments
    <3> QED
      BY ONLY Zenon, <1>0, <3>1 DEF RunFields, print
  <2>3. CASE LoadManifest
    BY <1>0, <2>3 DEF LoadManifest, RunFields
  <2> QED
    BY Zenon, <2>1, <2>2, <2>3
<1>5. rf.client = {}
  BY <1>0, <1>3 DEF Before
<1> QED
  BY Zenon, <1>2, <1>3, <1>4, <1>5

LEMMA AugmentsStep ==
  ASSUME EndInv, "policy" \in DOMAIN rf.request, ResolveAugments
  PROVE  LET r == resolvePolicy(rf.request.policy, rf.disk.augments)
         IN /\ rf.pc = "augment" /\ rf.client = {} /\ rf'.pc = "actors"
            /\ DOMAIN rf'.request = DOMAIN rf.request /\ rf'.request.policy = r.policy
            /\ \A f \in DOMAIN rf.request \ {"policy"} : rf'.request[f] = rf.request[f]
            /\ rf'.refusal = r.code
            /\ rf'.policy = policy_dossier(string_source(rf.request.policy), r)
<1>0. DOMAIN rf = RunFields /\ (rf.pc \in Before => rf.client = {})
  BY Zenon DEF EndInv
<1>1. rf.pc = "augment"
  BY Zenon DEF ResolveAugments, at
<1>2. rf.client = {}
  BY <1>0, <1>1 DEF Before
<1> DEFINE r == resolvePolicy(rf.request.policy, rf.disk.augments)
           d == policy_dossier(string_source(rf.request.policy), r)
<1>3. rf' = [rf EXCEPT !.pc = "actors", !.request = [@ EXCEPT !.policy = r.policy],
                       !.refusal = r.code, !.policy = d]
  BY Zenon DEF ResolveAugments
<1> HIDE DEF r, d
<1>4. rf'.pc = "actors" /\ rf'.request = [rf.request EXCEPT !.policy = r.policy]
      /\ rf'.refusal = r.code /\ rf'.policy = d
  BY ONLY <1>0, <1>3 DEF RunFields
<1>5. /\ DOMAIN rf'.request = DOMAIN rf.request /\ rf'.request.policy = r.policy
      /\ \A f \in DOMAIN rf.request \ {"policy"} : rf'.request[f] = rf.request[f]
  BY ONLY "policy" \in DOMAIN rf.request, <1>4
<1> QED
  BY Zenon, <1>1, <1>2, <1>4, <1>5 DEF r, d

LEMMA ActorStep ==
  ASSUME EndInv, "actors" \in DOMAIN rf.request, ResolveActor
  PROVE  LET i == Len(rf.actors) + 1
             actor == rf.request.actors[i]
             r == resolvePolicy(actor.policy, rf.disk.augments)
         IN /\ rf.pc = "actors" /\ rf.client = {} /\ rf'.pc \in {"actors", "observe"}
            /\ DOMAIN rf'.request = DOMAIN rf.request
            /\ \A f \in DOMAIN rf.request \ {"actors"} : rf'.request[f] = rf.request[f]
            /\ \/ /\ rf'.pc = "observe" /\ (i > Len(rf.request.actors) \/ rf.actor_refusal # {})
                  /\ rf'.request = rf.request /\ rf'.actors = rf.actors
                  /\ rf'.actor_refusal = rf.actor_refusal
               \/ /\ rf'.pc = "actors" /\ ~(i > Len(rf.request.actors)) /\ rf.actor_refusal = {}
                  /\ rf'.request.actors = [rf.request.actors EXCEPT ![i].policy = r.policy]
                  /\ rf'.actor_refusal = r.code
                  /\ rf'.actors = Append(rf.actors, actor_policy_dossier(actor, r))
<1>0. DOMAIN rf = RunFields /\ (rf.pc \in Before => rf.client = {})
  BY Zenon DEF EndInv
<1>1. rf.pc = "actors"
  BY Zenon DEF ResolveActor, at
<1>2. rf.client = {}
  BY <1>0, <1>1 DEF Before
<1> DEFINE i == Len(rf.actors) + 1
           actor == rf.request.actors[i]
           r == resolvePolicy(actor.policy, rf.disk.augments)
           q == [rf.request EXCEPT !.actors[i].policy = r.policy]
           x == actor_policy_dossier(actor, r)
<1>3. \/ /\ i > Len(rf.request.actors) \/ rf.actor_refusal # {}
         /\ rf' = [rf EXCEPT !.pc = "observe"]
      \/ /\ ~(i > Len(rf.request.actors)) /\ rf.actor_refusal = {}
         /\ rf' = [rf EXCEPT !.request = [@ EXCEPT !.actors[i].policy = r.policy],
                             !.actor_refusal = r.code, !.actors = Append(@, x)]
  BY Zenon DEF ResolveActor
<1> HIDE DEF i, actor, r, x
<1>4. /\ DOMAIN q = DOMAIN rf.request
      /\ q.actors = [rf.request.actors EXCEPT ![i].policy = r.policy]
      /\ \A f \in DOMAIN rf.request \ {"actors"} : q[f] = rf.request[f]
  BY ONLY "actors" \in DOMAIN rf.request
<1>5. CASE i > Len(rf.request.actors) \/ rf.actor_refusal # {}
  <2>1. rf' = [rf EXCEPT !.pc = "observe"]
    BY ONLY <1>3, <1>5, Zenon
  <2>2. /\ rf'.pc = "observe" /\ rf'.request = rf.request /\ rf'.actors = rf.actors
        /\ rf'.actor_refusal = rf.actor_refusal
    BY ONLY <1>0, <2>1 DEF RunFields
  <2> QED
    BY Zenon, <1>1, <1>2, <1>5, <2>2 DEF i
<1>6. CASE ~(i > Len(rf.request.actors)) /\ rf.actor_refusal = {}
  <2>1. rf' = [rf EXCEPT !.request = [@ EXCEPT !.actors[i].policy = r.policy],
                         !.actor_refusal = r.code, !.actors = Append(@, x)]
    BY ONLY <1>3, <1>6, Zenon
  <2>2. rf' = [rf EXCEPT !.request = q, !.actor_refusal = r.code, !.actors = Append(rf.actors, x)]
    BY ONLY <1>0, <2>1 DEF RunFields
  <2> HIDE DEF q
  <2>3. /\ rf'.pc = "actors" /\ rf'.request = q /\ rf'.actors = Append(rf.actors, x)
        /\ rf'.actor_refusal = r.code
    BY ONLY <1>0, <1>1, <2>2 DEF RunFields
  <2> QED
    BY Zenon, <1>1, <1>2, <1>4, <1>6, <2>3 DEF i, actor, r, x
<1> QED
  BY Zenon, <1>5, <1>6

LEMMA LateSteps ==
  ASSUME EndInv, InvokeClient \/ FallbackCheck \/ NoFallback \/ PrintEnvelope \/ ReplaceFile
  PROVE  \/ rf'.pc = rf.pc /\ rf'.client = rf.client
         \/ rf.pc \in {"invoke", "answered", "checked"} /\ rf'.pc \in {"answered", "checked", "printed"}
<1>0. DOMAIN rf = RunFields
  BY Zenon DEF EndInv
<1>1. CASE ReplaceFile
  <2>1. Only({"disk", "replaced"})
    BY Zenon, <1>0, <1>1, Frames
  <2> QED
    BY ONLY <2>1 DEF Only, RunFields
<1>2. CASE InvokeClient
  <2>1. \/ \E c, deadline : rf' = [rf EXCEPT !.pc = "answered", !.client = {c}, !.deadline = deadline]
        \/ \E e : rf' = print(e)
    BY Zenon, <1>2 DEF InvokeClient, tool_error
  <2>2. rf.pc = "invoke"
    BY Zenon, <1>2 DEF InvokeClient, at
  <2> QED
    BY ONLY Zenon, <1>0, <2>1, <2>2 DEF RunFields, print
<1>3. CASE FallbackCheck \/ NoFallback
  BY Zenon, <1>0, <1>3 DEF FallbackCheck, NoFallback, at, RunFields
<1>4. CASE PrintEnvelope
  <2>1. \E e : rf' = print(e)
    BY Zenon, <1>4 DEF PrintEnvelope
  <2>2. rf.pc = "checked"
    BY Zenon, <1>4 DEF PrintEnvelope, at
  <2> QED
    BY ONLY <1>0, <2>1, <2>2 DEF RunFields, print
<1> QED
  BY Zenon, <1>1, <1>2, <1>3, <1>4

LEMMA NextSelect ==
  ASSUME EndInv, InputInv, SelectInv, [NextRun]_rf
  PROVE  SelectInv'
<1>0. DOMAIN rf = RunFields /\ (rf.pc \in Before => rf.client = {})
  BY Zenon DEF EndInv
<1>1. CASE ParseArgument \/ ParseArguments \/ LoadManifest
  <2>1. rf'.client = {} /\ rf'.pc \in {"start", "helped", "manifest", "request", "printed"}
    BY Zenon, <1>1, EarlySteps
  <2> QED
    BY <2>1, SelectUnread DEF Read
<1>2. CASE ReadRequest
  <2>1. rf.client = {}
    BY Zenon, <1>0, <1>2 DEF ReadRequest, at, Before
  <2>2. CASE \E e : rf' = print(e)
    <3>1. rf'.pc = "printed" /\ rf'.client = {}
      BY <1>0, <2>1, <2>2 DEF print, RunFields
    <3> QED
      BY <3>1, SelectUnread DEF Read
  <2> DEFINE read == rf.disk.request
             mode == rf.parsed.runner_mode_arg
             request == injected(read, mode)
  <2>3. CASE /\ rf' = [rf EXCEPT !.pc = "select", !.submitted = read, !.request = request]
             /\ parse_runner_selector_value(request) = {}
    <3>1. RequestForm(read)
      BY Zenon, DiskParsed DEF InputInv
    <3>2. selectorOf(request) = chosen(read, mode)
      BY Zenon, <3>1, InjectedSelector
    <3>3. selectorOf(request).mode \subseteq {"standard", "byoxpc"}
      BY Zenon, <2>3, KnownModes
    <3>4. DOMAIN request = DOMAIN read /\ request.overrides = read.overrides
      <4> HIDE DEF read, mode
      <4>1. "overrides" \in DOMAIN read \ {"runner"}
        BY ONLY <3>1 DEF RequestForm
      <4>2. /\ DOMAIN injected(read, mode) = DOMAIN read
            /\ \A f \in DOMAIN read \ {"runner"} : injected(read, mode)[f] = read[f]
        BY ONLY <3>1, InjectedFields, Zenon
      <4> QED
        BY Zenon, <4>1, <4>2
    <3> HIDE DEF read, mode, request
    <3>5. /\ rf'.pc = "select" /\ rf'.submitted = read /\ rf'.request = request /\ rf'.client = {}
          /\ rf'.parsed = rf.parsed
      BY <1>0, <2>1, <2>3 DEF RunFields
    <3>6. asked' = chosen(read, mode)
      BY Zenon, <3>5 DEF asked, mode
    <3>7. ~Selected(rf'.pc, rf'.client) /\ ~Described(rf'.pc, rf'.client)
      BY <3>5 DEF Selected, Described
    <3> QED
      BY Zenon, <3>2, <3>3, <3>4, <3>5, <3>6, <3>7 DEF SelectInv
  <2> QED
    BY Zenon, <1>2, <2>2, <2>3, ReadSelects
<1>3. CASE SelectRunner
  <2>1. rf.pc = "select"
    BY <1>3 DEF SelectRunner, at
  <2>2. Only({"pc", "consulted", "target"})
    BY Zenon, <1>0, <1>3, Frames
  <2>3. /\ rf'.manifest = rf.manifest /\ rf'.submitted = rf.submitted /\ rf'.parsed = rf.parsed
        /\ rf'.request = rf.request /\ rf'.client = rf.client
    BY ONLY <2>2 DEF Only, RunFields
  <2>4. /\ rf'.pc = "augment" /\ rf'.consulted = rf.disk.registry
        /\ rf'.target = resolve_runner_target_with_registry(rf.manifest, rf.disk.registry, selectorOf(rf.request))
    BY <1>0, <1>3 DEF SelectRunner, RunFields
  <2>5. selectorOf(rf.request) = asked /\ asked' = asked
    BY Zenon, <2>1, <2>3 DEF SelectInv, asked
  <2>6. rf.client = {}
    BY <1>0, <2>1 DEF Before
  <2>7. ~Described(rf'.pc, rf'.client) /\ rf'.pc # "select" /\ Read(rf.pc, rf.client)
    BY <2>1, <2>3, <2>4, <2>6 DEF Described, Read
  <2> QED
    BY Zenon, <2>3, <2>4, <2>5, <2>7 DEF SelectInv
<1>4. CASE ResolveAugments \/ ResolveActor
  <2>1. rf.pc \in {"augment", "actors"} /\ rf.client = {}
    BY <1>0, <1>4 DEF ResolveAugments, ResolveActor, at, Before
  <2>2. Only({"pc", "request", "refusal", "policy"}) \/ Only({"pc", "request", "actor_refusal", "actors"})
    BY Zenon, <1>0, <1>4, Frames
  <2>3. /\ rf'.manifest = rf.manifest /\ rf'.submitted = rf.submitted /\ rf'.parsed = rf.parsed
        /\ rf'.consulted = rf.consulted /\ rf'.target = rf.target /\ rf'.client = rf.client
    BY ONLY <2>2 DEF Only, RunFields
  <2>4. Read(rf.pc, rf.client) /\ Selected(rf.pc, rf.client)
    BY <2>1 DEF Read, Selected
  <2>5. rf'.pc \in {"actors", "observe"} /\ (rf'.request.overrides = rf.request.overrides)
        /\ DOMAIN rf'.request = DOMAIN rf.request
    <3>1. DOMAIN rf.request = DOMAIN rf.submitted /\ RequestForm(rf.submitted)
      BY Zenon, <2>4 DEF SelectInv, InputInv
    <3>2. /\ "policy" \in DOMAIN rf.request /\ "actors" \in DOMAIN rf.request
          /\ "overrides" \in DOMAIN rf.request \ {"policy"} /\ "overrides" \in DOMAIN rf.request \ {"actors"}
      BY ONLY <3>1 DEF RequestForm
    <3>3. CASE ResolveAugments
      BY Zenon, <3>2, <3>3, AugmentsStep
    <3>4. CASE ResolveActor
      BY Zenon, <3>2, <3>4, ActorStep
    <3> QED
      BY Zenon, <1>4, <3>3, <3>4
  <2>6. ~Described(rf'.pc, rf'.client) /\ rf'.pc # "select"
    BY <2>1, <2>3, <2>5 DEF Described
  <2>7. asked' = asked
    BY Zenon, <2>3 DEF asked
  <2> QED
    BY Zenon, <2>3, <2>4, <2>5, <2>6, <2>7 DEF SelectInv
<1>5. CASE ObserveBinaries
  <2>1. rf.pc = "observe" /\ rf.client = {}
    BY <1>0, <1>5 DEF ObserveBinaries, at, Before
  <2>2. Only({"pc", "specimen", "held", "envelope"})
    BY Zenon, <1>0, <1>5, Frames
  <2>3. /\ rf'.manifest = rf.manifest /\ rf'.submitted = rf.submitted /\ rf'.parsed = rf.parsed
        /\ rf'.request = rf.request /\ rf'.consulted = rf.consulted /\ rf'.target = rf.target
        /\ rf'.client = rf.client
    BY ONLY <2>2 DEF Only, RunFields
  <2> DEFINE binaries == UNION {{observe(t, rf.request, rf.manifest, rf.disk.files)} : t \in rf.target}
             specimen == [request_path |-> rf.parsed.request_path, policy |-> rf.policy,
                          actors |-> rf.actors, runner_provenance |-> rf.target,
                          app_provenance |-> rf.app_provenance,
                          binaries |-> IF binaries = {} THEN unselected ELSE CHOOSE b \in binaries : TRUE]
  <2>4. \/ \E e : rf' = print(e)
        \/ rf' = [rf EXCEPT !.pc = "invoke", !.specimen = specimen, !.held = hold(rf.request)]
    BY Zenon, <1>5 DEF ObserveBinaries, tool_error, bad_request
  <2>5. CASE \E e : rf' = print(e)
    <3>1. rf'.pc = "printed" /\ rf'.client = {}
      BY <1>0, <2>1, <2>5 DEF print, RunFields
    <3> QED
      BY <3>1, SelectUnread DEF Read
  <2>6. CASE rf' = [rf EXCEPT !.pc = "invoke", !.specimen = specimen, !.held = hold(rf.request)]
    <3>1. Read(rf.pc, rf.client) /\ Selected(rf.pc, rf.client)
      BY <2>1 DEF Read, Selected
    <3>2. ASSUME NEW t \in rf.target PROVE BinariesTrue(specimen.binaries, t, rf.submitted, rf.manifest)
      <4>1. rf.target = {t}
        BY ONLY InputInv, SelectInv, <3>1, <3>2, TargetNow, Zenon
      <4>2. binaries = {observe(t, rf.request, rf.manifest, rf.disk.files)}
        BY Zenon, <4>1
      <4>3. specimen.binaries = IF binaries = {} THEN unselected ELSE CHOOSE b \in binaries : TRUE
        BY Zenon
      <4> HIDE DEF binaries, specimen
      <4>4. specimen.binaries = observe(t, rf.request, rf.manifest, rf.disk.files)
        BY Zenon, <4>2, <4>3
      <4>5. rf.request.overrides = rf.submitted.overrides
        BY Zenon, <3>1 DEF SelectInv
      <4> QED
        BY Zenon, <4>4, <4>5, ObservedBinaries
    <3>3. specimen.runner_provenance = rf.target
      BY Zenon
    <3> HIDE DEF specimen
    <3>4. rf'.pc = "invoke" /\ rf'.specimen = specimen
      BY <1>0, <2>6 DEF RunFields
    <3>5. asked' = asked /\ rf'.pc # "select"
      BY <2>3, <3>4 DEF asked
    <3> QED
      BY Zenon, <2>3, <3>1, <3>2, <3>3, <3>4, <3>5 DEF SelectInv
  <2> QED
    BY Zenon, <2>4, <2>5, <2>6
<1>6. CASE InvokeClient \/ FallbackCheck \/ NoFallback \/ PrintEnvelope \/ ReplaceFile
  <2>1. \/ Only({"pc", "client", "deadline", "envelope"}) \/ Only({"pc", "policy_check", "checked"})
        \/ Only({"pc"}) \/ Only({"pc", "envelope"}) \/ Only({"disk", "replaced"})
    BY Zenon, <1>0, <1>6, Frames
  <2>2. /\ rf'.manifest = rf.manifest /\ rf'.submitted = rf.submitted /\ rf'.parsed = rf.parsed
        /\ rf'.request = rf.request /\ rf'.consulted = rf.consulted /\ rf'.target = rf.target
        /\ rf'.specimen = rf.specimen
    BY ONLY <2>1 DEF Only, RunFields
  <2>3. \/ rf'.pc = rf.pc /\ rf'.client = rf.client
        \/ rf.pc \in {"invoke", "answered", "checked"} /\ rf'.pc \in {"answered", "checked", "printed"}
    BY Zenon, <1>6, LateSteps
  <2>4. /\ rf'.pc = "select" => rf.pc = "select"
        /\ Read(rf'.pc, rf'.client) => Read(rf.pc, rf.client)
        /\ Selected(rf'.pc, rf'.client) => Selected(rf.pc, rf.client)
        /\ Described(rf'.pc, rf'.client) => Described(rf.pc, rf.client)
    BY <2>3 DEF Read, Selected, Described
  <2> QED
    BY Zenon, <2>2, <2>4, SelectKept
<1>7. CASE UNCHANGED rf
  BY Zenon, <1>7 DEF SelectInv, asked
<1> QED
  BY Zenon, <1>1, <1>2, <1>3, <1>4, <1>5, <1>6, <1>7 DEF NextRun

LEMMA SelectIsTrue == InputInv /\ SelectInv => SelectionIsTrue
<1> SUFFICES ASSUME InputInv, SelectInv, rf.client # {}, NEW t \in rf.target
             PROVE  LET r == nested(rf.submitted)
                        ids == over(rf.submitted.runner_id, r.id)
                        services == over(rf.submitted.runner_service, r.service)
                        required == UNION over(rf.submitted.required_entitlements, r.required_entitlements)
                    IN /\ rf.specimen.runner_provenance = {t}
                       /\ over(over(rf.submitted.runner_mode, r.mode), rf.parsed.runner_mode_arg) \subseteq {t.kind}
                       /\ required # {} => \E w \in t.worker : ~w.error /\ required \subseteq w.granted
                       /\ (t.registry_id = {}) = (ids \cup services = {})
                       /\ t.registry_id # {} =>
                            \E i \in DOMAIN rf.consulted.runners :
                              LET record == rf.consulted.runners[i]
                              IN /\ record.state = "installed" /\ record.current_protocol
                                 /\ {record.id} = t.registry_id /\ record.service_name = t.service_name
                                 /\ IF ids # {} THEN ids = {record.id} ELSE services = {record.service_name}
                                 /\ (record.scope = "system") = (t.connection = "mach_privileged")
                                 /\ record.worker = t.worker
                       /\ \A role \in Roles : \A b \in rf.specimen.binaries[role] :
                            /\ b.verification = "match" =>
                                 b.actual_sha256 = baseline(rf.manifest, role) /\ b.actual_sha256 # {}
                            /\ b.baseline_sha256 = baseline(rf.manifest, role)
                       /\ \A role \in Roles : rf.specimen.binaries[role] = {} =>
                            t.bundle = "app" \/ override_for(rf.submitted, role) = "app"
  BY Zenon DEF SelectionIsTrue
<1>1. /\ asked.mode \subseteq {"standard", "byoxpc"}
      /\ rf.target = resolve_runner_target_with_registry(rf.manifest, rf.consulted, asked)
      /\ rf.specimen.runner_provenance = rf.target
      /\ BinariesTrue(rf.specimen.binaries, t, rf.submitted, rf.manifest)
  BY Zenon DEF SelectInv, Read, Selected, Described
<1>2. AsSelected(t, asked, rf.consulted) /\ rf.target = {t}
  BY Zenon, TargetNow DEF Read, Selected
<1> DEFINE r == nested(rf.submitted)
           ids == over(rf.submitted.runner_id, r.id)
           services == over(rf.submitted.runner_service, r.service)
           required == UNION over(rf.submitted.required_entitlements, r.required_entitlements)
           modes == over(over(rf.submitted.runner_mode, r.mode), rf.parsed.runner_mode_arg)
<1>3. /\ asked.runner_id = ids /\ asked.runner_service = services
      /\ asked.required_entitlements = required /\ asked.mode = modes
  BY Zenon DEF asked, chosen
<1>4. /\ \A role \in Roles : \A b \in rf.specimen.binaries[role] :
           /\ b.verification = "match" =>
                b.actual_sha256 = baseline(rf.manifest, role) /\ b.actual_sha256 # {}
           /\ b.baseline_sha256 = baseline(rf.manifest, role)
      /\ \A role \in Roles : rf.specimen.binaries[role] = {} =>
           t.bundle = "app" \/ override_for(rf.submitted, role) = "app"
  BY Zenon, <1>1 DEF BinariesTrue, RecordsTrue
<1>5. /\ modes \subseteq {t.kind}
      /\ required # {} => \E w \in t.worker : ~w.error /\ required \subseteq w.granted
      /\ (t.registry_id = {}) = (ids \cup services = {})
      /\ t.registry_id # {} =>
           \E i \in DOMAIN rf.consulted.runners :
             LET record == rf.consulted.runners[i]
             IN /\ record.state = "installed" /\ record.current_protocol
                /\ {record.id} = t.registry_id /\ record.service_name = t.service_name
                /\ IF ids # {} THEN ids = {record.id} ELSE services = {record.service_name}
                /\ (record.scope = "system") = (t.connection = "mach_privileged")
                /\ record.worker = t.worker
  <2> HIDE DEF ids, services, required, modes
  <2>1. modes \subseteq {t.kind} /\ ((t.registry_id = {}) = (ids \cup services = {}))
    BY ONLY <1>2, <1>3, Zenon DEF AsSelected
  <2>2. required # {} => \E w \in t.worker : ~w.error /\ required \subseteq w.granted
    BY ONLY <1>2, <1>3, Zenon DEF AsSelected
  <2>3. ASSUME t.registry_id # {}
        PROVE  \E i \in DOMAIN rf.consulted.runners :
                 LET record == rf.consulted.runners[i]
                 IN /\ record.state = "installed" /\ record.current_protocol
                    /\ {record.id} = t.registry_id /\ record.service_name = t.service_name
                    /\ IF ids # {} THEN ids = {record.id} ELSE services = {record.service_name}
                    /\ (record.scope = "system") = (t.connection = "mach_privileged")
                    /\ record.worker = t.worker
    BY ONLY <1>2, <1>3, <2>3, Zenon DEF AsSelected
  <2> QED
    BY ONLY <2>1, <2>2, <2>3, Zenon
<1>6. rf.specimen.runner_provenance = {t}
  BY ONLY <1>1, <1>2, Zenon
<1> QED
  BY ONLY <1>4, <1>5, <1>6, Zenon

\* The runner invoked is the one the request and the command line name, whatever is
\* replaced while the run reads it.
THEOREM SelectionIsTrueHolds == RunSpec => []SelectionIsTrue
<1>1. rf \in RunStarts => EndInv /\ InputInv /\ SelectInv
  BY Zenon, InitEnd, InitInput, InitSelect
<1>2. EndInv /\ InputInv /\ SelectInv /\ [NextRun]_rf => EndInv' /\ InputInv' /\ SelectInv'
  BY Zenon, NextEnd, NextInput, NextSelect DEF EndInv
<1> QED
  BY <1>1, <1>2, SelectIsTrue, PTL DEF RunSpec

-----------------------------------------------------------------------------
(* The specimen.                                                            *)

\* Each augment's text follows the source, in the order of the names.
Follows(t, s, names) ==
  /\ Len(t) = Len(s) + Len(names)
  /\ SubSeq(t, 1, Len(s)) = s
  /\ \A i \in DOMAIN names : t[Len(s) + i][1] = names[i]

LEMMA SplicedTexts ==
  ASSUME NEW names, array(names), NEW s, array(s), NEW library, AugmentsForm(library),
         \A n \in Range(names) : n \in DOMAIN library /\ library[n] # {}
  PROVE  Follows(s \o spliced(names, library), s, names)
<1> DEFINE x == spliced(names, library)
           V == {x[i] : i \in DOMAIN names}
<1>1. DOMAIN names = 1..Len(names) /\ Len(names) \in Nat
  BY DEF array
<1>2. x = [i \in 1..Len(names) |-> CHOOSE text \in library[names[i]] : TRUE]
  BY Zenon, <1>1 DEF spliced
<1>3. \A i \in DOMAIN names : x[i][1] = names[i]
  <2> SUFFICES ASSUME NEW i \in DOMAIN names PROVE x[i][1] = names[i]
    BY Zenon
  <2>1. names[i] \in DOMAIN library /\ library[names[i]] # {}
    BY Zenon DEF Range
  <2>2. x[i] \in library[names[i]]
    BY Zenon, <1>1, <1>2, <2>1
  <2> QED
    BY Zenon, <2>1, <2>2 DEF AugmentsForm
<1>4. x \in Seq(V) /\ Len(x) = Len(names)
  <2>1. x = [i \in 1..Len(names) |-> x[i]]
    BY Zenon, <1>2
  <2>2. \A i \in 1..Len(names) : x[i] \in V
    BY Zenon, <1>1
  <2> HIDE DEF x, V
  <2> QED
    BY ONLY <1>1, <2>1, <2>2
<1>5. s \in Seq(Range(s))
  BY Zenon DEF array
<1> DEFINE W == Range(s) \cup V
<1>6. s \in Seq(W) /\ x \in Seq(W)
  BY ONLY <1>4, <1>5
<1> HIDE DEF x, V, W
<1>7. /\ Len(s \o x) = Len(s) + Len(names) /\ s \o x \in Seq(W)
      /\ \A i \in 1..Len(s) : (s \o x)[i] = s[i]
      /\ \A i \in 1..Len(names) : (s \o x)[Len(s) + i] = x[i]
  BY ONLY <1>1, <1>4, <1>6
<1>8. SubSeq(s \o x, 1, Len(s)) = s
  BY ONLY <1>1, <1>6, <1>7
<1>9. \A i \in DOMAIN names : (s \o x)[Len(s) + i][1] = names[i]
  BY Zenon, <1>1, <1>3, <1>7
<1>10. Follows(s \o x, s, names)
  BY ONLY <1>7, <1>8, <1>9, Zenon DEF Follows
<1> QED
  BY Zenon, <1>10 DEF x

\* What the resolution of a policy that is not refused comes to.
Unrefused(p, r) ==
  /\ r = Resolution(r.result, {}, r.policy, r.applied)
  /\ r.result \in {"not_present", "stripped_no_op", "applied"}
  /\ r.result # "applied" => r.policy.sbpl_source = p.sbpl_source
  /\ sentFor(p, r.policy)

LEMMA Augmented ==
  ASSUME NEW p, PolicyForm(p), NEW library, AugmentsForm(library),
         resolve_policy_augments(p, library).code = {}
  PROVE  Unrefused(p, resolve_policy_augments(p, library))
<1> DEFINE r == resolve_policy_augments(p, library)
           bare == [p EXCEPT !.augments = {}]
           names == CHOOSE n \in p.augments : TRUE
           error == augmentError(names, p.sbpl_source, library)
           augmented == [bare EXCEPT !.sbpl_source = {s \o spliced(names, library) : s \in @}]
<1>1. /\ bare.augments = {} /\ bare.sbpl_source = p.sbpl_source
      /\ augmented.augments = {}
      /\ augmented.sbpl_source = {s \o spliced(names, library) : s \in p.sbpl_source}
  BY DEF PolicyForm
<1> HIDE DEF bare, augmented
<1>2. CASE p.augments = {}
  <2>1. r = Resolution("not_present", {}, p, <<>>)
    BY Zenon, <1>2 DEF resolve_policy_augments
  <2>2. r.result = "not_present" /\ r.policy = p /\ r.applied = <<>>
    BY ONLY <2>1 DEF Resolution
  <2>3. sentFor(p, p)
    BY ONLY <1>2, Zenon DEF sentFor
  <2> QED
    BY ONLY <2>1, <2>2, <2>3, Zenon DEF Unrefused
<1>3. ASSUME p.augments # {} PROVE p.augments = {names}
  <2>1. names \in p.augments /\ optional(p.augments)
    BY Zenon, <1>3 DEF PolicyForm
  <2> HIDE DEF names
  <2> QED
    BY ONLY <2>1, Zenon DEF optional
<1>4. CASE p.augments # {} /\ names = <<>>
  <2>1. r = Resolution("stripped_no_op", {}, bare, <<>>)
    BY Zenon, <1>4 DEF resolve_policy_augments, bare
  <2>2. r.result = "stripped_no_op" /\ r.policy = bare /\ r.applied = <<>>
    BY ONLY <2>1 DEF Resolution
  <2>3. sentFor(p, bare)
    <3>1. p.augments = {<<>>}
      BY Zenon, <1>3, <1>4
    <3> QED
      BY ONLY <1>1, <3>1, Zenon DEF sentFor
  <2> QED
    BY ONLY <1>1, <2>1, <2>2, <2>3, Zenon DEF Unrefused
<1>5. CASE p.augments # {} /\ names # <<>>
  <2>1. error = {}
    <3>1. ASSUME error # {} PROVE FALSE
      <4>1. r = Resolution("bad_request", error, bare, <<>>)
        BY Zenon, <1>5, <3>1 DEF resolve_policy_augments, bare
      <4> HIDE DEF error
      <4>2. r.code = error
        BY ONLY <4>1 DEF Resolution
      <4> QED
        BY Zenon, <3>1, <4>2
    <3> QED
      BY Zenon, <3>1
  <2>2. r = Resolution("applied", {}, augmented, names)
    BY Zenon, <1>5, <2>1 DEF resolve_policy_augments, augmented, bare
  <2>3. p.sbpl_source # {} /\ \A m \in Range(names) : m \in DOMAIN library /\ library[m] # {}
    <3> DEFINE e1 == IF Mistyped \in Range(names) THEN {"type_mismatch"} ELSE {}
               e2 == IF p.sbpl_source = {} THEN {"missing_policy_source"}
                     ELSE IF as_str(p.sbpl_source) = {} THEN {"type_mismatch"} ELSE {}
               e3 == IF InvalidName \in Range(names) THEN {"invalid_value"} ELSE {}
               e4 == IF \E m \in Range(names) : m \notin DOMAIN library \/ library[m] = {}
                     THEN {"augment_unavailable"} ELSE {}
               e == <<e1, e2, e3, e4>>
    <3>1. firstOf(e) = {}
      BY Zenon, <2>1 DEF augmentError
    <3> HIDE DEF e1, e2, e3, e4
    <3>2. DOMAIN e = 1..4 /\ e[2] = e2 /\ e[4] = e4
      OBVIOUS
    <3> HIDE DEF e
    <3>3. \A k \in 1..4 : (\A j \in 1..(k - 1) : e[j] = {}) => e[k] = {}
      BY Zenon, <3>1, <3>2, NoErrorAt
    <3>4. e[1] = {}
      BY ONLY <3>3
    <3>5. e[2] = {}
      BY ONLY <3>3, <3>4
    <3>6. e[3] = {}
      BY ONLY <3>3, <3>4, <3>5
    <3>7. e[4] = {}
      BY ONLY <3>3, <3>4, <3>5, <3>6
    <3>8. e2 = {} /\ e4 = {}
      BY Zenon, <3>2, <3>5, <3>7
    <3> QED
      BY ONLY <3>8, Zenon DEF e2, e4
  <2>4. PICK s \in p.sbpl_source : TRUE
    BY Zenon, <2>3
  <2>5. names \in p.augments /\ array(names) /\ array(s)
    BY Zenon, <1>3, <1>5 DEF PolicyForm
  <2> DEFINE t == s \o spliced(names, library)
  <2> HIDE DEF names
  <2>6. Follows(t, s, names)
    BY ONLY AugmentsForm(library), <2>3, <2>5, SplicedTexts, Zenon
  <2>7. t \in augmented.sbpl_source
    BY Zenon, <1>1
  <2> HIDE DEF t
  <2>8. sentFor(p, augmented)
    BY ONLY <1>1, <2>4, <2>5, <2>6, <2>7, Zenon DEF sentFor, Follows
  <2>9. r.result = "applied" /\ r.policy = augmented /\ r.applied = names
    BY ONLY <2>2 DEF Resolution
  <2> QED
    BY ONLY <2>2, <2>8, <2>9, Zenon DEF Unrefused
<1> QED
  BY Zenon, <1>2, <1>4, <1>5

LEMMA PolicyDescribed ==
  ASSUME NEW policy, optional(policy), \A p \in policy : PolicyForm(p),
         NEW library, AugmentsForm(library), resolvePolicy(policy, library).code = {}
  PROVE  describes(policy_dossier(string_source(policy), resolvePolicy(policy, library)),
                   policy, resolvePolicy(policy, library).policy)
<1> DEFINE r == resolvePolicy(policy, library)
           original == string_source(policy)
           selected == string_source(r.policy)
           d == policy_dossier(original, r)
<1>1. CASE policy = {}
  <2>1. r = Resolution("not_present", {}, {}, <<>>)
    BY Zenon, <1>1 DEF resolvePolicy
  <2>2. r.result = "not_present" /\ r.policy = {}
    BY ONLY <2>1 DEF Resolution
  <2>3. original = {} /\ selected = {}
    BY Zenon, <1>1, <2>2 DEF string_source
  <2> HIDE DEF r, original
  <2>4. /\ d.augmentation = Augmentation("not_applicable", <<>>, {}, {})
        /\ d.imports = {}
    BY ONLY <2>2, <2>3 DEF policy_dossier
  <2>5. d.augmentation.original_sha256 = {} /\ d.augmentation.applied_sha256 = {}
    BY ONLY <2>4 DEF Augmentation
  <2> QED
    BY ONLY <1>1, <2>2, <2>3, <2>4, <2>5, Zenon DEF describes, original, r
<1>2. CASE policy # {}
  <2>1. PICK p \in policy : TRUE
    BY Zenon, <1>2
  <2>2. policy = {p}
    BY Zenon, <2>1 DEF optional
  <2> DEFINE w == resolve_policy_augments(p, library)
  <2>3. r = [w EXCEPT !.policy = {@}]
    BY Zenon, <1>2, <2>2 DEF resolvePolicy
  <2>4. DOMAIN w = {"result", "code", "policy", "applied"}
    BY DEF resolve_policy_augments, Resolution
  <2> HIDE DEF w, r
  <2>5. r.result = w.result /\ r.code = w.code /\ r.policy = {w.policy}
    BY ONLY <2>3, <2>4
  <2>6. Unrefused(p, w)
    BY Zenon, <2>1, <2>5, Augmented DEF w, r
  <2>7. original = as_str(p.sbpl_source) /\ selected = as_str(w.policy.sbpl_source)
    BY Zenon, <2>2, <2>5 DEF string_source
  <2> HIDE DEF original, selected
  <2>8. d.imports = selected
    <3>1. r.result # "bad_request"
      BY ONLY <2>5, <2>6 DEF Unrefused
    <3> QED
      BY ONLY <3>1 DEF policy_dossier, selected
  <2>9. d.augmentation.original_sha256 = original /\ d.augmentation.applied_sha256 = selected
    <3>1. CASE r.result \in {"not_present", "stripped_no_op"}
      <4>1. selected = original
        BY ONLY <2>5, <2>6, <2>7, <3>1 DEF Unrefused
      <4>2. CASE original = {}
        <5>1. d.augmentation = Augmentation("not_applicable", <<>>, {}, {})
          BY ONLY <3>1, <4>2 DEF policy_dossier
        <5> QED
          BY ONLY <4>1, <4>2, <5>1 DEF Augmentation
      <4>3. CASE original # {}
        <5>1. d.augmentation = Augmentation("not_requested", <<>>, original, original)
          BY ONLY <3>1, <4>3 DEF policy_dossier
        <5> QED
          BY ONLY <4>1, <5>1 DEF Augmentation
      <4> QED
        BY Zenon, <4>2, <4>3
    <3>2. CASE r.result = "applied"
      <4>1. d.augmentation = Augmentation("applied", r.applied, original, selected)
        BY ONLY <3>2 DEF policy_dossier, selected
      <4> QED
        BY ONLY <4>1 DEF Augmentation
    <3> QED
      BY ONLY <2>5, <2>6, <3>1, <3>2, Zenon DEF Unrefused
  <2> HIDE DEF d
  <2>10. \A p2 \in policy, q \in r.policy : sentFor(p2, q)
    BY ONLY <2>2, <2>5, <2>6, Zenon DEF Unrefused
  <2>11. (policy = {}) = (r.policy = {})
    BY ONLY <2>2, <2>5, Zenon
  <2> QED
    BY ONLY <2>8, <2>9, <2>10, <2>11, Zenon DEF describes, original, selected, d, r
<1> QED
  BY Zenon, <1>1, <1>2

\* The timeout is rounded up to whole ticks: it is all left to the client.
LEMMA RoundedUp ==
  ASSUME NEW a \in Nat, NEW n \in Nat \ {0}
  PROVE  /\ ((a + n - 1) \div n) \in Int
         /\ ((a + n - 1) \div n) * n >= a
<1>1. n \in Int /\ n > 0 /\ a + n - 1 \in Int
  OBVIOUS
<1>2. PICK x \in Int : x = a + n - 1
  BY <1>1
<1>3. x \div n \in Int /\ x % n \in Int /\ x % n < n /\ x = n * (x \div n) + (x % n)
  BY ONLY <1>1, <1>2
<1> DEFINE q == x \div n
           m == x % n
<1> HIDE DEF q, m
<1>4. q \in Int /\ m \in Int /\ m < n /\ x = n * q + m
  BY <1>3 DEF q, m
<1>5. n * q \in Int /\ q * n = n * q
  BY ONLY <1>1, <1>4
<1>6. q * n >= a
  BY <1>1, <1>2, <1>4, <1>5
<1> QED
  BY <1>2, <1>4, <1>6 DEF q

LEMMA DeadlineLeaves ==
  ASSUME NEW now \in Nat, NEW ms \in Nat, NEW tb, tb[1] \in Nat \ {0}, tb[2] \in Nat \ {0}
  PROVE  \/ (deadline_ticks(now, ms, tb) - now) * tb[1] >= ms * tb[2]
         \/ deadline_ticks(now, ms, tb) = TickLimit
<1> DEFINE a == ms * tb[2]
           n == tb[1]
           ticks == (a + n - 1) \div n
<1>1. a \in Nat
  <2>1. PICK d \in Nat : d = tb[2]
    BY Zenon
  <2>2. ms * d \in Nat
    OBVIOUS
  <2> QED
    BY <2>1, <2>2
<1>2. ticks \in Int /\ ticks * n >= a
  <2> HIDE DEF a, n
  <2>1. n \in Nat \ {0}
    BY Zenon DEF n
  <2> QED
    BY <1>1, <2>1, RoundedUp
<1>3. deadline_ticks(now, ms, tb) = TickLimit \/ deadline_ticks(now, ms, tb) = now + ticks
  BY Zenon DEF deadline_ticks
<1> HIDE DEF ticks, a, n
<1>4. ASSUME deadline_ticks(now, ms, tb) = now + ticks
      PROVE  (deadline_ticks(now, ms, tb) - now) * n >= a
  <2>1. deadline_ticks(now, ms, tb) - now = ticks
    BY <1>2, <1>4
  <2> QED
    BY Zenon, <1>2, <2>1
<1> QED
  BY Zenon, <1>3, <1>4 DEF a, n

\* The actors of a request while their policies are resolved in order: those not yet
\* reached are as they were read, the others have a dossier that describes them.
Resolving(a, actors, read, refusal) ==
  /\ array(a) /\ Len(a) <= Len(read)
  /\ DOMAIN actors = DOMAIN read
  /\ \A i \in DOMAIN read :
       /\ DOMAIN actors[i] = {"actor_id", "policy"} /\ actors[i].actor_id = read[i].actor_id
       /\ i > Len(a) => actors[i] = read[i]
       /\ i <= Len(a) =>
            /\ a[i].actor_id = read[i].actor_id
            /\ refusal = {} => describes(a[i].policy, read[i].policy, actors[i].policy)

ActorsForm(read) ==
  /\ array(read)
  /\ \A i \in DOMAIN read :
       /\ DOMAIN read[i] = {"actor_id", "policy"} /\ optional(read[i].policy)
       /\ \A p \in read[i].policy : PolicyForm(p)

LEMMA NoneResolved ==
  ASSUME NEW read, ActorsForm(read), NEW refusal
  PROVE  Resolving(<<>>, read, read, refusal)
<1>1. DOMAIN read = 1..Len(read) /\ Len(read) \in Nat
  BY DEF ActorsForm, array
<1>2. array(<<>>) /\ Len(<<>>) = 0
  BY DEF array
<1>3. \A i \in DOMAIN read : i > Len(<<>>) /\ ~(i <= Len(<<>>))
  BY <1>1, <1>2
<1>4. \A i \in DOMAIN read : DOMAIN read[i] = {"actor_id", "policy"}
  BY Zenon DEF ActorsForm
<1>5. Len(<<>>) <= Len(read)
  BY <1>1, <1>2
<1> QED
  BY Zenon, <1>1, <1>2, <1>3, <1>4, <1>5 DEF Resolving

LEMMA OneMore ==
  ASSUME NEW a, array(a), NEW x
  PROVE  /\ array(Append(a, x)) /\ Len(Append(a, x)) = Len(a) + 1 /\ Len(a) \in Nat
         /\ \A i \in 1..Len(a) : Append(a, x)[i] = a[i]
         /\ Append(a, x)[Len(a) + 1] = x
<1> DEFINE V == Range(a) \cup {x}
           b == Append(a, x)
<1>1. a \in Seq(V) /\ x \in V
  BY DEF array
<1> HIDE DEF V
<1>2. /\ b \in Seq(V) /\ Len(b) = Len(a) + 1 /\ Len(a) \in Nat
      /\ \A i \in 1..Len(a) : b[i] = a[i]
      /\ b[Len(a) + 1] = x
  BY ONLY <1>1
<1> HIDE DEF b
<1>3. b \in Seq(Range(b))
  <2>1. DOMAIN b = 1..Len(b) /\ Len(b) \in Nat /\ b = [i \in 1..Len(b) |-> b[i]]
    BY ONLY <1>2
  <2>2. \A i \in 1..Len(b) : b[i] \in Range(b)
    BY Zenon, <2>1 DEF Range
  <2> QED
    BY ONLY <2>1, <2>2
<1> QED
  BY Zenon, <1>2, <1>3 DEF b, array

LEMMA ResolvingOne ==
  ASSUME NEW read, ActorsForm(read), NEW a, NEW actors, Resolving(a, actors, read, {}),
         NEW i, i = Len(a) + 1, i <= Len(actors), NEW library, AugmentsForm(library),
         NEW r, r = resolvePolicy(actors[i].policy, library)
  PROVE  Resolving(Append(a, actor_policy_dossier(actors[i], r)),
                   [actors EXCEPT ![i].policy = r.policy], read, r.code)
<1> DEFINE x == actor_policy_dossier(actors[i], r)
           b == Append(a, x)
           after == [actors EXCEPT ![i].policy = r.policy]
<1>1. /\ array(b) /\ Len(b) = i /\ Len(a) \in Nat
      /\ \A j \in 1..Len(a) : b[j] = a[j]
      /\ b[i] = x
  <2>1. array(a)
    BY Zenon DEF Resolving
  <2> HIDE DEF x
  <2>2. /\ array(b) /\ Len(b) = Len(a) + 1 /\ Len(a) \in Nat
        /\ \A j \in 1..Len(a) : b[j] = a[j]
        /\ b[Len(a) + 1] = x
    BY ONLY <2>1, OneMore, Zenon
  <2> QED
    BY Zenon, <2>2
<1>2. DOMAIN read = 1..Len(read) /\ Len(read) \in Nat
  BY DEF ActorsForm, array
<1>3. DOMAIN actors = 1..Len(read) /\ Len(actors) = Len(read)
  BY <1>2 DEF Resolving
<1>4. i \in DOMAIN read /\ i \in Nat /\ i > Len(a)
  BY <1>1, <1>2, <1>3
<1>5. actors[i] = read[i] /\ DOMAIN actors[i] = {"actor_id", "policy"}
  BY Zenon, <1>4 DEF Resolving
<1>6. /\ DOMAIN after = DOMAIN read
      /\ after[i] = [actors[i] EXCEPT !.policy = r.policy]
      /\ \A j \in DOMAIN read : j # i => after[j] = actors[j]
  BY ONLY <1>2, <1>3, <1>4
<1>7. after[i].actor_id = read[i].actor_id /\ after[i].policy = r.policy /\ DOMAIN after[i] = {"actor_id", "policy"}
  BY ONLY <1>5, <1>6
<1>8. x.actor_id = read[i].actor_id /\ x.policy = policy_dossier(string_source(read[i].policy), r)
  BY Zenon, <1>5 DEF actor_policy_dossier
<1>9. r.code = {} => describes(x.policy, read[i].policy, after[i].policy)
  <2>1. optional(read[i].policy) /\ \A p \in read[i].policy : PolicyForm(p)
    BY Zenon, <1>4 DEF ActorsForm
  <2>2. r = resolvePolicy(read[i].policy, library)
    BY Zenon, <1>5
  <2>3. r.code = {} => describes(policy_dossier(string_source(read[i].policy), r), read[i].policy, r.policy)
    BY Zenon, <2>1, <2>2, PolicyDescribed
  <2> QED
    BY Zenon, <1>7, <1>8, <2>3
<1> HIDE DEF x, b, after
<1>10. ASSUME NEW j \in DOMAIN read
       PROVE  /\ DOMAIN after[j] = {"actor_id", "policy"} /\ after[j].actor_id = read[j].actor_id
              /\ j > Len(b) => after[j] = read[j]
              /\ j <= Len(b) =>
                   /\ b[j].actor_id = read[j].actor_id
                   /\ r.code = {} => describes(b[j].policy, read[j].policy, after[j].policy)
  <2>1. CASE j = i
    <3>1. ~(j > Len(b))
      BY <1>1, <1>4, <2>1
    <3> QED
      BY Zenon, <1>1, <1>7, <1>8, <1>9, <2>1, <3>1
  <2>2. CASE j # i
    <3>1. /\ DOMAIN actors[j] = {"actor_id", "policy"} /\ actors[j].actor_id = read[j].actor_id
          /\ j > Len(a) => actors[j] = read[j]
          /\ j <= Len(a) =>
               /\ a[j].actor_id = read[j].actor_id
               /\ describes(a[j].policy, read[j].policy, actors[j].policy)
      BY Zenon DEF Resolving
    <3>2. (j > Len(b) => j > Len(a)) /\ (j <= Len(b) => j <= Len(a) /\ j \in 1..Len(a))
      BY <1>1, <1>2, <1>4, <2>2
    <3>3. after[j] = actors[j] /\ (j <= Len(b) => b[j] = a[j])
      BY Zenon, <1>1, <1>6, <2>2, <3>2
    <3> QED
      BY Zenon, <3>1, <3>2, <3>3
  <2> QED
    BY Zenon, <2>1, <2>2
<1>11. Len(b) <= Len(read)
  BY <1>1, <1>2, <1>4
<1>12. Resolving(b, after, read, r.code)
  BY Zenon, <1>1, <1>6, <1>10, <1>11 DEF Resolving
<1> QED
  BY Zenon, <1>12 DEF x, b, after

\* ObserveBinaries goes on with a specimen none of whose policies was refused.
LEMMA ObserveStep ==
  ASSUME EndInv, ObserveBinaries
  PROVE  /\ rf.pc = "observe" /\ rf.client = {} /\ rf'.client = {}
         /\ \/ rf'.pc = "printed"
            \/ /\ rf'.pc = "invoke" /\ rf.refusal = {} /\ rf.actor_refusal = {}
               /\ rf'.held = strip_runner_selector(rf.request)
               /\ rf'.specimen.policy = rf.policy /\ rf'.specimen.actors = rf.actors
<1>0. DOMAIN rf = RunFields /\ (rf.pc \in Before => rf.client = {})
  BY Zenon DEF EndInv
<1>1. rf.pc = "observe"
  BY Zenon DEF ObserveBinaries, at
<1>2. rf.client = {}
  BY <1>0, <1>1 DEF Before
<1>3. Only({"pc", "specimen", "held", "envelope"})
  BY Zenon, <1>0, Frames
<1>4. rf'.client = {}
  BY ONLY <1>2, <1>3 DEF Only, RunFields
<1> DEFINE binaries == UNION {{observe(t, rf.request, rf.manifest, rf.disk.files)} : t \in rf.target}
           specimen == [request_path |-> rf.parsed.request_path, policy |-> rf.policy,
                        actors |-> rf.actors, runner_provenance |-> rf.target,
                        app_provenance |-> rf.app_provenance,
                        binaries |-> IF binaries = {} THEN unselected ELSE CHOOSE b \in binaries : TRUE]
           refusal == firstOf(<<rf.refusal, rf.actor_refusal>>)
<1>5. \/ \E e : rf' = print(e)
      \/ /\ refusal = {}
         /\ rf' = [rf EXCEPT !.pc = "invoke", !.specimen = specimen, !.held = hold(rf.request)]
  BY Zenon DEF ObserveBinaries, tool_error, bad_request
<1>6. refusal = {} => rf.refusal = {} /\ rf.actor_refusal = {}
  BY Zenon, FirstOfTwo
<1>7. specimen.policy = rf.policy /\ specimen.actors = rf.actors
  BY Zenon
<1> HIDE DEF specimen, refusal
<1>8. CASE \E e : rf' = print(e)
  <2>1. rf'.pc = "printed"
    BY ONLY <1>0, <1>8 DEF print, RunFields
  <2> QED
    BY Zenon, <1>1, <1>2, <1>4, <2>1
<1>9. CASE refusal = {} /\ rf' = [rf EXCEPT !.pc = "invoke", !.specimen = specimen, !.held = hold(rf.request)]
  <2>1. rf'.pc = "invoke" /\ rf'.specimen = specimen /\ rf'.held = hold(rf.request)
    BY ONLY <1>0, <1>9 DEF RunFields
  <2> QED
    BY Zenon, <1>1, <1>2, <1>4, <1>6, <1>7, <1>9, <2>1 DEF hold
<1> QED
  BY Zenon, <1>5, <1>8, <1>9

Unresolved == {"start", "manifest", "request", "select", "augment"}
Resolved(pc, client) == pc \in {"actors", "observe", "invoke", "answered", "checked"} \/ client # {}

\* The request as far as it is resolved: the dossiers describe the policies they were
\* made from, in order, and the specimen holds them once none is refused.
ActorInv ==
  /\ rf.pc \in Unresolved => rf.actors = <<>> /\ rf.actor_refusal = {}
  /\ rf.pc \in {"select", "augment"} => rf.request.policy = rf.submitted.policy
  /\ Read(rf.pc, rf.client) =>
       Resolving(rf.actors, rf.request.actors, rf.submitted.actors, rf.actor_refusal)
  /\ Resolved(rf.pc, rf.client) =>
       (rf.refusal = {} => describes(rf.policy, rf.submitted.policy, rf.request.policy))
  /\ rf.pc = "observe" \/ Described(rf.pc, rf.client) =>
       (rf.actor_refusal = {} => Len(rf.actors) = Len(rf.submitted.actors))
  /\ Described(rf.pc, rf.client) =>
       /\ rf.refusal = {} /\ rf.actor_refusal = {}
       /\ rf.held = strip_runner_selector(rf.request)
       /\ rf.specimen.policy = rf.policy /\ rf.specimen.actors = rf.actors

LEMMA InitActor == rf \in RunStarts => ActorInv
<1> SUFFICES ASSUME rf \in RunStarts PROVE ActorInv
  OBVIOUS
<1>1. rf.pc = "start" /\ rf.actors = <<>> /\ rf.actor_refusal = {} /\ rf.client = {}
  BY DEF RunStarts
<1>2. ~Read(rf.pc, rf.client) /\ ~Resolved(rf.pc, rf.client) /\ ~Described(rf.pc, rf.client)
      /\ rf.pc \notin {"select", "augment", "observe"}
  BY ONLY <1>1 DEF Read, Resolved, Described
<1> QED
  BY Zenon, <1>1, <1>2 DEF ActorInv

LEMMA ActorUnread ==
  ASSUME ~Read(rf'.pc, rf'.client),
         rf'.pc \in Unresolved => rf'.actors = <<>> /\ rf'.actor_refusal = {}
  PROVE  ActorInv'
<1>1. ~Resolved(rf'.pc, rf'.client) /\ ~Described(rf'.pc, rf'.client)
      /\ rf'.pc \notin {"select", "augment", "observe"}
  BY Zenon DEF Read, Resolved, Described
<1> QED
  BY Zenon, <1>1 DEF ActorInv

LEMMA ActorKept ==
  ASSUME ActorInv, rf'.request = rf.request, rf'.submitted = rf.submitted, rf'.actors = rf.actors,
         rf'.refusal = rf.refusal, rf'.actor_refusal = rf.actor_refusal, rf'.policy = rf.policy,
         rf'.held = rf.held, rf'.specimen = rf.specimen,
         rf'.pc \in Unresolved => rf.pc \in Unresolved,
         rf'.pc \in {"select", "augment"} => rf.pc \in {"select", "augment"},
         Read(rf'.pc, rf'.client) => Read(rf.pc, rf.client),
         Resolved(rf'.pc, rf'.client) => Resolved(rf.pc, rf.client),
         rf'.pc = "observe" => rf.pc = "observe",
         Described(rf'.pc, rf'.client) => Described(rf.pc, rf.client)
  PROVE  ActorInv'
  BY Zenon DEF ActorInv

LEMMA SubmittedForm ==
  ASSUME NEW q, RequestForm(q)
  PROVE  ActorsForm(q.actors) /\ optional(q.policy) /\ \A p \in q.policy : PolicyForm(p)
  BY Zenon DEF RequestForm, ActorsForm

LEMMA NextActor ==
  ASSUME EndInv, InputInv, SelectInv, ActorInv, [NextRun]_rf
  PROVE  ActorInv'
<1>0. DOMAIN rf = RunFields /\ (rf.pc \in Before => rf.client = {})
  BY Zenon DEF EndInv
<1>1. RequestForm(rf.submitted) /\ RequestForm(rf.disk.request) /\ AugmentsForm(rf.disk.augments)
  BY Zenon, DiskParsed DEF InputInv
<1>2. ASSUME Read(rf.pc, rf.client)
      PROVE  /\ "policy" \in DOMAIN rf.request \ {"actors"} /\ "actors" \in DOMAIN rf.request \ {"policy"}
             /\ "policy" \in DOMAIN rf.request /\ "actors" \in DOMAIN rf.request
  <2>1. DOMAIN rf.request = DOMAIN rf.submitted
    BY Zenon, <1>2 DEF SelectInv
  <2> QED
    BY ONLY Zenon, <1>1, <2>1 DEF RequestForm
<1>3. CASE ParseArgument \/ ParseArguments \/ LoadManifest
  <2>1. /\ rf'.client = {} /\ rf'.pc \in {"start", "helped", "manifest", "request", "printed"}
        /\ rf.pc \in {"start", "manifest"}
    BY Zenon, <1>3, EarlySteps
  <2>2. Only({"args", "parsed"}) \/ Only({"pc", "parsed", "envelope"}) \/ Only({"pc", "manifest", "app_provenance"})
    BY Zenon, <1>0, <1>3, Frames
  <2>3. rf'.actors = rf.actors /\ rf'.actor_refusal = rf.actor_refusal
    BY ONLY <2>2 DEF Only, RunFields
  <2>4. rf.actors = <<>> /\ rf.actor_refusal = {}
    BY ONLY <2>1, ActorInv DEF ActorInv, Unresolved
  <2>5. ~Read(rf'.pc, rf'.client)
    BY ONLY <2>1 DEF Read
  <2> QED
    BY Zenon, <2>3, <2>4, <2>5, ActorUnread
<1>4. CASE ReadRequest
  <2>1. rf.pc = "request"
    BY Zenon, <1>4 DEF ReadRequest, at
  <2>2. rf.client = {} /\ rf.actors = <<>> /\ rf.actor_refusal = {}
    BY ONLY <1>0, <2>1, ActorInv DEF ActorInv, Unresolved, Before
  <2>3. Only({"pc", "submitted", "request", "envelope"})
    BY Zenon, <1>0, <1>4, Frames
  <2>4. rf'.client = {} /\ rf'.actors = <<>> /\ rf'.actor_refusal = {}
    BY ONLY <2>2, <2>3 DEF Only, RunFields
  <2> DEFINE read == rf.disk.request
             mode == rf.parsed.runner_mode_arg
             request == injected(read, mode)
  <2>5. CASE \E e : rf' = print(e)
    <3>1. rf'.pc = "printed"
      BY ONLY <1>0, <2>5 DEF print, RunFields
    <3>2. ~Read(rf'.pc, rf'.client)
      BY ONLY <2>4, <3>1 DEF Read
    <3> QED
      BY Zenon, <2>4, <3>2, ActorUnread
  <2>6. CASE rf' = [rf EXCEPT !.pc = "select", !.submitted = read, !.request = request]
    <3> HIDE DEF read, mode
    <3>1. request.policy = read.policy /\ request.actors = read.actors
      <4>1. RequestForm(read)
        BY Zenon, <1>1 DEF read
      <4>2. "policy" \in DOMAIN read \ {"runner"} /\ "actors" \in DOMAIN read \ {"runner"}
        BY ONLY <4>1 DEF RequestForm
      <4>3. \A f \in DOMAIN read \ {"runner"} : injected(read, mode)[f] = read[f]
        BY ONLY <4>1, InjectedFields, Zenon
      <4> QED
        BY ONLY <4>2, <4>3, Zenon
    <3>2. Resolving(<<>>, read.actors, read.actors, {})
      BY Zenon, <1>1, SubmittedForm, NoneResolved DEF read
    <3> HIDE DEF request
    <3>3. rf'.pc = "select" /\ rf'.submitted = read /\ rf'.request = request
      BY ONLY <1>0, <2>6 DEF RunFields
    <3>4. ~Resolved(rf'.pc, rf'.client) /\ ~Described(rf'.pc, rf'.client) /\ rf'.pc # "observe"
      BY ONLY <2>4, <3>3 DEF Resolved, Described
    <3> QED
      BY Zenon, <2>4, <3>1, <3>2, <3>3, <3>4 DEF ActorInv
  <2> QED
    BY Zenon, <1>4, <2>5, <2>6, ReadSelects
<1>5. CASE SelectRunner
  <2>1. rf.pc = "select"
    BY Zenon, <1>5 DEF SelectRunner, at
  <2>2. rf.client = {}
    BY ONLY <1>0, <2>1 DEF Before
  <2>3. Only({"pc", "consulted", "target"})
    BY Zenon, <1>0, <1>5, Frames
  <2>4. /\ rf'.request = rf.request /\ rf'.submitted = rf.submitted /\ rf'.actors = rf.actors
        /\ rf'.refusal = rf.refusal /\ rf'.actor_refusal = rf.actor_refusal /\ rf'.policy = rf.policy
        /\ rf'.held = rf.held /\ rf'.specimen = rf.specimen /\ rf'.client = {}
    BY ONLY <2>2, <2>3 DEF Only, RunFields
  <2>5. rf'.pc = "augment"
    BY <1>0, <1>5 DEF SelectRunner, RunFields
  <2>6. /\ rf.pc \in Unresolved /\ rf.pc \in {"select", "augment"} /\ Read(rf.pc, rf.client)
        /\ ~Resolved(rf'.pc, rf'.client) /\ rf'.pc # "observe" /\ ~Described(rf'.pc, rf'.client)
    BY ONLY <2>1, <2>4, <2>5 DEF Unresolved, Read, Resolved, Described
  <2> QED
    BY Zenon, <2>4, <2>6, ActorKept
<1>6. CASE ResolveAugments
  <2> DEFINE r == resolvePolicy(rf.request.policy, rf.disk.augments)
  <2>1. rf.pc = "augment"
    BY Zenon, <1>6 DEF ResolveAugments, at
  <2>2. Read(rf.pc, rf.client)
    BY ONLY <2>1 DEF Read
  <2>3. /\ rf.client = {} /\ rf'.pc = "actors" /\ rf'.request.policy = r.policy
        /\ \A f \in DOMAIN rf.request \ {"policy"} : rf'.request[f] = rf.request[f]
        /\ rf'.refusal = r.code
        /\ rf'.policy = policy_dossier(string_source(rf.request.policy), r)
    BY Zenon, <1>2, <1>6, <2>2, AugmentsStep
  <2>4. rf'.request.actors = rf.request.actors
    BY Zenon, <1>2, <2>2, <2>3
  <2>5. Only({"pc", "request", "refusal", "policy"})
    BY Zenon, <1>0, <1>6, Frames
  <2>6. /\ rf'.submitted = rf.submitted /\ rf'.actors = rf.actors
        /\ rf'.actor_refusal = rf.actor_refusal /\ rf'.client = {}
    BY ONLY <2>3, <2>5 DEF Only, RunFields
  <2>7. rf.request.policy = rf.submitted.policy
    BY Zenon, <2>1 DEF ActorInv
  <2>8. r.code = {} => describes(policy_dossier(string_source(rf.request.policy), r), rf.submitted.policy, r.policy)
    BY Zenon, <1>1, <2>7, SubmittedForm, PolicyDescribed
  <2> HIDE DEF r
  <2>9. rf'.refusal = {} => describes(rf'.policy, rf'.submitted.policy, rf'.request.policy)
    BY Zenon, <2>3, <2>6, <2>8
  <2>10. Resolving(rf'.actors, rf'.request.actors, rf'.submitted.actors, rf'.actor_refusal)
    BY Zenon, <2>2, <2>4, <2>6 DEF ActorInv
  <2>11. rf'.pc \notin Unresolved /\ rf'.pc \notin {"select", "augment", "observe"} /\ ~Described(rf'.pc, rf'.client)
    BY ONLY <2>3, <2>6 DEF Unresolved, Described
  <2> QED
    BY Zenon, <2>9, <2>10, <2>11 DEF ActorInv
<1>7. CASE ResolveActor
  <2> DEFINE i == Len(rf.actors) + 1
             actor == rf.request.actors[i]
             r == resolvePolicy(actor.policy, rf.disk.augments)
  <2>1. rf.pc = "actors"
    BY Zenon, <1>7 DEF ResolveActor, at
  <2>2. Read(rf.pc, rf.client) /\ Resolved(rf.pc, rf.client)
    BY ONLY <2>1 DEF Read, Resolved
  <2>3. /\ rf.client = {} /\ rf'.pc \in {"actors", "observe"}
        /\ \A f \in DOMAIN rf.request \ {"actors"} : rf'.request[f] = rf.request[f]
        /\ \/ /\ rf'.pc = "observe" /\ (i > Len(rf.request.actors) \/ rf.actor_refusal # {})
              /\ rf'.request = rf.request /\ rf'.actors = rf.actors
              /\ rf'.actor_refusal = rf.actor_refusal
           \/ /\ rf'.pc = "actors" /\ ~(i > Len(rf.request.actors)) /\ rf.actor_refusal = {}
              /\ rf'.request.actors = [rf.request.actors EXCEPT ![i].policy = r.policy]
              /\ rf'.actor_refusal = r.code
              /\ rf'.actors = Append(rf.actors, actor_policy_dossier(actor, r))
    BY Zenon, <1>2, <1>7, <2>2, ActorStep
  <2>4. rf'.request.policy = rf.request.policy
    BY Zenon, <1>2, <2>2, <2>3
  <2>5. Only({"pc", "request", "actor_refusal", "actors"})
    BY Zenon, <1>0, <1>7, Frames
  <2>6. /\ rf'.submitted = rf.submitted /\ rf'.refusal = rf.refusal /\ rf'.policy = rf.policy /\ rf'.client = {}
    BY ONLY Zenon, <2>3, <2>5 DEF Only, RunFields
  <2>7. /\ rf'.pc \notin Unresolved /\ rf'.pc \notin {"select", "augment"} /\ ~Described(rf'.pc, rf'.client)
    BY ONLY Zenon, <2>3, <2>6 DEF Unresolved, Described
  <2>8. rf'.refusal = {} => describes(rf'.policy, rf'.submitted.policy, rf'.request.policy)
    BY Zenon, <2>2, <2>4, <2>6 DEF ActorInv
  <2>9. Resolving(rf.actors, rf.request.actors, rf.submitted.actors, rf.actor_refusal)
    BY Zenon, <2>2 DEF ActorInv
  <2>10. ActorsForm(rf.submitted.actors)
    BY Zenon, <1>1, SubmittedForm
  <2>11. /\ Len(rf.actors) \in Nat /\ Len(rf.submitted.actors) \in Nat /\ Len(rf.actors) <= Len(rf.submitted.actors)
         /\ Len(rf.request.actors) = Len(rf.submitted.actors)
    <3> DEFINE a == rf.actors
               b == rf.request.actors
               c == rf.submitted.actors
    <3>1. array(a) /\ array(c) /\ DOMAIN b = DOMAIN c /\ Len(a) <= Len(c)
      BY Zenon, <2>9, <2>10 DEF Resolving, ActorsForm
    <3> HIDE DEF a, b, c
    <3>2. Len(a) \in Nat /\ Len(c) \in Nat /\ Len(b) = Len(c)
      BY ONLY <3>1 DEF array
    <3> QED
      BY Zenon, <3>1, <3>2 DEF a, b, c
  <2> HIDE DEF r
  <2>12. CASE /\ rf'.pc = "observe" /\ (i > Len(rf.request.actors) \/ rf.actor_refusal # {})
              /\ rf'.request = rf.request /\ rf'.actors = rf.actors
              /\ rf'.actor_refusal = rf.actor_refusal
    <3>1. rf'.actor_refusal = {} => Len(rf'.actors) = Len(rf'.submitted.actors)
      BY ONLY <2>6, <2>11, <2>12
    <3>2. Resolving(rf'.actors, rf'.request.actors, rf'.submitted.actors, rf'.actor_refusal)
      BY Zenon, <2>6, <2>9, <2>12
    <3> QED
      BY Zenon, <2>7, <2>8, <3>1, <3>2 DEF ActorInv
  <2>13. CASE /\ rf'.pc = "actors" /\ ~(i > Len(rf.request.actors)) /\ rf.actor_refusal = {}
              /\ rf'.request.actors = [rf.request.actors EXCEPT ![i].policy = r.policy]
              /\ rf'.actor_refusal = r.code
              /\ rf'.actors = Append(rf.actors, actor_policy_dossier(actor, r))
    <3>1. i <= Len(rf.request.actors)
      BY ONLY <2>11, <2>13
    <3>2. Resolving(rf.actors, rf.request.actors, rf.submitted.actors, {})
      BY Zenon, <2>9, <2>13
    <3>3. r = resolvePolicy(rf.request.actors[i].policy, rf.disk.augments)
      BY Zenon DEF r
    <3> HIDE DEF i
    <3>4. Resolving(Append(rf.actors, actor_policy_dossier(rf.request.actors[i], r)),
                    [rf.request.actors EXCEPT ![i].policy = r.policy], rf.submitted.actors, r.code)
      <4>1. i = Len(rf.actors) + 1
        BY Zenon DEF i
      <4> QED
        BY ONLY <1>1, <2>10, <3>1, <3>2, <3>3, <4>1, ResolvingOne, Zenon
    <3>5. Resolving(rf'.actors, rf'.request.actors, rf'.submitted.actors, rf'.actor_refusal)
      BY Zenon, <2>6, <2>13, <3>4
    <3>6. rf'.pc # "observe"
      BY ONLY <2>13
    <3> QED
      BY Zenon, <2>7, <2>8, <3>5, <3>6 DEF ActorInv
  <2> QED
    BY Zenon, <2>3, <2>12, <2>13
<1>8. CASE ObserveBinaries
  <2>1. /\ rf.pc = "observe" /\ rf'.client = {}
        /\ \/ rf'.pc = "printed"
           \/ /\ rf'.pc = "invoke" /\ rf.refusal = {} /\ rf.actor_refusal = {}
              /\ rf'.held = strip_runner_selector(rf.request)
              /\ rf'.specimen.policy = rf.policy /\ rf'.specimen.actors = rf.actors
    BY Zenon, <1>8, ObserveStep
  <2>2. Only({"pc", "specimen", "held", "envelope"})
    BY Zenon, <1>0, <1>8, Frames
  <2>3. /\ rf'.request = rf.request /\ rf'.submitted = rf.submitted /\ rf'.actors = rf.actors
        /\ rf'.refusal = rf.refusal /\ rf'.actor_refusal = rf.actor_refusal /\ rf'.policy = rf.policy
    BY ONLY <2>2 DEF Only, RunFields
  <2>4. CASE rf'.pc = "printed"
    <3>1. ~Read(rf'.pc, rf'.client) /\ rf'.pc \notin Unresolved
      BY ONLY <2>1, <2>4 DEF Read, Unresolved
    <3> QED
      BY Zenon, <3>1, ActorUnread
  <2>5. CASE rf'.pc = "invoke"
    <3>1. /\ rf.refusal = {} /\ rf.actor_refusal = {} /\ rf'.held = strip_runner_selector(rf.request)
          /\ rf'.specimen.policy = rf.policy /\ rf'.specimen.actors = rf.actors
      BY ONLY <2>1, <2>5
    <3>2. rf'.pc \notin Unresolved /\ rf'.pc \notin {"select", "augment"}
      BY ONLY <2>5 DEF Unresolved
    <3>3. Read(rf.pc, rf.client) /\ Resolved(rf.pc, rf.client)
      BY ONLY <2>1 DEF Read, Resolved
    <3>4. /\ Resolving(rf.actors, rf.request.actors, rf.submitted.actors, rf.actor_refusal)
          /\ rf.refusal = {} => describes(rf.policy, rf.submitted.policy, rf.request.policy)
          /\ rf.actor_refusal = {} => Len(rf.actors) = Len(rf.submitted.actors)
      BY Zenon, <2>1, <3>3 DEF ActorInv
    <3> QED
      BY Zenon, <2>3, <3>1, <3>2, <3>4 DEF ActorInv
  <2> QED
    BY Zenon, <2>1, <2>4, <2>5
<1>9. CASE InvokeClient \/ FallbackCheck \/ NoFallback \/ PrintEnvelope \/ ReplaceFile
  <2>1. \/ Only({"pc", "client", "deadline", "envelope"}) \/ Only({"pc", "policy_check", "checked"})
        \/ Only({"pc"}) \/ Only({"pc", "envelope"}) \/ Only({"disk", "replaced"})
    BY Zenon, <1>0, <1>9, Frames
  <2>2. /\ rf'.request = rf.request /\ rf'.submitted = rf.submitted /\ rf'.actors = rf.actors
        /\ rf'.refusal = rf.refusal /\ rf'.actor_refusal = rf.actor_refusal /\ rf'.policy = rf.policy
        /\ rf'.held = rf.held /\ rf'.specimen = rf.specimen
    BY ONLY <2>1 DEF Only, RunFields
  <2>3. \/ rf'.pc = rf.pc /\ rf'.client = rf.client
        \/ rf.pc \in {"invoke", "answered", "checked"} /\ rf'.pc \in {"answered", "checked", "printed"}
    BY Zenon, <1>9, LateSteps
  <2>4. /\ rf'.pc \in Unresolved => rf.pc \in Unresolved
        /\ rf'.pc \in {"select", "augment"} => rf.pc \in {"select", "augment"}
        /\ Read(rf'.pc, rf'.client) => Read(rf.pc, rf.client)
        /\ Resolved(rf'.pc, rf'.client) => Resolved(rf.pc, rf.client)
        /\ rf'.pc = "observe" => rf.pc = "observe"
        /\ Described(rf'.pc, rf'.client) => Described(rf.pc, rf.client)
    BY ONLY <2>3 DEF Unresolved, Read, Resolved, Described
  <2> QED
    BY Zenon, <2>2, <2>4, ActorKept
<1>10. CASE UNCHANGED rf
  BY Zenon, <1>10 DEF ActorInv
<1> QED
  BY Zenon, <1>3, <1>4, <1>5, <1>6, <1>7, <1>8, <1>9, <1>10 DEF NextRun

\* What is left once the request is in hand: the deadline is the timeout from the
\* clock read before the client was spawned, and the fallback compiler is given the
\* policies of the request that was sent.
ServeInv ==
  /\ rf.now \in Nat /\ rf.timebase[1] \in Nat \ {0} /\ rf.timebase[2] \in Nat \ {0}
  /\ rf.client # {} => rf.deadline = deadline_ticks(rf.now, rf.parsed.timeout_ms, rf.timebase)
  /\ rf.pc \in Before \cup {"answered"} => rf.checked = {}
  /\ \A k \in rf.checked : k.policy = rf.held.policy /\ k.actors = actor_policies

LEMMA InitServe == rf \in RunStarts => ServeInv
<1> SUFFICES ASSUME rf \in RunStarts PROVE ServeInv
  OBVIOUS
<1>1. PICK r \in Runs : rf.now = r.now /\ rf.timebase = r.timebase /\ rf.client = {} /\ rf.checked = {}
  BY DEF RunStarts
<1> QED
  BY Zenon, <1>1, InputAssumption DEF ServeInv

LEMMA NextServe ==
  ASSUME EndInv, ServeInv, [NextRun]_rf
  PROVE  ServeInv'
<1>0. DOMAIN rf = RunFields /\ (rf.pc \in Before => rf.client = {})
  BY Zenon DEF EndInv
<1>1. CASE \/ ParseArgument \/ ParseArguments \/ LoadManifest \/ ReadRequest \/ SelectRunner
           \/ ResolveAugments \/ ResolveActor \/ ObserveBinaries
  <2>1. \/ Only({"args", "parsed"}) \/ Only({"pc", "parsed", "envelope"}) \/ Only({"pc", "manifest", "app_provenance"})
        \/ Only({"pc", "submitted", "request", "envelope"}) \/ Only({"pc", "consulted", "target"})
        \/ Only({"pc", "request", "refusal", "policy"}) \/ Only({"pc", "request", "actor_refusal", "actors"})
        \/ Only({"pc", "specimen", "held", "envelope"})
    BY Zenon, <1>0, <1>1, Frames
  <2>2. rf'.now = rf.now /\ rf'.timebase = rf.timebase /\ rf'.client = rf.client /\ rf'.checked = rf.checked
    BY ONLY <2>1 DEF Only, RunFields
  <2>3. rf.pc \in Before
    BY Zenon, <1>1 DEF ParseArgument, ParseArguments, LoadManifest, ReadRequest, SelectRunner,
                ResolveAugments, ResolveActor, ObserveBinaries, at, Before
  <2>4. rf'.client = {} /\ rf'.checked = {}
    BY Zenon, <1>0, <2>2, <2>3 DEF ServeInv
  <2> QED
    BY Zenon, <2>2, <2>4 DEF ServeInv
<1>2. CASE InvokeClient
  <2>1. rf.pc = "invoke"
    BY Zenon, <1>2 DEF InvokeClient, at
  <2>2. rf.pc \in Before
    BY ONLY <2>1 DEF Before
  <2>3. Only({"pc", "client", "deadline", "envelope"})
    BY Zenon, <1>0, <1>2, Frames
  <2>4. /\ rf'.now = rf.now /\ rf'.timebase = rf.timebase /\ rf'.parsed = rf.parsed /\ rf'.checked = rf.checked
    BY ONLY <2>3 DEF Only, RunFields
  <2>5. rf.client = {} /\ rf'.checked = {}
    BY Zenon, <1>0, <2>2, <2>4 DEF ServeInv
  <2> DEFINE d == deadline_ticks(rf.now, rf.parsed.timeout_ms, rf.timebase)
  <2>6. \/ \E e : rf' = print(e)
        \/ \E c \in Clients : rf' = [rf EXCEPT !.pc = "answered", !.client = {c}, !.deadline = d]
    BY Zenon, <1>2 DEF InvokeClient, tool_error
  <2> HIDE DEF d
  <2>7. rf'.client # {} => rf'.deadline = d
    BY ONLY Zenon, <1>0, <2>5, <2>6 DEF RunFields, print
  <2> QED
    BY Zenon, <2>4, <2>5, <2>7 DEF ServeInv, d
<1>3. CASE FallbackCheck
  <2>1. rf.pc = "answered"
    BY Zenon, <1>3 DEF FallbackCheck, at
  <2>2. Only({"pc", "policy_check", "checked"})
    BY Zenon, <1>0, <1>3, Frames
  <2>3. /\ rf'.now = rf.now /\ rf'.timebase = rf.timebase /\ rf'.parsed = rf.parsed /\ rf'.client = rf.client
        /\ rf'.deadline = rf.deadline /\ rf'.held = rf.held /\ rf'.request = rf.request
    BY ONLY <2>2 DEF Only, RunFields
  <2>4. rf'.pc = "checked" /\ rf'.checked = {[policy |-> rf.held.policy, actors |-> actor_policies]}
    <3>1. PICK check \in Checks :
            rf' = [rf EXCEPT !.pc = "checked", !.policy_check = {parse_policy_check_output(check)},
                             !.checked = {[policy |-> rf.held.policy, actors |-> actor_policies]}]
      BY Zenon, <1>3 DEF FallbackCheck
    <3> QED
      BY ONLY <1>0, <3>1 DEF RunFields
  <2>5. rf'.pc \notin Before \cup {"answered"}
    BY ONLY <2>4 DEF Before
  <2>6. actor_policies' = actor_policies
    BY Zenon, <2>3 DEF actor_policies
  <2>7. \A k \in rf'.checked : k.policy = rf'.held.policy /\ k.actors = actor_policies'
    <3> DEFINE k0 == [policy |-> rf.held.policy, actors |-> actor_policies]
    <3>1. k0.policy = rf.held.policy /\ k0.actors = actor_policies
      BY Zenon
    <3>2. rf'.checked = {k0}
      BY Zenon, <2>4
    <3> HIDE DEF k0
    <3> QED
      BY Zenon, <2>3, <2>6, <3>1, <3>2
  <2> QED
    BY Zenon, <2>3, <2>5, <2>7 DEF ServeInv
<1>4. CASE NoFallback \/ PrintEnvelope \/ ReplaceFile
  <2>1. Only({"pc"}) \/ Only({"pc", "envelope"}) \/ Only({"disk", "replaced"})
    BY Zenon, <1>0, <1>4, Frames
  <2>2. /\ rf'.now = rf.now /\ rf'.timebase = rf.timebase /\ rf'.parsed = rf.parsed /\ rf'.client = rf.client
        /\ rf'.deadline = rf.deadline /\ rf'.held = rf.held /\ rf'.request = rf.request
        /\ rf'.checked = rf.checked
    BY ONLY <2>1 DEF Only, RunFields
  <2>3. rf'.pc \in Before \cup {"answered"} => rf.pc \in Before \cup {"answered"}
    <3>1. CASE NoFallback
      BY <1>0, <3>1 DEF NoFallback, RunFields, Before
    <3>2. CASE PrintEnvelope
      <4>1. \E e : rf' = print(e)
        BY Zenon, <3>2 DEF PrintEnvelope
      <4> QED
        BY ONLY <1>0, <4>1 DEF RunFields, print, Before
    <3>3. CASE ReplaceFile
      <4>1. Only({"disk", "replaced"})
        BY Zenon, <1>0, <3>3, Frames
      <4> QED
        BY ONLY <4>1 DEF Only, RunFields
    <3> QED
      BY Zenon, <1>4, <3>1, <3>2, <3>3
  <2>4. actor_policies' = actor_policies
    BY Zenon, <2>2 DEF actor_policies
  <2> QED
    BY Zenon, <2>2, <2>3, <2>4 DEF ServeInv
<1>5. CASE UNCHANGED rf
  BY Zenon, <1>5 DEF ServeInv, actor_policies
<1> QED
  BY Zenon, <1>1, <1>2, <1>3, <1>4, <1>5 DEF NextRun

Prepended(x, f, n) ==
  /\ DOMAIN (<<x>> \o f) = 1..(n + 1)
  /\ (<<x>> \o f)[1] = x
  /\ \A i \in 1..n : (<<x>> \o f)[i + 1] = f[i]

LEMMA FirstAndRest ==
  ASSUME NEW x, NEW n \in Nat, NEW f, f = [i \in 1..n |-> f[i]]
  PROVE  Prepended(x, f, n)
<1> DEFINE V == {f[i] : i \in 1..n} \cup {x}
<1>1. \A i \in 1..n : f[i] \in V
  BY Zenon
<1>2. x \in V
  BY Zenon
<1> HIDE DEF V
<1>3. f \in Seq(V) /\ Len(f) = n
  BY <1>1
<1>4. <<x>> \in Seq(V) /\ Len(<<x>>) = 1 /\ <<x>>[1] = x
  BY ONLY <1>2
<1> QED
  BY ONLY n \in Nat, <1>3, <1>4 DEF Prepended

LEMMA SpecimenIsDescribed == EndInv /\ InputInv /\ SelectInv /\ ActorInv /\ ServeInv => SpecimenDescribed
<1> SUFFICES ASSUME EndInv, InputInv, SelectInv, ActorInv, ServeInv, rf.client # {}
             PROVE  SpecimenDescribed
  BY Zenon DEF SpecimenDescribed
<1> DEFINE sent == rf.held
           read == rf.submitted
           d == rf.specimen
           all(request) == <<request.policy>> \o [i \in DOMAIN request.actors |-> request.actors[i].policy]
           dossiers == <<d.policy>> \o [i \in DOMAIN d.actors |-> d.actors[i].policy]
           ids(actors) == [i \in DOMAIN actors |-> actors[i].actor_id]
<1>1. Read(rf.pc, rf.client) /\ Resolved(rf.pc, rf.client) /\ Described(rf.pc, rf.client)
  BY Zenon DEF Read, Resolved, Described
<1>2. /\ RequestForm(read) /\ ParsedForm(rf.parsed)
      /\ DOMAIN rf.request = DOMAIN read /\ rf.request.overrides = read.overrides
      /\ sent = strip_runner_selector(rf.request)
      /\ d.policy = rf.policy /\ d.actors = rf.actors
      /\ Len(rf.actors) = Len(read.actors)
      /\ describes(rf.policy, read.policy, rf.request.policy)
      /\ Resolving(rf.actors, rf.request.actors, read.actors, {})
  BY Zenon, <1>1 DEF InputInv, SelectInv, ActorInv
<1>3. /\ \A f \in SELECTOR_FIELDS : sent[f] = {}
      /\ sent.overrides = read.overrides /\ sent.policy = rf.request.policy /\ sent.actors = rf.request.actors
  <2> DEFINE q == rf.request
  <2>1. /\ DOMAIN q = SELECTOR_FIELDS \cup {"file", "json", "schema_version", "policy", "actors", "overrides"}
        /\ sent = [f \in DOMAIN q |-> IF f \in SELECTOR_FIELDS THEN {} ELSE q[f]]
    BY Zenon, <1>2 DEF RequestForm, strip_runner_selector
  <2> HIDE DEF sent, q
  <2>2. "overrides" \notin SELECTOR_FIELDS /\ "policy" \notin SELECTOR_FIELDS /\ "actors" \notin SELECTOR_FIELDS
    BY ONLY TRUE DEF SELECTOR_FIELDS, NoSelector
  <2>3. \A f \in SELECTOR_FIELDS : sent[f] = {}
    BY ONLY <2>1, Zenon
  <2>4. sent.overrides = q.overrides /\ sent.policy = q.policy /\ sent.actors = q.actors
    BY ONLY <2>1, <2>2
  <2> QED
    BY Zenon, <1>2, <2>3, <2>4 DEF q
<1> DEFINE n == Len(read.actors)
<1>4. /\ n \in Nat /\ DOMAIN read.actors = 1..n /\ DOMAIN sent.actors = 1..n /\ DOMAIN d.actors = 1..n
  <2> DEFINE a == rf.actors
             b == rf.request.actors
             c == read.actors
  <2>1. array(a) /\ array(c) /\ DOMAIN b = DOMAIN c /\ Len(a) = Len(c)
    BY Zenon, <1>2, SubmittedForm DEF Resolving, ActorsForm
  <2> HIDE DEF a, b, c
  <2>2. Len(c) \in Nat /\ DOMAIN c = 1..Len(c) /\ DOMAIN b = 1..Len(c) /\ DOMAIN a = 1..Len(c)
    BY ONLY <2>1 DEF array
  <2> QED
    BY Zenon, <1>2, <1>3, <2>2 DEF a, b, c
<1>5. \A i \in 1..n : /\ sent.actors[i].actor_id = read.actors[i].actor_id
                      /\ d.actors[i].actor_id = read.actors[i].actor_id
                      /\ describes(d.actors[i].policy, read.actors[i].policy, sent.actors[i].policy)
  <2> SUFFICES ASSUME NEW i \in 1..n
               PROVE  /\ sent.actors[i].actor_id = read.actors[i].actor_id
                      /\ d.actors[i].actor_id = read.actors[i].actor_id
                      /\ describes(d.actors[i].policy, read.actors[i].policy, sent.actors[i].policy)
    BY Zenon
  <2>1. i \in DOMAIN read.actors
    BY Zenon, <1>4
  <2>2. i <= Len(rf.actors)
    BY <1>2, <1>4
  <2> QED
    BY Zenon, <1>2, <1>3, <2>1, <2>2 DEF Resolving
<1>6. ids(sent.actors) = ids(read.actors) /\ ids(d.actors) = ids(sent.actors)
  BY Zenon, <1>4, <1>5
<1>7. ASSUME NEW i \in DOMAIN dossiers PROVE describes(dossiers[i], all(read)[i], all(sent)[i])
  <2> DEFINE f1 == [j \in DOMAIN d.actors |-> d.actors[j].policy]
             f2 == [j \in DOMAIN read.actors |-> read.actors[j].policy]
             f3 == [j \in DOMAIN sent.actors |-> sent.actors[j].policy]
  <2>1. /\ f1 = [j \in 1..n |-> f1[j]] /\ f2 = [j \in 1..n |-> f2[j]] /\ f3 = [j \in 1..n |-> f3[j]]
    BY Zenon, <1>4
  <2>2. \A j \in 1..n : describes(f1[j], f2[j], f3[j])
    BY Zenon, <1>4, <1>5
  <2>3. dossiers = <<d.policy>> \o f1 /\ all(read) = <<read.policy>> \o f2 /\ all(sent) = <<sent.policy>> \o f3
    BY Zenon
  <2> HIDE DEF n, f1, f2, f3, dossiers, all
  <2>4. /\ DOMAIN dossiers = 1..(n + 1) /\ dossiers[1] = d.policy /\ \A j \in 1..n : dossiers[j + 1] = f1[j]
    <3>1. Prepended(d.policy, f1, n)
      BY ONLY <1>4, <2>1, FirstAndRest, Zenon
    <3> QED
      BY Zenon, <2>3, <3>1 DEF Prepended
  <2>5. all(read)[1] = read.policy /\ \A j \in 1..n : all(read)[j + 1] = f2[j]
    <3>1. Prepended(read.policy, f2, n)
      BY ONLY <1>4, <2>1, FirstAndRest, Zenon
    <3> QED
      BY Zenon, <2>3, <3>1 DEF Prepended
  <2>6. all(sent)[1] = sent.policy /\ \A j \in 1..n : all(sent)[j + 1] = f3[j]
    <3>1. Prepended(sent.policy, f3, n)
      BY ONLY <1>4, <2>1, FirstAndRest, Zenon
    <3> QED
      BY Zenon, <2>3, <3>1 DEF Prepended
  <2>7. CASE i = 1
    BY Zenon, <1>2, <1>3, <2>4, <2>5, <2>6, <2>7
  <2>8. CASE i # 1
    <3>1. i - 1 \in 1..n /\ (i - 1) + 1 = i
      BY <1>4, <1>7, <2>4, <2>8
    <3>2. PICK j \in 1..n : j + 1 = i
      BY Zenon, <3>1
    <3> QED
      BY Zenon, <2>2, <2>4, <2>5, <2>6, <3>2
  <2> QED
    BY Zenon, <2>7, <2>8
<1>8. \A k \in rf.checked : k.policy = sent.policy /\ k.actors = withPolicy(sent.actors)
  BY Zenon, <1>3 DEF ServeInv, actor_policies
<1>9. \/ (rf.deadline - rf.now) * rf.timebase[1] >= rf.parsed.timeout_ms * rf.timebase[2]
      \/ rf.deadline = TickLimit
  <2>1. /\ rf.parsed.timeout_ms \in Nat /\ rf.now \in Nat
        /\ rf.timebase[1] \in Nat \ {0} /\ rf.timebase[2] \in Nat \ {0}
        /\ rf.deadline = deadline_ticks(rf.now, rf.parsed.timeout_ms, rf.timebase)
    BY Zenon, <1>2 DEF ServeInv, ParsedForm
  <2> QED
    BY ONLY <2>1, DeadlineLeaves, Zenon
<1> HIDE DEF sent, read, d, all, dossiers, ids
<1> QED
  BY Zenon, <1>3, <1>6, <1>7, <1>8, <1>9 DEF SpecimenDescribed, sent, read, d, all, dossiers, ids

\* The runner is sent what the request that was read says, and the dossier tells of
\* those bytes, whatever is replaced on disk in the meantime.
THEOREM SpecimenDescribedHolds == RunSpec => []SpecimenDescribed
<1>1. rf \in RunStarts => EndInv /\ InputInv /\ SelectInv /\ ActorInv /\ ServeInv
  BY Zenon, InitEnd, InitInput, InitSelect, InitActor, InitServe
<1>2. EndInv /\ InputInv /\ SelectInv /\ ActorInv /\ ServeInv /\ [NextRun]_rf
        => EndInv' /\ InputInv' /\ SelectInv' /\ ActorInv' /\ ServeInv'
  BY Zenon, NextEnd, NextInput, NextSelect, NextActor, NextServe DEF EndInv
<1> QED
  BY <1>1, <1>2, SpecimenIsDescribed, PTL DEF RunSpec

-----------------------------------------------------------------------------
(* The delivery of the request.                                             *)

Op == {"read", "drain", "stdout", "stderr"}
DeliveryErrors == SUBSET {"broken pipe"}

Delivery ==
  [pc : {"spawn", "not_launched", "collect", "join", "returned"}, script : Seq(Op),
   child : {"none", "running", "exited"}, writer : {"none", "writing", "closed"},
   written : Nat, error : DeliveryErrors, stdin : Nat, received : Nat,
   ended : BOOLEAN, produced : [Streams -> Nat], pipe : [Streams -> Nat],
   collected : [Streams -> Nat]]

\* Nothing is lost in a pipe; an error is the writer's word that the child was gone
\* before the last byte; the end of the input is seen after a whole request only; and
\* the collection ends when the child has nothing left to say.
DeliveryInv ==
  /\ cd \in Delivery
  /\ cd.received + cd.stdin = cd.written /\ cd.written <= Input
  /\ \A s \in Streams : cd.produced[s] = cd.collected[s] + cd.pipe[s]
  /\ cd.error # {} => cd.writer = "closed" /\ cd.written < Input /\ cd.child = "exited"
  /\ cd.writer = "closed" /\ cd.error = {} => cd.written = Input
  /\ cd.ended => cd.stdin = 0 /\ cd.writer = "closed" /\ cd.error = {}
  /\ cd.pc \in {"join", "returned"} => cd.child = "exited" /\ cd.pipe = Empty
  /\ cd.pc = "returned" => cd.writer = "closed"
  /\ cd.pc = "spawn" => cd.writer = "none" /\ cd.child = "none"

LEMMA ErrorTypes == {} \in DeliveryErrors /\ {"broken pipe"} \in DeliveryErrors
  BY Zenon DEF DeliveryErrors

LEMMA InitDelivery == cd \in DeliveryStarts => DeliveryInv
<1> SUFFICES ASSUME cd \in DeliveryStarts PROVE DeliveryInv
  OBVIOUS
<1>1. PICK s \in Scripts :
        cd = [pc |-> "spawn", script |-> s, child |-> "none", writer |-> "none", written |-> 0,
              error |-> {}, stdin |-> 0, received |-> 0, ended |-> FALSE,
              produced |-> Empty, pipe |-> Empty, collected |-> Empty]
  BY DEF DeliveryStarts
<1>2. s \in Seq(Op) /\ Empty \in [Streams -> Nat]
  BY ScriptsAssumption DEF Op, Empty
<1>3. cd \in Delivery
  BY Zenon, <1>1, <1>2, ErrorTypes DEF Delivery
<1> QED
  BY <1>1, <1>3, PipeAssumption DEF DeliveryInv, Empty

\* A step that changes several fields, as one record.
state(pc, script, child, writer, written, stdin, received, ended, produced, pipe, collected) ==
  [pc |-> pc, script |-> script, child |-> child, writer |-> writer, written |-> written,
   error |-> cd.error, stdin |-> stdin, received |-> received, ended |-> ended,
   produced |-> produced, pipe |-> pipe, collected |-> collected]

\* A chunk taken from a pipe is counted on the other side.
LEMMA CollectedFromPipe ==
  ASSUME NEW produced, NEW pipe \in [Streams -> Nat], NEW collected \in [Streams -> Nat],
         NEW s \in Streams, pipe[s] > 0,
         \A r \in Streams : produced[r] = collected[r] + pipe[r]
  PROVE  \A r \in Streams : produced[r] = [collected EXCEPT ![s] = @ + 1][r]
                                           + [pipe EXCEPT ![s] = @ - 1][r]
<1> SUFFICES ASSUME NEW r \in Streams
             PROVE  produced[r] = [collected EXCEPT ![s] = @ + 1][r] + [pipe EXCEPT ![s] = @ - 1][r]
  OBVIOUS
<1>1. pipe[r] \in Nat /\ collected[r] \in Nat
  OBVIOUS
<1>2. CASE r = s
  <2>1. [collected EXCEPT ![s] = @ + 1][r] = collected[r] + 1 /\ [pipe EXCEPT ![s] = @ - 1][r] = pipe[r] - 1
    BY <1>2
  <2> QED
    BY <1>1, <2>1
<1>3. CASE r # s
  <2>1. [collected EXCEPT ![s] = @ + 1][r] = collected[r] /\ [pipe EXCEPT ![s] = @ - 1][r] = pipe[r]
    BY <1>3
  <2> QED
    BY <2>1
<1> QED
  BY <1>2, <1>3

LEMMA NextDeliveryInv == DeliveryInv /\ [NextDelivery]_cd => DeliveryInv'
<1> SUFFICES ASSUME DeliveryInv, [NextDelivery]_cd PROVE DeliveryInv'
  OBVIOUS
<1> USE PipeAssumption
<1>0. cd \in Delivery
  BY DEF DeliveryInv
<1>1. CASE SpawnChild
  <2>1. CASE cd' = [cd EXCEPT !.pc = "not_launched"]
    BY Zenon, <1>1, <2>1 DEF SpawnChild, DeliveryInv, Delivery
  <2>2. CASE cd' = [cd EXCEPT !.pc = "collect", !.child = "running", !.writer = "writing"]
    <3>1. cd' = state("collect", cd.script, "running", "writing", cd.written, cd.stdin,
                      cd.received, cd.ended, cd.produced, cd.pipe, cd.collected)
      BY Zenon, <1>0, <2>2 DEF Delivery, state
    <3> QED
      BY <1>1, <3>1 DEF SpawnChild, DeliveryInv, Delivery, state
  <2> QED
    BY <1>1, <2>1, <2>2 DEF SpawnChild
<1>2. CASE WriteChunk
  <2>1. cd' = state(cd.pc, cd.script, cd.child, cd.writer, cd.written + 1, cd.stdin + 1,
                    cd.received, cd.ended, cd.produced, cd.pipe, cd.collected)
    BY Zenon, <1>0, <1>2 DEF WriteChunk, Delivery, state
  <2> QED
    BY SMTT(60), <1>2, <2>1 DEF WriteChunk, DeliveryInv, Delivery, state
<1>3. CASE WriteFails
  BY Zenon, <1>3, ErrorTypes DEF WriteFails, DeliveryInv, Delivery
<1>4. CASE CloseStdin
  BY Zenon, <1>4 DEF CloseStdin, DeliveryInv, Delivery
<1>5. CASE CollectChunk
  <2>1. PICK s \in Streams :
          /\ cd.pc = "collect" /\ cd.pipe[s] > 0
          /\ cd' = [cd EXCEPT !.pipe[s] = @ - 1, !.collected[s] = @ + 1]
    BY Zenon, <1>5 DEF CollectChunk, mayCollect
  <2>2. cd' = state(cd.pc, cd.script, cd.child, cd.writer, cd.written, cd.stdin, cd.received,
                    cd.ended, cd.produced, [cd.pipe EXCEPT ![s] = @ - 1],
                    [cd.collected EXCEPT ![s] = @ + 1])
    BY Zenon, <1>0, <2>1 DEF Delivery, state
  <2>3. [cd.pipe EXCEPT ![s] = @ - 1] \in [Streams -> Nat]
        /\ [cd.collected EXCEPT ![s] = @ + 1] \in [Streams -> Nat]
    <3>1. cd.pipe \in [Streams -> Nat] /\ cd.collected \in [Streams -> Nat]
      BY Zenon, <1>0 DEF Delivery
    <3> QED
      BY SMTT(60), <2>1, <3>1
  <2>4. cd' \in Delivery
    BY <1>0, <2>2, <2>3 DEF Delivery, state
  <2>5. \A r \in Streams : cd'.produced[r] = cd'.collected[r] + cd'.pipe[r]
    <3>1. /\ cd'.produced = cd.produced /\ cd'.pipe = [cd.pipe EXCEPT ![s] = @ - 1]
          /\ cd'.collected = [cd.collected EXCEPT ![s] = @ + 1]
      BY Zenon, <2>2 DEF state
    <3>2. /\ cd.produced \in [Streams -> Nat] /\ cd.pipe \in [Streams -> Nat]
          /\ cd.collected \in [Streams -> Nat]
          /\ \A r \in Streams : cd.produced[r] = cd.collected[r] + cd.pipe[r]
      BY Zenon DEF DeliveryInv, Delivery
    <3>3. \A r \in Streams : cd.produced[r] = [cd.collected EXCEPT ![s] = @ + 1][r]
                                              + [cd.pipe EXCEPT ![s] = @ - 1][r]
      <4>1. cd.pipe[s] > 0
        BY Zenon, <2>1
      <4> QED
        BY SMTT(60), <3>2, <4>1, CollectedFromPipe
    <3> QED
      BY Zenon, <3>1, <3>3
  <2>6. /\ cd'.pc = cd.pc /\ cd'.child = cd.child /\ cd'.writer = cd.writer
        /\ cd'.written = cd.written /\ cd'.stdin = cd.stdin /\ cd'.received = cd.received
        /\ cd'.ended = cd.ended /\ cd'.error = cd.error
    BY Zenon, <2>2 DEF state
  <2> QED
    BY Zenon, <2>1, <2>4, <2>5, <2>6 DEF DeliveryInv
<1>6. CASE CollectEnd
  BY Zenon, <1>6 DEF CollectEnd, mayCollect, DeliveryInv, Delivery
<1>7. CASE JoinWriter
  BY Zenon, <1>7 DEF JoinWriter, delivered, DeliveryInv, Delivery
<1>8. CASE ChildReads
  <2>1. /\ cd.child = "running" /\ cd.script \in Seq(Op) /\ cd.script # <<>>
        /\ Tail(cd.script) \in Seq(Op)
    BY <1>8 DEF ChildReads, DeliveryInv, Delivery
  <2>2. PICK left \in Seq(Op) :
          \/ /\ cd.stdin > 0
             /\ cd' = [cd EXCEPT !.stdin = @ - 1, !.received = @ + 1, !.script = left]
          \/ /\ cd.stdin = 0 /\ cd.writer = "closed"
             /\ cd' = [cd EXCEPT !.script = left, !.ended = TRUE]
    BY Zenon, <1>8, <2>1 DEF ChildReads
  <2>3. CASE /\ cd.stdin > 0
             /\ cd' = [cd EXCEPT !.stdin = @ - 1, !.received = @ + 1, !.script = left]
    <3>1. cd' = state(cd.pc, left, cd.child, cd.writer, cd.written, cd.stdin - 1,
                      cd.received + 1, cd.ended, cd.produced, cd.pipe, cd.collected)
      BY Zenon, <1>0, <2>3 DEF Delivery, state
    <3>2. cd' \in Delivery
      BY <1>0, <2>3, <3>1 DEF Delivery, state
    <3> QED
      BY SMTT(60), <2>1, <2>3, <3>2 DEF DeliveryInv, Delivery
  <2>4. CASE /\ cd.stdin = 0 /\ cd.writer = "closed"
             /\ cd' = [cd EXCEPT !.script = left, !.ended = TRUE]
    <3>1. cd' = state(cd.pc, left, cd.child, cd.writer, cd.written, cd.stdin,
                      cd.received, TRUE, cd.produced, cd.pipe, cd.collected)
      BY Zenon, <1>0, <2>4 DEF Delivery, state
    <3>2. cd' \in Delivery
      BY Zenon, <1>0, <2>4, <3>1 DEF Delivery, state
    <3> QED
      BY <2>1, <2>4, <3>2 DEF DeliveryInv, Delivery
  <2> QED
    BY <2>2, <2>3, <2>4
<1>9. CASE ChildWrites
  <2>1. /\ cd.child = "running" /\ cd.script \in Seq(Op) /\ cd.script # <<>>
        /\ Tail(cd.script) \in Seq(Op)
    BY <1>9 DEF ChildWrites, DeliveryInv, Delivery
  <2>2. PICK s \in Streams :
          cd' = [cd EXCEPT !.script = Tail(@), !.produced[s] = @ + 1, !.pipe[s] = @ + 1]
    BY Zenon, <1>9 DEF ChildWrites
  <2>3. cd' = state(cd.pc, Tail(cd.script), cd.child, cd.writer, cd.written, cd.stdin,
                    cd.received, cd.ended, [cd.produced EXCEPT ![s] = @ + 1],
                    [cd.pipe EXCEPT ![s] = @ + 1], cd.collected)
    BY Zenon, <1>0, <2>2 DEF Delivery, state
  <2>4. [cd.pipe EXCEPT ![s] = @ + 1] \in [Streams -> Nat]
        /\ [cd.produced EXCEPT ![s] = @ + 1] \in [Streams -> Nat]
    <3>1. cd.pipe \in [Streams -> Nat] /\ cd.produced \in [Streams -> Nat]
      BY Zenon, <1>0 DEF Delivery
    <3> QED
      BY SMTT(60), <3>1
  <2>5. cd' \in Delivery
    BY Zenon, <1>0, <2>1, <2>3, <2>4 DEF Delivery, state
  <2>6. \A r \in Streams : cd'.produced[r] = cd'.collected[r] + cd'.pipe[r]
    <3>1. /\ cd'.collected = cd.collected /\ cd'.pipe = [cd.pipe EXCEPT ![s] = @ + 1]
          /\ cd'.produced = [cd.produced EXCEPT ![s] = @ + 1]
      BY Zenon, <2>3 DEF state
    <3>2. /\ cd.produced \in [Streams -> Nat] /\ cd.pipe \in [Streams -> Nat]
          /\ cd.collected \in [Streams -> Nat]
          /\ \A r \in Streams : cd.produced[r] = cd.collected[r] + cd.pipe[r]
      BY Zenon DEF DeliveryInv, Delivery
    <3> QED
      BY SMTT(60), <3>1, <3>2
  <2>7. /\ cd'.pc = cd.pc /\ cd'.child = cd.child /\ cd'.writer = cd.writer
        /\ cd'.written = cd.written /\ cd'.stdin = cd.stdin /\ cd'.received = cd.received
        /\ cd'.ended = cd.ended /\ cd'.error = cd.error
    BY Zenon, <2>3 DEF state
  <2> QED
    BY Zenon, <2>1, <2>5, <2>6, <2>7 DEF DeliveryInv
<1>10. CASE ChildExits
  BY Zenon, <1>10 DEF ChildExits, DeliveryInv, Delivery
<1>11. CASE UNCHANGED cd
  BY <1>11 DEF DeliveryInv
<1> QED
  BY <1>1, <1>2, <1>3, <1>4, <1>5, <1>6, <1>7, <1>8, <1>9, <1>10, <1>11
  DEF NextDelivery, Controller, Child

LEMMA InvImpliesTrue == DeliveryInv => DeliveryIsTrue
<1> SUFFICES ASSUME DeliveryInv, cd.pc = "returned"
             PROVE  /\ cd.collected = cd.produced
                    /\ cd.received <= cd.written
                    /\ cd.error = {} => cd.written = Input /\ (cd.ended => cd.received = Input)
                    /\ cd.error # {} => cd.written < Input /\ ~cd.ended
  BY DEF DeliveryIsTrue
<1>1. \A s \in Streams : cd.pipe[s] = 0
  BY DEF DeliveryInv, Empty
<1>2. \A s \in Streams : cd.collected[s] = cd.produced[s]
  BY <1>1 DEF DeliveryInv, Delivery
<1>3. cd.collected = cd.produced
  BY <1>2 DEF DeliveryInv, Delivery
<1> QED
  BY <1>3, PipeAssumption DEF DeliveryInv, Delivery

\* run_with_stdin reports the whole output of the child, and no delivery error
\* exactly when the pipe took the whole request.
THEOREM DeliveryIsTrueHolds == DeliverySpec => []DeliveryIsTrue
  BY InitDelivery, NextDeliveryInv, InvImpliesTrue, PTL DEF DeliverySpec
=============================================================================
