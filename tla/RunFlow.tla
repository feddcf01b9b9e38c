------------------------------- MODULE RunFlow -------------------------------
(***************************************************************************)
(* `policy-witness run`: one pass from the arguments to the printed        *)
(* envelope (run_flow.rs), with the request reader (request_patch.rs), the *)
(* client's capture (runner_client.rs, utils.rs) and the fallback check    *)
(* (policy_check.rs).  Everything it reads from disk (manifest, request,   *)
(* registry, augments, binaries) may be replaced by others between any two *)
(* of its steps.                                                           *)
(***************************************************************************)
EXTENDS SpecimenDossier

CONSTANTS
  Runs,          \* what a run starts from: arguments, environment, disk
  Later,         \* for each part of the disk, what it may be replaced with
  MaxReplaced,   \* how often something is replaced during the run
  Clients,       \* how an invocation of pw-runner-client can end
  Checks,        \* how an invocation of sbpl-check can end
  TickLimit      \* u64::MAX of the continuous clock

ASSUME RunAssumption == MaxReplaced \in Nat /\ TickLimit \in Nat

\* The form of what a run reads: an optional value is there at most once, an array is
\* a sequence, an object has its fields, and an augment's text is known by its name.
optional(value) == \A u, v \in value : u = v
array(value) == value \in Seq(Range(value))

PolicyForm(p) ==
  /\ DOMAIN p = {"augments", "sbpl_source"} /\ optional(p.augments) /\ optional(p.sbpl_source)
  /\ \A names \in p.augments : array(names)
  /\ \A source \in p.sbpl_source : array(source)

RunnerForm(r) ==
  /\ DOMAIN r = DOMAIN NoRunner
  /\ optional(r.id) /\ optional(r.service) /\ optional(r.required_entitlements) /\ optional(r.mode)

RequestForm(q) ==
  /\ DOMAIN q = SELECTOR_FIELDS \cup {"file", "json", "schema_version", "policy", "actors", "overrides"}
  /\ optional(q.policy) /\ \A p \in q.policy : PolicyForm(p)
  /\ optional(q.runner) /\ \A r \in q.runner : RunnerForm(r)
  /\ optional(q.runner_id) /\ optional(q.runner_service)
  /\ array(q.actors)
  /\ \A i \in DOMAIN q.actors :
       /\ DOMAIN q.actors[i] = {"actor_id", "policy"} /\ optional(q.actors[i].policy)
       /\ \A p \in q.actors[i].policy : PolicyForm(p)

ManifestForm(m) ==
  \A role \in Roles :
    /\ array(m.entries[role])
    /\ \A i \in DOMAIN m.entries[role] : optional(m.entries[role][i].bundle_id)

RegistryForm(g) ==
  array(g.runners) /\ \A i \in DOMAIN g.runners : g.runners[i].state \in {"pending", "installed"}

AugmentsForm(library) == \A name \in DOMAIN library : \A text \in library[name] : text[1] = name

DiskParts == {"manifest", "request", "registry", "augments", "files"}

PartForm(part, v) ==
  CASE part = "manifest" -> ManifestForm(v)
    [] part = "request" -> RequestForm(v)
    [] part = "registry" -> RegistryForm(v)
    [] part = "augments" -> AugmentsForm(v)
    [] part = "files" -> TRUE

ClientForm(c) ==
  /\ c.launched \in BOOLEAN /\ c.delivered \in BOOLEAN /\ c.valid \in BOOLEAN
  /\ c.stdout \in {"json", "oversized", "garbage", "empty"}
  /\ c.protocol \in {"current", "other", Mistyped}
  /\ optional(c.reply.normalized_outcome)

ASSUME InputAssumption ==
  /\ \A r \in Runs :
       /\ DOMAIN r.disk = DiskParts /\ \A part \in DiskParts : PartForm(part, r.disk[part])
       /\ r.now \in Nat /\ r.timebase[1] \in Nat \ {0} /\ r.timebase[2] \in Nat \ {0}
  /\ DOMAIN Later \subseteq DiskParts
  /\ \A part \in DOMAIN Later : \A new \in Later[part] : PartForm(part, new)
  /\ \A c \in Clients : ClientForm(c)

VARIABLE rf

-----------------------------------------------------------------------------
(* The request.                                                             *)

parse_request(request) ==
  CASE request.json = "object" -> {}
    [] request.json = "invalid" -> {"invalid_json"}
    [] request.json = "null" -> {"missing_value"}
    [] OTHER -> {"type_mismatch"}

validate_request_version(request) ==
  CASE request.schema_version = "current" -> {}
    [] request.schema_version = "other" -> {"unsupported_schema"}
    [] request.schema_version = "absent" -> {"missing_field"}
    [] request.schema_version = "null" -> {"missing_value"}
    [] OTHER -> {"type_mismatch"}

inject_runner_mode(request, mode) ==
  LET r == nested(request)
  IN [error |-> firstOf(<<parse_runner_selector_value(request),
                          IF r.mode \in {{}, mode} THEN {} ELSE {"conflicting_selector"}>>),
      request |-> [request EXCEPT !.runner = {[r EXCEPT !.mode = mode]}]]

DEFAULT_TIMEOUT_MS == 3

NoArguments ==
  [kind |-> "run", request_path |-> {}, timeout_ms |-> DEFAULT_TIMEOUT_MS, runner_mode_arg |-> {},
   awaiting |-> ""]

\* One turn of the loop: awaiting is the option whose value comes next.
argument(p, arg) ==
  LET fails(path) == [p EXCEPT !.kind = "error", !.request_path = path]
  IN IF p.awaiting = "--timeout-ms" THEN
       IF arg \in {"0", "2"}
       THEN [p EXCEPT !.awaiting = "", !.timeout_ms = IF arg = "0" THEN 1 ELSE 2]
       ELSE fails({})
     ELSE IF p.awaiting = "--runner-mode" THEN
       IF arg \in {"standard", "byoxpc"}
       THEN [p EXCEPT !.awaiting = "", !.runner_mode_arg = {arg}]
       ELSE fails({})
     ELSE CASE arg = "--" -> [p EXCEPT !.kind = "stopped"]
            [] arg \in {"-h", "--help"} -> [p EXCEPT !.kind = "help"]
            [] arg \in {"--timeout-ms", "--runner-mode"} -> [p EXCEPT !.awaiting = arg]
            [] arg = "-x" -> fails(p.request_path)
            [] OTHER -> [p EXCEPT !.request_path = {arg}]

\* What the loop comes to when it ends.
parsed_arguments(p) ==
  IF p.kind \in {"error", "help"} THEN p
  ELSE CASE p.awaiting = "--timeout-ms" -> [p EXCEPT !.kind = "error", !.request_path = {}]
         [] p.awaiting = "--runner-mode" -> [p EXCEPT !.kind = "error"]
         [] OTHER -> [p EXCEPT !.kind = "run"]

-----------------------------------------------------------------------------
(* The envelope.                                                            *)

NoSpecimen == [request_path |-> {}, policy |-> NotApplicable, actors |-> <<>>,
               runner_provenance |-> {}, app_provenance |-> {}, binaries |-> unselected]

Envelope(outcome, exit_code, specimen, request_failure) ==
  [outcome |-> outcome, exit_code |-> exit_code, specimen |-> specimen,
   request_failure |-> request_failure, timeout_ms |-> {}, runner_client |-> {},
   runner_result |-> {}, diagnostics |-> FALSE, policy_check |-> {}, actor_policy_checks |-> {}]

print(envelope) == [rf EXCEPT !.pc = "printed", !.envelope = {envelope}]

unselectedSpecimen ==
  [NoSpecimen EXCEPT !.request_path = rf.parsed.request_path, !.app_provenance = rf.app_provenance]

tool_error(specimen) ==
  print([Envelope("tool_error", 2, specimen, {}) EXCEPT !.timeout_ms = {rf.parsed.timeout_ms}])

bad_request(specimen, code) ==
  print([Envelope("bad_request", 1, specimen, code) EXCEPT !.timeout_ms = {rf.parsed.timeout_ms}])

-----------------------------------------------------------------------------
(* The client's capture and the runner's reply.                             *)

capture_json_output(stdout) ==
  CASE stdout = "oversized" -> "capture_error"
    [] stdout = "garbage" -> "parse_error"
    [] stdout = "empty" -> "empty"
    [] OTHER -> "parsed"

\* valid stands for ClientCapture's ValidCapture.
transport_admission(c) ==
  LET output == capture_json_output(c.stdout)
  IN IF ~c.delivered THEN "delivery_failed"
     ELSE IF output = "empty" THEN "missing"
     ELSE IF output # "parsed" \/ c.protocol = Mistyped THEN "malformed"
     ELSE IF c.protocol = "other" THEN "unsupported"
     ELSE IF c.valid THEN "accepted" ELSE "malformed"

runner_result(c) ==
  IF transport_admission(c) = "accepted" /\ c.terminal = "runner_reply" /\ c.retained = "whole"
  THEN {c.reply} ELSE {}

failure(c) ==
  LET admission == transport_admission(c)
  IN IF admission # "accepted"
     THEN CASE admission = "delivery_failed" -> {"tool_error"}
            [] admission = "missing" -> {"missing_runner_client"}
            [] admission = "unsupported" -> {"unsupported_runner_client"}
            [] OTHER -> {"malformed_runner_client"}
     ELSE IF c.terminal = "runner_reply"
     THEN CASE c.retained = "whole" -> {}
            [] c.retained = "truncated" -> {"runner_reply_truncated"}
            [] OTHER -> {"malformed_runner_response"}
     ELSE CASE c.terminal \in {"xpc_error", "xpc_timeout"} -> {c.terminal}
            [] c.terminal = "acquisition_failed" -> {"xpc_acquisition_failed"}
            [] c.terminal = "submission_refused" -> {"xpc_submission_refused"}
            [] c.terminal = "protocol_error" -> {"xpc_protocol_error"}
            [] OTHER -> {"runner_client_error"}

\* Mutant of fallback_eligible: whatever the client's capture is worth.
fallback_eligible_Unadmitted(c) == c.terminal = "xpc_error"

fallback_eligible(c) == transport_admission(c) = "accepted" /\ c.delivered /\ c.terminal = "xpc_error"

compiled_profile_problem(reply) ==
  \/ reply.applied_profile
  \/ \E p \in reply.compiled_profile :
       \/ p.schema_version # 2
       \/ p.status \notin {"captured", "unavailable"}
       \/ p.status = "captured" /\ p.context # {<<"worker", "before_apply">>}
       \/ p.status = "unavailable" /\ p.context # {}

reply_version(reply) ==
  CASE reply.schema_version = "current" ->
         IF compiled_profile_problem(reply) THEN "malformed" ELSE "supported"
    [] reply.schema_version = "other" -> "unsupported"
    [] OTHER -> "malformed"

\* {} when the reply is admitted, else the outcome that refuses it.
admit_reply(c) ==
  LET version == {reply_version(r) : r \in runner_result(c)}
  IN firstOf(<<IF c.delivered THEN {} ELSE {"tool_error"},
               failure(c),
               IF version = {"unsupported"} THEN {"unsupported_runner_response"}
               ELSE IF version = {"malformed"} THEN {"malformed_runner_response"} ELSE {}>>)

runner_outcome(c) ==
  LET said == UNION {r.normalized_outcome : r \in runner_result(c)}
  IN IF said = {} THEN "runner_output_not_json" ELSE CHOOSE o \in said : TRUE

\* Rounded up, and held at the clock's limit.
deadline_ticks(now, milliseconds, timebase) ==
  LET ticks == (milliseconds * timebase[2] + timebase[1] - 1) \div timebase[1]
  IN IF now + ticks > TickLimit THEN TickLimit ELSE now + ticks

supported_outcome(check) == IF check.kind /\ check.current THEN check.outcome ELSE {}

parse_policy_check_output(check) ==
  LET output == capture_json_output(check.stdout)
  IN IF ~check.ran THEN "unavailable"
     ELSE IF output = "empty" THEN "tool_error"
     ELSE IF output # "parsed" THEN output
     ELSE IF supported_outcome(check) = {} THEN "invalid_reply"
     ELSE CHOOSE o \in supported_outcome(check) : TRUE

-----------------------------------------------------------------------------
(* The run.                                                                 *)

at(pc) == rf.pc = pc /\ rf.envelope = {}

ParseArgument ==
  /\ at("start") /\ rf.args # <<>> /\ rf.parsed.kind = "run"
  /\ rf' = [rf EXCEPT !.args = Tail(@), !.parsed = argument(@, Head(rf.args))]

ParseArguments ==
  /\ at("start") /\ (rf.args = <<>> \/ rf.parsed.kind # "run")
  /\ LET p == parsed_arguments(rf.parsed)
     IN rf' = IF p.kind = "help" THEN [rf EXCEPT !.pc = "helped"]
              ELSE IF p.kind = "error"
              THEN print(Envelope("tool_error", 2, [NoSpecimen EXCEPT !.request_path = p.request_path], {}))
              ELSE IF ~rf.app_root THEN print(Envelope("tool_error", 2, NoSpecimen, {}))
              ELSE [rf EXCEPT !.pc = "manifest", !.parsed = p]

LoadManifest ==
  /\ at("manifest")
  /\ rf' = [rf EXCEPT !.pc = "request", !.manifest = rf.disk.manifest,
              !.app_provenance =
                 IF ~rf.disk.manifest.loaded THEN {}
                 ELSE {IF rf.verify THEN {verify_manifest(rf.disk.manifest, rf.disk.files)} ELSE {}}]

ReadRequest ==
  /\ at("request")
  /\ LET read == rf.disk.request
         injected == inject_runner_mode(read, rf.parsed.runner_mode_arg)
         request == IF rf.parsed.runner_mode_arg = {} THEN read ELSE injected.request
         error == firstOf(<<parse_request(read), validate_request_version(read),
                            IF rf.parsed.runner_mode_arg = {} THEN {} ELSE injected.error,
                            parse_runner_selector_value(request)>>)
     IN rf' = IF rf.parsed.request_path = {} \/ read.file # "readable"
              THEN tool_error(unselectedSpecimen)
              ELSE IF error # {} THEN bad_request(unselectedSpecimen, error)
              ELSE [rf EXCEPT !.pc = "select", !.submitted = read, !.request = request]

SelectRunner ==
  /\ at("select")
  /\ rf' = [rf EXCEPT !.pc = "augment", !.consulted = rf.disk.registry,
              !.target = resolve_runner_target_with_registry(rf.manifest, rf.disk.registry,
                                                             selectorOf(rf.request))]

\* The request's own policy, then that of each actor in order up to the first refusal.
ResolveAugments ==
  /\ at("augment")
  /\ LET r == resolvePolicy(rf.request.policy, rf.disk.augments)
     IN rf' = [rf EXCEPT !.pc = "actors", !.request = [@ EXCEPT !.policy = r.policy], !.refusal = r.code,
                 !.policy = policy_dossier(string_source(rf.request.policy), r)]

actor_policy_dossier(actor, r) ==
  [actor_id |-> actor.actor_id, policy |-> policy_dossier(string_source(actor.policy), r)]

ResolveActor ==
  /\ at("actors")
  /\ LET i == Len(rf.actors) + 1
         actor == rf.request.actors[i]
         r == resolvePolicy(actor.policy, rf.disk.augments)
     IN IF i > Len(rf.request.actors) \/ rf.actor_refusal # {}
        THEN rf' = [rf EXCEPT !.pc = "observe"]
        ELSE rf' = [rf EXCEPT !.request = [@ EXCEPT !.actors[i].policy = r.policy],
                      !.actor_refusal = r.code, !.actors = Append(@, actor_policy_dossier(actor, r))]

\* Mutant of hold: the request is serialized as it was submitted.
hold_Submitted(request) == strip_runner_selector(rf.submitted)

hold(request) == strip_runner_selector(request)

ObserveBinaries ==
  /\ at("observe")
  /\ LET binaries == UNION {{observe(t, rf.request, rf.manifest, rf.disk.files)} : t \in rf.target}
         specimen == [request_path |-> rf.parsed.request_path, policy |-> rf.policy,
                      actors |-> rf.actors, runner_provenance |-> rf.target,
                      app_provenance |-> rf.app_provenance,
                      binaries |-> IF binaries = {} THEN unselected ELSE CHOOSE b \in binaries : TRUE]
         refusal == firstOf(<<rf.refusal, rf.actor_refusal>>)
     IN rf' = IF rf.target = {} THEN tool_error(specimen)
              ELSE IF refusal # {} THEN bad_request(specimen, refusal)
              ELSE [rf EXCEPT !.pc = "invoke", !.specimen = specimen, !.held = hold(rf.request)]

\* The deadline is taken before the client is located and spawned.
InvokeClient ==
  /\ at("invoke")
  /\ \E c \in Clients :
       rf' = IF ~c.launched THEN tool_error(rf.specimen)
             ELSE [rf EXCEPT !.pc = "answered", !.client = {c},
                     !.deadline = deadline_ticks(rf.now, rf.parsed.timeout_ms, rf.timebase)]

withPolicy(actors) == SelectSeq(actors, LAMBDA actor : actor.policy # {})

actor_policies == withPolicy(rf.request.actors)

\* Each policy is given to the helper on its own; every answer is independent.
FallbackCheck ==
  /\ at("answered")
  /\ \E c \in rf.client : fallback_eligible(c)
  /\ \E check \in Checks :
       rf' = [rf EXCEPT !.pc = "checked", !.policy_check = {parse_policy_check_output(check)},
                !.checked = {[policy |-> rf.held.policy, actors |-> actor_policies]}]

NoFallback ==
  /\ at("answered")
  /\ \E c \in rf.client : ~fallback_eligible(c)
  /\ rf' = [rf EXCEPT !.pc = "checked"]

complete_execution(c) ==
  LET outcome == runner_outcome(c)
  IN Envelope(outcome, IF outcome = "finished" THEN 0 ELSE 1, rf.specimen,
       IF outcome = "bad_request" THEN UNION {r.request_failure : r \in runner_result(c)} ELSE {})

PrintEnvelope ==
  /\ at("checked")
  /\ \E c \in rf.client :
       LET refused == admit_reply(c)
           outcome == CHOOSE o \in refused : TRUE
           base == IF refused = {} THEN complete_execution(c)
                   ELSE Envelope(outcome, IF c.delivered THEN 1 ELSE 2, rf.specimen, {})
       IN rf' = print([base EXCEPT !.timeout_ms = {rf.parsed.timeout_ms}, !.runner_client = {c},
                         !.runner_result = runner_result(c), !.diagnostics = (refused = {}),
                         !.policy_check = rf.policy_check,
                         !.actor_policy_checks = {k.actors : k \in rf.checked}])

\* Somebody replaces what the run reads.
ReplaceFile ==
  /\ rf.pc \in {"manifest", "request", "select", "augment", "actors", "observe", "invoke"}
  /\ rf.envelope = {} /\ rf.replaced < MaxReplaced
  /\ \E part \in DOMAIN Later : \E new \in Later[part] :
       /\ new # rf.disk[part]
       /\ rf' = [rf EXCEPT !.disk[part] = new, !.replaced = @ + 1]

RunStarts ==
  {[pc |-> "start", args |-> r.args, verify |-> r.verify, app_root |-> r.app_root, now |-> r.now,
    timebase |-> r.timebase, disk |-> r.disk, replaced |-> 0, parsed |-> NoArguments,
    manifest |-> r.disk.manifest, app_provenance |-> {}, submitted |-> r.disk.request,
    request |-> r.disk.request, consulted |-> r.disk.registry, target |-> {}, refusal |-> {},
    actor_refusal |-> {}, policy |-> NotApplicable, actors |-> <<>>, specimen |-> NoSpecimen,
    held |-> r.disk.request, deadline |-> 0, client |-> {}, policy_check |-> {}, checked |-> {},
    envelope |-> {}] : r \in Runs}

NextRun ==
  \/ ParseArgument \/ ParseArguments \/ LoadManifest \/ ReadRequest \/ SelectRunner \/ ResolveAugments
  \/ ResolveActor \/ ObserveBinaries \/ InvokeClient \/ FallbackCheck \/ NoFallback
  \/ PrintEnvelope \/ ReplaceFile

RunSpec == rf \in RunStarts /\ [][NextRun]_rf

-----------------------------------------------------------------------------
(* Properties.                                                              *)

\* What the runner is sent for a policy: the submitted source followed by one text
\* for each augment it names, and no mention of augments.
sentFor(submitted, held) ==
  /\ held.augments = {}
  /\ \/ submitted.augments \in {{}, {<<>>}} /\ held.sbpl_source = submitted.sbpl_source
     \/ \E names \in submitted.augments, s \in submitted.sbpl_source, t \in held.sbpl_source :
          /\ Len(t) = Len(s) + Len(names)
          /\ SubSeq(t, 1, Len(s)) = s
          /\ \A i \in DOMAIN names : t[Len(s) + i][1] = names[i]

describes(dossier, submitted, held) ==
  /\ (submitted = {}) = (held = {})
  /\ \A p \in submitted, q \in held : sentFor(p, q)
  /\ dossier.augmentation.original_sha256 = string_source(submitted)
  /\ dossier.augmentation.applied_sha256 = string_source(held)
  /\ dossier.imports = string_source(held)

\* The runner is sent the request that was read, once, whatever replaced its files
\* since: every policy with its augments spliced in, nothing of the selection left.
\* The dossier describes those bytes policy by policy, the fallback compiler is
\* given the same ones in the same order, and the client is left the whole timeout.
SpecimenDescribed ==
  \A c \in rf.client :
    LET sent == rf.held
        all(request) == <<request.policy>> \o [i \in DOMAIN request.actors |-> request.actors[i].policy]
        dossiers == <<rf.specimen.policy>> \o [i \in DOMAIN rf.specimen.actors |-> rf.specimen.actors[i].policy]
        ids(actors) == [i \in DOMAIN actors |-> actors[i].actor_id]
    IN /\ \A f \in SELECTOR_FIELDS : sent[f] = {}
       /\ sent.overrides = rf.submitted.overrides
       /\ ids(sent.actors) = ids(rf.submitted.actors) /\ ids(rf.specimen.actors) = ids(sent.actors)
       /\ \A i \in DOMAIN dossiers : describes(dossiers[i], all(rf.submitted)[i], all(sent)[i])
       /\ \A k \in rf.checked : k.policy = sent.policy /\ k.actors = withPolicy(sent.actors)
       /\ \/ (rf.deadline - rf.now) * rf.timebase[1] >= rf.parsed.timeout_ms * rf.timebase[2]
          \/ rf.deadline = TickLimit

\* The runner invoked is the one the request and the command line name: an external
\* one if and only if either spelling names one, installed and current in the
\* registry that was read; its worker holds what is required; and the records of
\* its binaries compare with the same manifest that selected it.
SelectionIsTrue ==
  rf.client # {} =>
    \A t \in rf.target :
      LET r == nested(rf.submitted)
          ids == over(rf.submitted.runner_id, r.id)
          services == over(rf.submitted.runner_service, r.service)
          required == UNION over(rf.submitted.required_entitlements, r.required_entitlements)
      IN /\ rf.specimen.runner_provenance = {t}
         /\ over(over(rf.submitted.runner_mode, r.mode), rf.parsed.runner_mode_arg) \subseteq {t.kind}
         /\ required # {} => \E w \in t.worker : ~w.error /\ required \subseteq w.granted
         /\ (t.registry_id = {}) = (ids \cup services = {})
         /\ t.registry_id # {} =>
              \E i \in DOMAIN rf.consulted.runners :
                LET record == rf.consulted.runners[i]
                IN /\ record.state = "installed" /\ record.current_protocol
                   /\ {record.id} = t.registry_id /\ record.service_name = t.service_name
                   /\ IF ids # {} THEN ids = {record.id} ELSE services = {record.service_name}
                   /\ (record.scope = "system") = (t.connection = "mach_privileged")
                   /\ record.worker = t.worker
         /\ \A role \in Roles : \A b \in rf.specimen.binaries[role] :
              /\ b.verification = "match" => b.actual_sha256 = baseline(rf.manifest, role) /\ b.actual_sha256 # {}
              /\ b.baseline_sha256 = baseline(rf.manifest, role)
         /\ \A role \in Roles : rf.specimen.binaries[role] = {} =>
              t.bundle = "app" \/ override_for(rf.submitted, role) = "app"

tells(e, client) ==
  /\ e.exit_code = 0 =>
       \E c \in client : /\ c.delivered /\ c.stdout = "json" /\ c.valid /\ c.retained = "whole"
                         /\ c.terminal = "runner_reply" /\ e.runner_result = {c.reply}
                         /\ c.reply.schema_version = "current"
                         /\ c.reply.normalized_outcome = {"finished"}
  /\ e.exit_code = 2 => e.outcome = "tool_error" /\ \A c \in client : ~c.delivered
  /\ e.runner_client = client
  /\ client = {} =>
       /\ e.runner_result = {} /\ ~e.diagnostics /\ e.policy_check = {}
       /\ (e.request_failure # {}) = (e.outcome = "bad_request")
       /\ (e.exit_code = 1) = (e.outcome = "bad_request")
  /\ e.diagnostics => /\ \E c \in client : c.delivered /\ c.valid
                      /\ \A r \in e.runner_result : reply_version(r) = "supported"
  /\ (e.policy_check # {}) =
       \E c \in client : c.delivered /\ c.stdout = "json" /\ c.protocol = "current" /\ c.valid
                         /\ c.terminal = "xpc_error"

\* The envelope says how the run ended.  It succeeds only on a complete current
\* reply that says the run finished, to a request delivered whole.  A controller
\* refusal never invoked the client; tool_error with a client means the request
\* was not delivered.  A reply is interpreted only when it was admitted, and the
\* fallback compiler runs only after an admitted transport error.
OutcomeIsTrue == \A e \in rf.envelope : tells(e, rf.client)
=============================================================================
