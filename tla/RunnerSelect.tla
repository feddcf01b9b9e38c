---------------------------- MODULE RunnerSelect ----------------------------
(***************************************************************************)
(* Which runner a request selects (runner_select.rs) from the app evidence *)
(* manifest (evidence.rs) and the runner registry.                         *)
(*                                                                         *)
(* An optional JSON value is a set of at most one element: absent and null *)
(* are {}.  Mistyped stands for a value of another JSON type, in an array  *)
(* for an array that is not one of strings.  An error is the set of its    *)
(* code, {} for none.                                                      *)
(***************************************************************************)
EXTENDS Naturals, Sequences, FiniteSets, Functions

Mistyped == "mistyped"

firstOf(errors) ==
  UNION {errors[i] : i \in {k \in DOMAIN errors : \A j \in 1..(k - 1) : errors[j] = {}}}

-----------------------------------------------------------------------------
(* The selector.                                                            *)

NoRunner == [object |-> TRUE, unknown |-> FALSE, id |-> {}, service |-> {},
             required_entitlements |-> {}, mode |-> {}]
NoSelector == [runner_id |-> {}, runner_service |-> {}, required_entitlements |-> {},
               runner_mode |-> {}, runner |-> {}]
SELECTOR_FIELDS == DOMAIN NoSelector

nested(request) == IF request.runner = {} THEN NoRunner ELSE CHOOSE r \in request.runner : TRUE

selector_string(value) == IF Mistyped \in value THEN {"type_mismatch"} ELSE {}
selector_entitlements(value) == IF \E names \in value : Mistyped \in names THEN {"type_mismatch"} ELSE {}
parse_runner_mode(value) ==
  IF Mistyped \in value THEN {"type_mismatch"}
  ELSE IF value \subseteq {"standard", "byoxpc"} THEN {} ELSE {"invalid_value"}

over(outer, inner) == IF inner # {} THEN inner ELSE outer

selectorOf(request) ==
  LET r == nested(request)
  IN [runner_id |-> over(request.runner_id, r.id),
      runner_service |-> over(request.runner_service, r.service),
      required_entitlements |-> UNION over(request.required_entitlements, r.required_entitlements),
      mode |-> over(request.runner_mode, r.mode)]

needs_external(selector) == selector.runner_id \cup selector.runner_service # {}

selector_problem(selector) ==
  IF \/ "standard" \in selector.mode /\ needs_external(selector)
     \/ "byoxpc" \in selector.mode /\ ~needs_external(selector)
  THEN {"conflicting_selector"} ELSE {}

\* The error of parse_runner_selector_value; its value is selectorOf.
parse_runner_selector_value(request) ==
  LET r == nested(request)
  IN firstOf(<<selector_string(request.runner_id), selector_string(request.runner_service),
               selector_entitlements(request.required_entitlements),
               parse_runner_mode(request.runner_mode),
               IF r.object THEN {} ELSE {"type_mismatch"},
               IF r.unknown THEN {"unknown_field"} ELSE {},
               selector_string(r.id), selector_string(r.service),
               selector_entitlements(r.required_entitlements), parse_runner_mode(r.mode),
               selector_problem(selectorOf(request))>>)

strip_runner_selector(request) ==
  [f \in DOMAIN request |-> IF f \in SELECTOR_FIELDS THEN {} ELSE request[f]]

-----------------------------------------------------------------------------
(* The evidence manifest: for each shipped role, the entries at its path.   *)

Roles == {"service", "worker", "validator", "unentitled_worker"}

unique_typed_entry(manifest, role) ==
  IF manifest.loaded /\ Len(manifest.entries[role]) = 1 /\ manifest.entries[role][1].typed
  THEN {manifest.entries[role][1]} ELSE {}

Unread == [keys |-> {}, granted |-> {}, error |-> TRUE]

entitlements_from_manifest_value(entry) ==
  [keys |-> entry.keys, granted |-> entry.granted, error |-> entry.entitlements_error]

helper_entitlements(manifest, role) ==
  LET found == unique_typed_entry(manifest, role)
  IN IF found = {} THEN Unread
     ELSE entitlements_from_manifest_value(CHOOSE e \in found : TRUE)

\* Mutant of enforce_required_entitlements: a key with any value counts as held.
enforce_required_entitlements_AnyValue(required, worker) ==
  required = {} \/ \E w \in worker : ~w.error /\ required \subseteq w.keys

enforce_required_entitlements(required, worker) ==
  required = {} \/ \E w \in worker : ~w.error /\ required \subseteq w.granted

Target(kind, connection, service_name, bundle, registry_id, worker) ==
  [kind |-> kind, connection |-> connection, service_name |-> service_name, bundle |-> bundle,
   registry_id |-> registry_id, worker |-> worker]

\* A bundle_id that is empty or holds a NUL is written "".
builtin_runner_target(manifest) ==
  {Target("standard", "xpc_service", name, "app", {}, {helper_entitlements(manifest, "worker")}) :
     name \in (UNION {e.bundle_id : e \in unique_typed_entry(manifest, "service")}) \ {""}}

-----------------------------------------------------------------------------
(* The registry, and the target: {} when there is none.                     *)

find(registry, selector) ==
  LET is(r) == IF selector.runner_id # {} THEN r.id \in selector.runner_id
               ELSE r.service_name \in selector.runner_service
      runners == registry.runners
  IN {runners[i] : i \in {k \in DOMAIN runners : is(runners[k]) /\ \A j \in 1..(k - 1) : ~is(runners[j])}}

find_external_record(registry, selector) ==
  {r \in find(registry, selector) : r.state # "pending"}

infer_record_kind(record) == IF record.kind = {} THEN "byoxpc" ELSE CHOOSE k \in record.kind : TRUE

resolve_external_target(record, selector) ==
  IF /\ record.current_protocol
     /\ selector.mode \subseteq {infer_record_kind(record)}
     /\ enforce_required_entitlements(selector.required_entitlements, record.worker)
     /\ infer_record_kind(record) = "byoxpc"
  THEN {Target("byoxpc", IF record.scope = "system" THEN "mach_privileged" ELSE "mach_service",
               record.service_name, record.bundle, {record.id}, record.worker)}
  ELSE {}

resolve_runner_target_with_registry(manifest, registry, selector) ==
  IF selector_problem(selector) # {} THEN {}
  ELSE IF ~needs_external(selector)
  THEN {t \in builtin_runner_target(manifest) :
          enforce_required_entitlements(selector.required_entitlements, t.worker)}
  ELSE IF ~registry.readable THEN {}
  ELSE UNION {resolve_external_target(r, selector) : r \in find_external_record(registry, selector)}
=============================================================================
