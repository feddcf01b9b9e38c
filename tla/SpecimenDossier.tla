-------------------------- MODULE SpecimenDossier --------------------------
(***************************************************************************)
(* What the controller records of a specimen before it invokes a runner:   *)
(* the augmented policy (augments.rs), the policy dossiers and the bytes   *)
(* of the selected binaries (dossier.rs, evidence.rs).                     *)
(*                                                                         *)
(* A policy source is the sequence of the texts it was put together from   *)
(* and stands for its own hash; so does the content of a file.  A path is  *)
(* a pair <<directory, role>>.                                             *)
(***************************************************************************)
EXTENDS RunnerSelect

-----------------------------------------------------------------------------
(* Augments.                                                                *)

\* policy.augments: {} when absent, {<<>>} when null or empty.
InvalidName == "not a name"

\* A source of another JSON type is the one text <<Mistyped, 0>>.
as_str(source) == source \ {<<<<Mistyped, 0>>>>}

Resolution(result, code, policy, applied) ==
  [result |-> result, code |-> code, policy |-> policy, applied |-> applied]

spliced(names, library) == [i \in DOMAIN names |-> CHOOSE text \in library[names[i]] : TRUE]

augmentError(names, source, library) ==
  firstOf(<<IF Mistyped \in Range(names) THEN {"type_mismatch"} ELSE {},
            IF source = {} THEN {"missing_policy_source"}
            ELSE IF as_str(source) = {} THEN {"type_mismatch"} ELSE {},
            IF InvalidName \in Range(names) THEN {"invalid_value"} ELSE {},
            IF \E n \in Range(names) : n \notin DOMAIN library \/ library[n] = {}
            THEN {"augment_unavailable"} ELSE {}>>)

resolve_policy_augments(policy, library) ==
  LET bare == [policy EXCEPT !.augments = {}]
      names == CHOOSE n \in policy.augments : TRUE
      error == augmentError(names, policy.sbpl_source, library)
  IN IF policy.augments = {} THEN Resolution("not_present", {}, policy, <<>>)
     ELSE IF names = <<>> THEN Resolution("stripped_no_op", {}, bare, <<>>)
     ELSE IF error # {} THEN Resolution("bad_request", error, bare, <<>>)
     ELSE Resolution("applied", {},
            [bare EXCEPT !.sbpl_source = {s \o spliced(names, library) : s \in @}], names)

\* A request, or an actor, without a policy object has policy = {}.
resolvePolicy(policy, library) ==
  IF policy = {} THEN Resolution("not_present", {}, {}, <<>>)
  ELSE LET r == resolve_policy_augments(CHOOSE p \in policy : TRUE, library)
       IN [r EXCEPT !.policy = {@}]

string_source(policy) == UNION {as_str(p.sbpl_source) : p \in policy}

Augmentation(status, applied, original, selected) ==
  [status |-> status, applied |-> applied, original_sha256 |-> original, applied_sha256 |-> selected]

\* imports: the source that is scanned, {} when the scan does not apply.
policy_dossier(original, resolution) ==
  LET selected == string_source(resolution.policy)
  IN [augmentation |->
        CASE resolution.result \in {"not_present", "stripped_no_op"} ->
               IF original = {} THEN Augmentation("not_applicable", <<>>, {}, {})
               ELSE Augmentation("not_requested", <<>>, original, original)
          [] resolution.result = "applied" ->
               Augmentation("applied", resolution.applied, original, selected)
          [] resolution.result = "bad_request" -> Augmentation("failed", <<>>, original, {}),
      imports |-> IF resolution.result = "bad_request" THEN {} ELSE selected]

NotApplicable == [augmentation |-> Augmentation("not_applicable", <<>>, {}, {}), imports |-> {}]

-----------------------------------------------------------------------------
(* Binaries.                                                                *)

Unhashed == {"missing", "irregular", "unreadable"}

baseline(manifest, role) == UNION {e.sha256 : e \in unique_typed_entry(manifest, role)} \ {"malformed"}

hash_regular_file(files, path) == {files[path]} \ Unhashed

BinaryRecord(path, actual, expected, verification) ==
  [path |-> path, actual_sha256 |-> actual, baseline_sha256 |-> expected, verification |-> verification]

unavailable(path, expected) == BinaryRecord(path, {}, expected, "unavailable")

compare(path, manifest, role, files) ==
  LET expected == baseline(manifest, role)
      actual == hash_regular_file(files, path)
  IN BinaryRecord({path}, actual, expected,
       IF actual = {} \/ expected = {} THEN "unavailable"
       ELSE IF expected = actual THEN "match" ELSE "mismatch")

manifest_entry(manifest, role) == {<<"app", role>> : e \in unique_typed_entry(manifest, role)}

selectedRecord(path, manifest, role, files) ==
  IF path \in manifest_entry(manifest, role) THEN {} ELSE {compare(path, manifest, role, files)}

\* An override is absent, malformed (not a string, holding a NUL, beyond the echo
\* bound), unusable but echoed (empty, relative), or the directory of the file named.
override_for(request, role) ==
  IF role \in DOMAIN request.overrides THEN request.overrides[role] ELSE "absent"

helper_record(request, bundle, manifest, role, files) ==
  LET override == override_for(request, role)
  IN CASE override = "malformed" -> {unavailable({}, baseline(manifest, role))}
       [] override \in {"empty", "relative"} ->
            {unavailable({<<override, role>>}, baseline(manifest, role))}
       [] override = "absent" -> selectedRecord(<<bundle, role>>, manifest, role, files)
       [] OTHER -> selectedRecord(<<override, role>>, manifest, role, files)

unselected == [role \in Roles |-> {unavailable({}, {})}]

observe(target, request, manifest, files) ==
  [role \in Roles |->
     IF role = "service" THEN selectedRecord(<<target.bundle, role>>, manifest, role, files)
     ELSE helper_record(request, target.bundle, manifest, role, files)]

\* The roles whose declared hash the file on disk does not have.
verify_manifest(manifest, files) ==
  {role \in Roles : \E i \in DOMAIN manifest.entries[role] :
     /\ manifest.entries[role][i].sha256 # {}
     /\ hash_regular_file(files, <<"app", role>>) # manifest.entries[role][i].sha256}
=============================================================================
