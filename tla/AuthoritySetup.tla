--------------------------- MODULE AuthoritySetup ---------------------------
(***************************************************************************)
(* The setup of extension authority for one actor: the host's region and   *)
(* custody buffer, made and released operation by operation, the worker's  *)
(* own setup, published cell by cell in shared memory, the host's decoding *)
(* of those cells while the worker may still be writing them, and the      *)
(* controller's reading of the account (actor_evidence.rs).                *)
(***************************************************************************)
EXTENDS Integers, FiniteSets, Sequences

CONSTANTS
  MaxFailures,   \* how many operations of one setup fail, cleanups apart
  MaxSwitches    \* how often a worker that outlives the watch gets to run while it is read

ASSUME SetupAssumption == MaxFailures \in Nat /\ MaxSwitches \in Nat

VARIABLE su

NotPublished == {}

-----------------------------------------------------------------------------
(* Operation cells.                                                         *)

WORKER_OPS == <<"issue_symbol", "consume_symbol", "release_symbol", "core_limit",
                "descriptor_presence", "fstat", "page_size", "object_size", "mmap",
                "descriptor_close", "header_binding", "terminal_owned_inbound_clear",
                "rejected_mapping_munmap">>
REGION_OPS == <<"shm_open", "shm_unlink", "fd_cloexec", "ftruncate", "mmap",
                "header_initialize", "authority_duplicate", "authority_spawn_dup2",
                "close_launch_duplicate", "close_original_descriptor", "shared_clear", "munmap">>
CUSTODY_OPS == <<"mmap", "final_erase", "munmap">>
RUN_OPS == <<"core_limit">>

nativeKind(operation) ==
  CASE operation \in {"issue_symbol", "consume_symbol", "release_symbol"} -> "symbol"
    [] operation = "mmap" -> "mapping"
    [] operation \in {"header_initialize", "shared_clear", "final_erase",
                      "terminal_owned_inbound_clear"} -> "memory"
    [] operation \in {"descriptor_presence", "object_size", "header_binding"} -> "validation"
    [] operation = "authority_spawn_dup2" -> "error_code"
    [] OTHER -> "integer"

\* The states an operation of a kind ends in: good, bad.
GoodState == [symbol |-> "available", mapping |-> "succeeded", memory |-> "performed",
              validation |-> "accepted", error_code |-> "succeeded", integer |-> "succeeded"]
BadState == [symbol |-> "unavailable", mapping |-> "failed", memory |-> "performed",
             validation |-> "rejected", error_code |-> "failed", integer |-> "failed"]

\* What pw_setup_observe and AuthoritySetupRecorder.integer write: a call that
\* failed returned -1 and has an errno; only integer calls have a return value.
cell(names, slot, good, role) ==
  LET kind == nativeKind(names[slot + 1])
  IN [slot |-> slot, operation |-> names[slot + 1], role |-> role, native_kind |-> kind,
      state |-> IF good THEN GoodState[kind] ELSE BadState[kind],
      native_rc |-> IF kind \in {"integer", "error_code"}
                    THEN {IF good THEN 0 ELSE IF kind = "integer" THEN -1 ELSE 12} ELSE {},
      errno |-> IF ~good /\ kind \in {"integer", "mapping"} THEN {12} ELSE {}]

\* AuthoritySetupRecorder.record: one immutable cell per operation.
recorded(scope, names, slot, good, role) ==
  IF \E c \in scope.operations : c.slot = slot
  THEN [scope EXCEPT !.integrity_errors = {"invalid_or_repeated_operation_slot"}]
  ELSE [scope EXCEPT !.operations = @ \cup {cell(names, slot, good, role)}]

-----------------------------------------------------------------------------
(* The reader, actor_evidence.rs.                                           *)

cleanupSlot(family, slot) ==
  CASE family = "worker" -> slot >= 11
    [] family = "region" -> slot >= 8
    [] family = "custody" -> slot >= 1
    [] OTHER -> FALSE

cellIdentified(c, names, family) ==
  /\ c.slot + 1 \in DOMAIN names /\ c.operation = names[c.slot + 1]
  /\ \/ c.role = IF cleanupSlot(family, c.slot) THEN "cleanup" ELSE "setup"
     \/ family = "worker" /\ c.slot = 9 /\ c.role = "cleanup"

\* No kind of operation carries a result it cannot have.
cellNative(c) ==
  /\ c.native_kind = nativeKind(c.operation)
  /\ CASE c.native_kind = "integer" ->
            \/ c.state = "failed" /\ c.native_rc = {-1} /\ c.errno # {}
            \/ c.state = "succeeded" /\ (\E n \in c.native_rc : n >= 0) /\ c.errno = {}
       [] c.native_kind = "error_code" ->
            /\ c.state \in {"succeeded", "failed"} /\ c.errno = {}
            /\ \E n \in c.native_rc : n >= 0 /\ ((n = 0) <=> (c.state = "succeeded"))
       [] c.native_kind = "mapping" ->
            /\ c.state \in {"succeeded", "failed"} /\ c.native_rc = {}
            /\ (c.errno # {}) <=> (c.state = "failed")
       [] c.native_kind = "symbol" ->
            c.state \in {"available", "unavailable"} /\ c.native_rc = {} /\ c.errno = {}
       [] c.native_kind = "validation" ->
            c.state \in {"accepted", "rejected"} /\ c.native_rc = {} /\ c.errno = {}
       [] c.native_kind = "memory" ->
            c.state = "performed" /\ c.native_rc = {} /\ c.errno = {}

primaryFailed(scope) ==
  \A p \in scope.primary_operation :
    \E c \in scope.operations : c.slot = p /\ c.role = "setup" /\ c.state \in {"failed", "rejected"}

Releases(family) ==
  [object_name |-> {"shm_unlink"}, mapping |-> {"munmap", "rejected_mapping_munmap"},
   descriptor |-> IF family = "worker" THEN {"descriptor_close"} ELSE {"close_original_descriptor"}]

\* A reference said to be released has its successful cleanup, an erasure its clear.
ownershipBacked(scope, family) ==
  \A name \in DOMAIN scope.ownership :
    LET state == scope.ownership[name] IN
    IF name \in {"shared_erasure", "private_erasure"}
    THEN /\ state \in {"not_present", "performed", "withheld_not_quiescent", "unobserved"}
         /\ state = "performed" =>
              \E c \in scope.operations : c.state = "performed" /\
                 c.operation \in {"shared_clear", "final_erase", "terminal_owned_inbound_clear"}
    ELSE /\ state \in {"not_acquired", "held", "released", "unresolved"}
         /\ state = "released" =>
              \E c \in scope.operations :
                c.operation \in Releases(family)[name] /\ c.state = "succeeded"

cleanupReferenced(scope, family) ==
  scope.cleanup_reference =>
    /\ family = "region" /\ scope.ownership.object_name = "unresolved"
    /\ \E c \in scope.operations : c.operation = "shm_open" /\ c.state = "succeeded"

scopeAccepted(scope, names, family) ==
  /\ scope.integrity_errors # {} => \A d \in scope.disposition : d \notin {"ready", "not_required"}
  /\ Cardinality({c.slot : c \in scope.operations}) = Cardinality(scope.operations)
  /\ \A c \in scope.operations : cellIdentified(c, names, family) /\ cellNative(c)
  /\ primaryFailed(scope) /\ ownershipBacked(scope, family) /\ cleanupReferenced(scope, family)

\* What the worker's publication must say of its decision.
workerDecided(row) ==
  IF row.publication = "not_observed" THEN row.disposition = {} /\ row.primary_operation = {}
  ELSE /\ \E d \in row.disposition : d \in {"ready", "not_required", "terminal_required_failure"}
       /\ row.disposition = {"terminal_required_failure"} =>
            row.required /\ row.primary_operation # {}

setupAccepted(reply) ==
  /\ scopeAccepted(reply.run, RUN_OPS, "run")
  /\ \A row \in reply.regions : scopeAccepted(row, REGION_OPS, "region")
  /\ \A row \in reply.custody : scopeAccepted(row, CUSTODY_OPS, "custody")
  /\ scopeAccepted(reply.worker, WORKER_OPS, "worker") /\ workerDecided(reply.worker)

\* application: the basis of the assessment and the evidence it stands on.
\* A failure is <<operation, code, native kind, detail>>.
input_refusal(f) ==
  \/ f[1] = 1 /\ f[2] \in {4, 7, 10, 12} /\ f[3] = 0
  \/ f[1] = 2 /\ f[2] \in {2, 3, 9, 13}
parameter_refusal(f) ==
  \/ f[1] = 1 /\ f[2] = 5 /\ f[3] = 0
  \/ f[1] = 3 /\ f[2] = 1 /\ f[3] = 2
  \/ f[1] = 4 /\ <<f[2], f[3]>> \in {<<1, 1>>, <<6, 0>>}
compile_refusal(f) == f[1] = 5 /\ f[2] = 1 /\ f[3] = 2
timing_refusal(f) ==
  f[1] = 12 /\ (<<f[2], f[3]>> \in {<<1, 1>>, <<14, 0>>} \/ (f[2] = 15 /\ f[4] = 1 /\ f[3] = 0))
apply_failure(f) == f[1] = 8 /\ f[2] = 1 /\ f[3] = 1

refusedAuthority(row) ==
  row.publication = "observed" /\ row.disposition = {"terminal_required_failure"}

applicationSupported(a, row) ==
  LET failed(kind(_)) == \E f \in a.failure : kind(f)
      basis == a.application.basis
  IN /\ a.application_count \in {0, 1} /\ ((a.application_count = 1) <=> a.applied)
     /\ (basis # "unapplied_declaration") <=> (a.mode = "apply")
     /\ a.applied <=> (basis = "applied_publication")
     /\ CASE basis = "unapplied_declaration" -> a.application.state = "not_requested"
          [] basis = "worker_not_launched" ->
               /\ a.application.state = "not_attempted" /\ ~a.launched
               /\ a.setup_status \in {"launch_refused", "setup_timeout", "not_launched"}
          [] basis = "terminal_authority_setup_refusal" ->
               a.application.state = "not_attempted" /\ refusedAuthority(row)
          [] basis = "terminal_input_refusal" ->
               a.application.state = "not_attempted" /\ failed(input_refusal)
          [] basis = "terminal_parameter_refusal" ->
               a.application.state = "not_attempted" /\ failed(parameter_refusal)
          [] basis = "terminal_compile_refusal" ->
               a.application.state = "not_attempted" /\ failed(compile_refusal)
          [] basis = "terminal_timing_refusal" ->
               a.application.state = "not_attempted" /\ failed(timing_refusal)
          [] basis = "applied_publication" -> a.application.state = "observed"
          [] basis = "apply_failure_publication" ->
               a.application.state = "observed" /\ failed(apply_failure)
          [] basis = "apply_call_boundary_without_result" ->
               a.application.state = "unobserved" /\ a.progress = 8
          [] basis = "no_eligible_apply_publication" ->
               a.application.state = "unobserved" /\ ~refusedAuthority(row)
          [] OTHER -> FALSE

-----------------------------------------------------------------------------
(* The host: AuthorityCustody, ActorAuthorityRegion and TokenCustody.       *)

Scope(ownership) ==
  [disposition |-> {"not_attempted"}, primary_operation |-> {}, operations |-> {},
   ownership |-> ownership, cleanup_reference |-> FALSE, integrity_errors |-> {}]
WorkerRow(required) ==
  [disposition |-> {}, primary_operation |-> {}, operations |-> {},
   ownership |-> [descriptor |-> "not_acquired", mapping |-> "not_acquired",
                  shared_erasure |-> "not_present"],
   cleanup_reference |-> FALSE, integrity_errors |-> {},
   required |-> required, publication |-> "not_observed"]
failures(results) == Cardinality({r \in DOMAIN results : ~results[r]})
mayFail(results) == su.failures + failures(results) <= MaxFailures
NoOwnership == [x \in {} |-> ""]
OpenFailure == 5

released(ok) == IF ok THEN "released" ELSE "unresolved"

\* The region's init stops at the first operation, failed, that does not succeed
\* (OpenFailure: none); whatever it has opened it closes, with result `closed`.
regionScope(failed, closed) ==
  LET ready == failed = OpenFailure
      opened == failed > 0 /\ ~ready
      own == [object_name |-> CASE failed = 0 -> "not_acquired" [] failed = 1 -> "unresolved"
                                [] OTHER -> "released",
              descriptor |-> CASE failed = 0 -> "not_acquired" [] ready -> "held"
                               [] OTHER -> released(closed),
              mapping |-> IF ready THEN "held" ELSE "not_acquired",
              shared_erasure |-> "not_present"]
  IN [Scope(own) EXCEPT
        !.operations = {cell(REGION_OPS, s, s # failed \/ ready, "setup") : s \in 0..failed}
                         \cup {cell(REGION_OPS, 9, closed, "cleanup") : x \in {y \in {0} : opened}},
        !.disposition = {IF ready THEN "ready" ELSE "failed"},
        !.primary_operation = IF ready THEN {} ELSE {failed},
        !.cleanup_reference = failed = 1]

custodyScope(ok) ==
  [Scope([mapping |-> IF ok THEN "held" ELSE "not_acquired", private_erasure |-> "not_present"])
     EXCEPT !.operations = {cell(CUSTODY_OPS, 0, ok, "setup")},
            !.disposition = {IF ok THEN "ready" ELSE "failed"},
            !.primary_operation = IF ok THEN {} ELSE {0}]

runScope(ok) ==
  [Scope(NoOwnership) EXCEPT !.operations = {cell(RUN_OPS, 0, ok, "setup")},
                             !.disposition = {IF ok THEN "ready" ELSE "failed"},
                             !.primary_operation = IF ok THEN {} ELSE {0}]

\* What the host then really holds.
acquired(failed, closed, token) ==
  {r \in {"object_name", "descriptor", "mapping", "token"} :
     \/ r = "object_name" /\ failed = 1
     \/ r = "descriptor" /\ (failed = OpenFailure \/ (failed > 0 /\ ~closed))
     \/ r = "mapping" /\ failed = OpenFailure
     \/ r = "token" /\ token}

\* AuthorityCustody.init and its setupFailure: everything exists before the first
\* launch, or nothing is launched.
PrepareHost ==
  /\ su.hpc = "prepare"
  /\ \/ ~su.required /\ su' = [su EXCEPT !.hpc = "launch",
                                         !.run = [Scope(NoOwnership) EXCEPT !.disposition = {"not_required"}]]
     \/ su.required /\ mayFail(<<FALSE>>) /\ su' = [su EXCEPT !.hpc = "finish", !.run = runScope(FALSE)]
     \/ /\ su.required
        /\ \E failed \in 0..OpenFailure, closed \in BOOLEAN, token \in BOOLEAN :
             LET results == <<failed = OpenFailure, token>> IN
             /\ mayFail(results) /\ (failed \in {0, OpenFailure} => closed)
             /\ su' = [su EXCEPT !.run = runScope(TRUE), !.regions = {regionScope(failed, closed)},
                              !.failures = @ + failures(results),
                              !.custody = {custodyScope(token)},
                              !.held = acquired(failed, closed, token),
                              !.hpc = IF failed = OpenFailure /\ token THEN "launch" ELSE "finish"]

\* The only region, after x has been done to it.
inRegion(x(_)) == {x(r) : r \in su.regions}

\* ActorSession.init: the descriptor is duplicated for the child, the duplicate
\* and the original are closed whether or not the spawn succeeds.
Launch_Actor ==
  /\ su.hpc = "launch"
  /\ \E step \in {"duplicate", "dup2", "spawn", "none"}, dup \in BOOLEAN, orig \in BOOLEAN :
       LET duplicated(r) == recorded(r, REGION_OPS, 6, step # "duplicate", "setup")
           arranged(r) == IF step = "duplicate" THEN duplicated(r)
                          ELSE recorded(duplicated(r), REGION_OPS, 7, step # "dup2", "setup")
           undone(r) == IF step = "duplicate" THEN arranged(r)
                        ELSE recorded(arranged(r), REGION_OPS, 8, dup, "cleanup")
           closed(r) == [recorded(undone(r), REGION_OPS, 9, orig, "cleanup")
                           EXCEPT !.ownership.descriptor = released(orig)]
           results == <<step = "none", dup, orig>>
       IN /\ (step \in {"duplicate", "dup2"} \/ ~dup \/ ~orig) => su.required
          /\ mayFail(results)
          /\ su' = [su EXCEPT
               !.failures = @ + failures(results),
               !.regions = inRegion(closed),
               !.held = (@ \ (IF orig THEN {"descriptor"} ELSE {}))
                          \cup (IF su.required /\ ~dup /\ step # "duplicate" THEN {"duplicate"} ELSE {}),
               !.wpc = IF step = "none" THEN "header" ELSE "absent",
               !.hpc = IF step = "none" THEN "watch" ELSE "finish"]

-----------------------------------------------------------------------------
(* The worker: pw_probe_runner.c, prepare_authority and what follows it.    *)

HeaderRefusals == {<<1, 7, 0, 0>>, <<1, 4, 0, 0>>, <<1, 10, 0, 0>>}
InputRefusals == {<<1, 5, 0, 0>>, <<12, 1, 1, 0>>, <<12, 15, 0, 1>>, <<2, 3, 1, 0>>, <<2, 13, 0, 0>>}
PolicyRefusals == {<<3, 1, 2, 0>>, <<4, 6, 0, 0>>, <<5, 1, 2, 0>>}

\* The worker is at pc and runs: freely under the watch, in turns with its reader.
at(pc) == su.wpc = pc /\ (su.hpc = "watch" \/ (su.hpc = "collect" /\ su.turn = "worker"))
published(slot) == \E c \in su.cells : c.slot = slot
publish(slot, good, role) == su.cells \cup {cell(WORKER_OPS, slot, good, role)}
mapped == published(10) /\ su.primary = {}

WorkerChecksHeader ==
  /\ at("header")
  /\ \/ su' = [su EXCEPT !.wpc = "cells"]
     \/ \E f \in HeaderRefusals : su' = [su EXCEPT !.failure = {f}, !.wpc = "exited"]

\* The next operation of prepare_authority: a missing symbol is only noted, any
\* other failure is the primary one.  Without a descriptor there is no more to do.
WorkerOperates ==
  /\ at("cells")
  /\ \E good \in BOOLEAN :
       LET s == su.slot
           fails == ~good /\ s > 2
       IN /\ s \in {4, 6} => good
          /\ mayFail(<<good>>)
          /\ su' = [su EXCEPT !.cells = publish(s, good, "setup"), !.slot = s + 1,
                              !.failures = @ + failures(<<good>>),
                              !.primary = IF fails THEN {s} ELSE @,
                              !.wpc = IF fails \/ s = 10 \/ (s = 4 /\ ~su.required)
                                      THEN "decision" ELSE "cells"]

\* "Publish refusal before cleanup: an interrupted cleanup cannot hide it."
WorkerDecides ==
  /\ at("decision")
  /\ su' = [su EXCEPT !.wpc = "close",
       !.decision = {[disposition |-> IF ~su.required THEN "not_required"
                                      ELSE IF su.primary = {} THEN "ready"
                                      ELSE "terminal_required_failure",
                      primary |-> su.primary]}]

WorkerCleansUp ==
  \/ /\ at("close")
     /\ IF su.required /\ ~published(9)
        THEN \E good \in BOOLEAN :
               su' = [su EXCEPT !.cells = publish(9, good, "cleanup"), !.wpc = "unmap"]
        ELSE su' = [su EXCEPT !.wpc = "unmap"]
  \/ /\ at("unmap")
     /\ LET then == IF su.required /\ su.primary # {} THEN "exited" ELSE "input"
        IN IF su.primary # {} /\ \E c \in su.cells : c.slot = 8 /\ c.state = "succeeded"
           THEN \E good \in BOOLEAN :
                  su' = [su EXCEPT !.cells = publish(12, good, "cleanup"), !.wpc = then]
           ELSE su' = [su EXCEPT !.wpc = then]

WorkerRefusesInput ==
  /\ at("input")
  /\ \E f \in InputRefusals \cup (IF su.mode = "apply" THEN PolicyRefusals ELSE {}) :
       su' = [su EXCEPT !.failure = {f}, !.wpc = "erase"]

WorkerApplies ==
  \/ /\ at("input")
     /\ su' = IF su.mode = "apply" THEN [su EXCEPT !.progress = 8, !.wpc = "applying"]
              ELSE [su EXCEPT !.wpc = "visits"]
  \/ at("applying") /\ su' = [su EXCEPT !.applied = TRUE, !.wpc = "visits"]
  \/ at("applying") /\ su' = [su EXCEPT !.failure = {<<8, 1, 1, 0>>}, !.wpc = "erase"]

WorkerVisits ==
  /\ at("visits")
  /\ \/ su' = [su EXCEPT !.progress = 13, !.wpc = "erase"]
     \/ su' = [su EXCEPT !.progress = 13, !.failure = {<<13, 16, 0, 0>>}, !.wpc = "erase"]

\* erase_authority, in publish_done_and_exit and at every later return.
WorkerErases ==
  /\ at("erase")
  /\ su' = [su EXCEPT !.wpc = "exited",
                      !.cells = IF mapped THEN publish(11, TRUE, "cleanup") ELSE @]

WorkerDies ==
  /\ su.wpc \notin {"absent", "exited"} /\ at(su.wpc)
  /\ su' = [su EXCEPT !.wpc = "exited"]

-----------------------------------------------------------------------------
(* Collection and the end: collectOutput, decodeAuthoritySetup, finish.     *)

\* The actor is reaped, or its termination stays unresolved and it may run on.
StopWatching ==
  /\ su.hpc = "watch"
  /\ \E reaped \in {FALSE, su.wpc = "exited"} :
       su' = [su EXCEPT !.hpc = "collect", !.quiescent = reaped]

\* Mutant of collectionOrder: the decision is looked at after the cells.
collectionOrder_CellsFirst == <<"applied", "evidence", "cells", "decision">>

\* "Snapshot the decision first.  Its release orders every prerequisite cell."
collectionOrder == <<"applied", "evidence", "decision", "cells">>

Collect_Next ==
  /\ su.hpc = "collect" /\ su.turn = "host" /\ su.wpc # "exited"
  /\ LET what == collectionOrder[su.reading]
         last == su.reading = Len(collectionOrder) /\ (what = "cells" => su.scan = 12)
         read == [su EXCEPT !.reading = IF what = "cells" /\ su.scan < 12 THEN @ ELSE @ + 1,
                            !.hpc = IF last THEN "finish" ELSE @]
     IN su' =
       CASE what = "applied" -> [read EXCEPT !.seen.applied = su.applied]
         [] what = "evidence" -> [read EXCEPT !.seen.failure = su.failure,
                                              !.seen.progress = su.progress]
         [] what = "decision" -> [read EXCEPT !.seen.decision = su.decision]
         [] what = "cells" ->
              [read EXCEPT !.scan = @ + 1,
                           !.seen.cells = @ \cup {c \in su.cells : c.slot = su.scan}]

\* Nothing moves under the reader any more: the reads that are left, as one step.
Collect_Rest ==
  /\ su.hpc = "collect" /\ su.wpc = "exited"
  /\ LET left(what) == \E i \in su.reading..Len(collectionOrder) : collectionOrder[i] = what
     IN su' = [su EXCEPT
          !.hpc = "finish", !.reading = Len(collectionOrder) + 1, !.scan = 13,
          !.seen = [applied |-> IF left("applied") THEN su.applied ELSE @.applied,
                    failure |-> IF left("evidence") THEN su.failure ELSE @.failure,
                    progress |-> IF left("evidence") THEN su.progress ELSE @.progress,
                    decision |-> IF left("decision") THEN su.decision ELSE @.decision,
                    cells |-> @.cells \cup {c \in su.cells : c.slot >= su.scan}]]

Switch ==
  /\ su.hpc = "collect" /\ su.wpc # "exited"
  /\ \/ su.turn = "worker" /\ su' = [su EXCEPT !.turn = "host"]
     \/ /\ su.turn = "host" /\ su.switches < MaxSwitches
        /\ su' = [su EXCEPT !.turn = "worker", !.switches = @ + 1]

\* decodeAuthoritySetup.  The descriptor was there when authority is required.
decodeAuthoritySetup ==
  LET cells == su.seen.cells
      has(slot) == \E c \in cells : c.slot = slot
      good(slot) == \E c \in cells : c.slot = slot /\ c.state = "succeeded"
      row == [WorkerRow(su.required) EXCEPT
                !.operations = cells,
                !.ownership = [descriptor |-> IF has(9) THEN released(good(9))
                                              ELSE IF has(4) /\ su.required THEN "held"
                                              ELSE "not_acquired",
                               mapping |-> IF has(12) THEN released(good(12))
                                           ELSE IF good(8) THEN "held" ELSE "not_acquired",
                               shared_erasure |-> IF has(11) THEN "performed" ELSE "not_present"]]
      unpublished(d) == \E p \in d.primary : ~\E c \in cells : c.slot = p /\ c.state \in {"failed", "rejected"}
  IN IF su.seen.decision = {} THEN row
     ELSE LET d == CHOOSE x \in su.seen.decision : TRUE
          IN [row EXCEPT !.publication = "observed", !.disposition = {d.disposition},
                         !.primary_operation = d.primary,
                         !.integrity_errors = IF unpublished(d) THEN {"setup_primary_unpublished"}
                                              ELSE {}]

\* actorApplicationAssessment.
assessment(row) ==
  LET answer(s, b) == [state |-> s, basis |-> b]
      failed(kind(_)) == \E f \in su.seen.failure : kind(f)
  IN IF su.mode = "unapplied" THEN answer("not_requested", "unapplied_declaration")
     ELSE IF su.wpc = "absent" THEN answer("not_attempted", "worker_not_launched")
     ELSE IF su.seen.applied THEN answer("observed", "applied_publication")
     ELSE IF refusedAuthority(row) /\ row.integrity_errors = {}
          THEN answer("not_attempted", "terminal_authority_setup_refusal")
     ELSE IF failed(apply_failure) THEN answer("observed", "apply_failure_publication")
     ELSE IF failed(input_refusal) THEN answer("not_attempted", "terminal_input_refusal")
     ELSE IF failed(parameter_refusal) THEN answer("not_attempted", "terminal_parameter_refusal")
     ELSE IF failed(compile_refusal) THEN answer("not_attempted", "terminal_compile_refusal")
     ELSE IF failed(timing_refusal) THEN answer("not_attempted", "terminal_timing_refusal")
     ELSE IF su.seen.progress = 8 THEN answer("unobserved", "apply_call_boundary_without_result")
     ELSE answer("unobserved", "no_eligible_apply_publication")

\* The actors finish() may erase under: reaped, or never launched.
quiescent == su.quiescent \/ su.wpc = "absent"

\* ActorAuthorityRegion.tearDown: erased only when its actor is gone.
tearDown(r, unmapped, closed) ==
  LET cleared == IF ~("mapping" \in su.held) THEN r
                 ELSE IF quiescent
                 THEN [recorded(r, REGION_OPS, 10, TRUE, "cleanup")
                         EXCEPT !.ownership.shared_erasure = "performed"]
                 ELSE [r EXCEPT !.ownership.shared_erasure = "withheld_not_quiescent"]
      detached == IF ~("mapping" \in su.held) THEN cleared
                  ELSE [recorded(cleared, REGION_OPS, 11, unmapped, "cleanup")
                          EXCEPT !.ownership.mapping = released(unmapped)]
  IN IF r.ownership.descriptor = "held"
     THEN [recorded(detached, REGION_OPS, 9, closed, "cleanup")
             EXCEPT !.ownership.descriptor = released(closed)]
     ELSE detached

finishToken(t, unmapped) ==
  IF "token" \notin su.held THEN t
  ELSE [recorded(recorded(t, CUSTODY_OPS, 1, TRUE, "cleanup"), CUSTODY_OPS, 2, unmapped, "cleanup")
          EXCEPT !.ownership.private_erasure = "performed", !.ownership.mapping = released(unmapped)]

Finish_Setup ==
  /\ su.hpc = "finish"
  /\ \E unmapped \in BOOLEAN, closed \in BOOLEAN, freed \in BOOLEAN :
       LET closes == \E r \in su.regions : r.ownership.descriptor = "held"
       IN /\ unmapped \/ "mapping" \in su.held
          /\ closed \/ closes
          /\ freed \/ "token" \in su.held
          /\ failures(<<unmapped, closed, freed>>) <= 1
          /\ su' = [su EXCEPT
            !.hpc = "replied",
            !.regions = {tearDown(r, unmapped, closed) : r \in @},
            !.custody = {finishToken(t, freed) : t \in @},
            !.erased = \E r \in su.regions :
                         tearDown(r, unmapped, closed).ownership.shared_erasure = "performed",
            !.running = su.wpc \notin {"absent", "exited"},
            \* From here on the worker's memory is not read again.
            !.wpc = IF @ = "absent" THEN @ ELSE "exited", !.cells = NotPublished,
            !.decision = NotPublished, !.primary = {}, !.failure = {}, !.progress = 0,
            !.slot = 0, !.turn = "host", !.switches = 0,
            !.held = @ \ {x \in @ : \/ x = "mapping" /\ unmapped
                                    \/ x = "descriptor" /\ closed /\ closes
                                    \/ x = "token" /\ freed}]

setupReply ==
  LET row == decodeAuthoritySetup
  IN [run |-> su.run, regions |-> su.regions, custody |-> su.custody, worker |-> row,
      actor |-> [mode |-> su.mode, launched |-> su.wpc # "absent",
                 setup_status |-> IF su.wpc = "absent" THEN "launch_refused" ELSE "launched",
                 applied |-> su.seen.applied, application_count |-> IF su.seen.applied THEN 1 ELSE 0,
                 failure |-> su.seen.failure, progress |-> su.seen.progress,
                 application |-> assessment(row)]]

-----------------------------------------------------------------------------
SetupStarts ==
  {[required |-> required, mode |-> mode, hpc |-> "prepare", wpc |-> "absent",
    cells |-> NotPublished, decision |-> NotPublished, slot |-> 0, primary |-> {},
    failure |-> {}, progress |-> 0, applied |-> FALSE,
    run |-> Scope(NoOwnership), regions |-> {}, custody |-> {}, held |-> {},
    quiescent |-> FALSE, erased |-> FALSE, running |-> FALSE, reading |-> 1, scan |-> 0,
    turn |-> "host", switches |-> 0, failures |-> 0,
    seen |-> [applied |-> FALSE, failure |-> {}, progress |-> 0, decision |-> {}, cells |-> {}]] :
    required \in BOOLEAN, mode \in {"apply", "unapplied"}}

NextSetup ==
  \/ PrepareHost \/ Launch_Actor \/ StopWatching \/ Collect_Next \/ Collect_Rest \/ Switch \/ Finish_Setup
  \/ WorkerChecksHeader \/ WorkerOperates \/ WorkerDecides \/ WorkerCleansUp
  \/ WorkerRefusesInput \/ WorkerApplies \/ WorkerVisits \/ WorkerErases \/ WorkerDies

-----------------------------------------------------------------------------
(* Properties.                                                              *)

\* The account of the setup is one the controller admits, wherever host or
\* worker failed and however far a worker that outlived its host's patience got
\* while its cells were being read.  What it says of ownership is so: a reference
\* that the host still holds is never said to be released or never acquired, a
\* region was erased only if no worker could still be in it, and a worker said to
\* have been refused its authority never applied a policy.
SetupAccountIsTrue ==
  su.hpc = "replied" =>
    LET reply == setupReply
        says(rows, name) == {r.ownership[name] : r \in rows}
    IN /\ setupAccepted(reply) /\ applicationSupported(reply.actor, reply.worker)
       /\ \A name \in su.held \cap {"object_name", "descriptor", "mapping"} :
            says(reply.regions, name) = {"unresolved"}
       /\ "token" \in su.held => says(reply.custody, "mapping") = {"unresolved"}
       /\ "duplicate" \in su.held =>
            \E r \in reply.regions : \E c \in r.operations : c.slot = 8 /\ c.state = "failed"
       /\ ~(su.erased /\ su.running)
       /\ refusedAuthority(reply.worker) => ~su.applied
=============================================================================
