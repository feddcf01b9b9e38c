-------------------------- MODULE EquipmentBinding --------------------------
(***************************************************************************)
(* Which worker an actor runs.  Before launch the host binds each worker   *)
(* role to the file of the sealed inventory (ActorEquipment.swift); after  *)
(* setup it inspects the code of every live worker against its binding;    *)
(* the controller reads the account (actor_evidence.rs, equipment).  The   *)
(* files may be replaced at any moment between the steps.                  *)
(***************************************************************************)
EXTENDS Naturals, FiniteSets, Sequences

CONSTANTS
  ActorRoles,        \* for each actor, the role it resolves to
  Required,          \* for each actor, the entitlements it requires
  MaxReplacements    \* how often a worker's file is replaced during the run

ASSUME EquipmentAssumption ==
  /\ \A i \in DOMAIN ActorRoles : ActorRoles[i] \in {"selected", "unentitled"}
  /\ DOMAIN Required = DOMAIN ActorRoles
  /\ MaxReplacements \in Nat

VARIABLE eq

Roles == <<"selected", "unentitled">>

\* Contents of a worker's file stand for its hash, its code hash, its identifier
\* and its team; Entitlements says what each is signed with.
Contents == {"selected", "unentitled", "rebuilt", "stronger", "unsigned"}
Entitlements == [selected |-> {"e"}, unentitled |-> {}, rebuilt |-> {"e"}, stronger |-> {"e", "f"}, unsigned |-> {}]
NativeCalls == <<"guest_code", "dynamic_validity", "associated_static_code", "signing_information">>

Packaged(role) == <<"packaged", role>>
Override(role) == <<"override", role>>
boundTo(i) == IF ActorRoles[i] \in eq.overrides THEN Override(ActorRoles[i]) ELSE Packaged(ActorRoles[i])
AllBindings == [r \in 1..2 |-> Packaged(Roles[r])]
                 \o SelectSeq([r \in 1..2 |-> Override(Roles[r])], LAMBDA b : b[2] \in eq.overrides)
expects(b) == IF b[1] = "packaged" THEN {b[2]} ELSE {}

-----------------------------------------------------------------------------
(* The reader.                                                              *)

readOf(reply, id) == {r \in reply.reads : r.id = id}
plists(reply) == {r \in reply.reads : r.status = "observed"}
plistOf(reply, id) == UNION UNION {r.plist : r \in readOf(reply, id)}

tablesBounded(reply) ==
  /\ reply.inventory.status \in {"verified", "refused", "unobserved"}
  /\ Cardinality(reply.bindings) <= 4 /\ Cardinality(reply.reads) <= 12
  /\ reply.inventory.status = "verified" => reply.inventory.sealed

uniqueIds(rows) == Cardinality({r.id : r \in rows}) = Cardinality(rows)

readbackConsistent(reply, r) ==
  /\ r.id = (IF r.source = "binding" THEN <<"binding", r.binding_ref>> ELSE <<"execution", r.actor>>)
  /\ r.status = "observed" \/ (r.status = "failed" /\ r.plist = {})

bindingAssociated(b) ==
  /\ b.role \in {"selected", "unentitled"} /\ b.id[2] = b.role
  /\ IF b.id[1] = "override" THEN b.source = "test_override" /\ b.expected = {}
     ELSE b.source = "packaged" /\ b.relative

bindingInspected(reply, b) ==
  \/ b.status = "refused"
  \/ /\ b.status = "bound" /\ reply.inventory.status = "verified" /\ b.signature_ok
     /\ b.sha256 # {} /\ b.cdhash # {}
     /\ b.id[1] = "packaged" => b.sha256 = b.expected /\ b.cdhash = b.expected /\ b.entitlements_match
     /\ b.entitlements_ref = {<<"binding", b.id>>}
     /\ readOf(reply, <<"binding", b.id>>) \cap plists(reply) # {}
     /\ b.id = Packaged("unentitled") => plistOf(reply, <<"binding", b.id>>) = {}

selectorAssociated(a) == a.binding_ref[2] = a.resolved

requirementsAgree(reply, a) ==
  LET id == <<"binding", a.binding_ref>>
      missing == a.required \ plistOf(reply, id)
  IN CASE a.requirements_status \in {"satisfied", "unsatisfied"} ->
            /\ readOf(reply, id) \cap plists(reply) # {}
            /\ a.missing = {missing} /\ ((a.requirements_status = "satisfied") <=> (missing = {}))
       [] a.requirements_status = "unobserved" -> a.missing = {}
       [] OTHER -> FALSE

executionMatched(reply, a) ==
  LET x == a.execution
      id == <<"execution", a.index>>
      live == plistOf(reply, id)
  IN /\ \E b \in reply.bindings :
          b.id = a.binding_ref /\ b.status = "bound" /\ x.path = {b.path} /\ x.cdhash = b.cdhash
     /\ a.requirements_status = "satisfied" /\ x.eligible /\ x.reason = {}
     /\ x.pid = a.launched /\ x.pid # {} /\ x.entitlements_ref = {id}
     /\ \E r \in readOf(reply, id) \cap plists(reply) :
          r.binding_ref = a.binding_ref /\ r.actor = a.index
     /\ live = plistOf(reply, <<"binding", a.binding_ref>>) /\ a.required \subseteq live
     /\ x.native = [n \in 1..4 |-> <<NativeCalls[n], TRUE>>]

runtimeFailed(reply) ==
  \E a \in reply.actors :
    a.launched # {} /\ a.execution.status \in {"mismatched", "inspection_failed"}

\* Equipment refused at run time keeps its evidence and enables no phase.
runtimeRefusalKept(reply) ==
  runtimeFailed(reply) =>
    ~reply.finished /\ reply.preparation = {} /\ reply.cancelled # {} /\ ~reply.enabled

equipmentAccepted(reply) ==
  /\ tablesBounded(reply) /\ uniqueIds(reply.bindings) /\ uniqueIds(reply.reads)
  /\ \A r \in reply.reads : readbackConsistent(reply, r)
  /\ \A b \in reply.bindings : bindingAssociated(b) /\ bindingInspected(reply, b)
  /\ \A a \in reply.actors :
       /\ selectorAssociated(a) /\ requirementsAgree(reply, a)
       /\ a.execution.status \in {"matched", "mismatched", "inspection_failed", "unobserved"}
       /\ IF a.execution.status = "matched" THEN executionMatched(reply, a) ELSE ~a.execution.eligible
  /\ runtimeRefusalKept(reply)

preparation_failure_valid(reply) ==
  reply.preparation # {} =>
    /\ ~reply.finished /\ ~reply.enabled
    /\ \A a \in reply.actors : a.setup_status = "launch_refused" /\ a.launched = {}

-----------------------------------------------------------------------------
(* Binding, before launch.                                                  *)

BindingRow(b) ==
  [id |-> b, role |-> b[2], source |-> IF b[1] = "packaged" THEN "packaged" ELSE "test_override",
   relative |-> b[1] = "packaged", expected |-> expects(b), path |-> b, status |-> "refused",
   sha256 |-> {}, cdhash |-> {}, signature_ok |-> FALSE, entitlements_match |-> FALSE,
   entitlements_ref |-> {}]
ReadBack(id, source, binding, actor, plist) ==
  [id |-> id, source |-> source, binding_ref |-> binding, actor |-> actor,
   status |-> IF plist = {} THEN "failed" ELSE "observed", plist |-> plist]

refused(e, reason) == [e EXCEPT !.failure = IF @ = {} THEN {reason} ELSE @]

\* The seal of the service and the inventory it covers; any of them may be bad.
ReadInventory ==
  /\ eq.hpc = "inventory"
  /\ \/ eq' = [eq EXCEPT !.hpc = "bind", !.inventory = [status |-> "verified", sealed |-> TRUE]]
     \/ \E sealed \in BOOLEAN, reason \in {"signature_invalid", "missing", "worker_identity_mismatch"} :
          eq' = [refused(eq, reason) EXCEPT
                   !.hpc = "requirements", !.inventory = [status |-> "refused", sealed |-> sealed]]

\* bindOne, up to the hash: the file's kind and place, then its bytes.
HashWorker ==
  /\ eq.hpc = "bind" /\ eq.row = {} /\ eq.next <= Len(AllBindings)
  /\ LET b == AllBindings[eq.next]
     IN \/ eq' = [eq EXCEPT !.row = {[BindingRow(b) EXCEPT !.sha256 = {eq.file[b]}]}]
        \/ \E reason \in {"missing", "outside_bundle", "inspection_failed"} :
             eq' = [refused(eq, reason) EXCEPT !.bindings = @ \cup {BindingRow(b)}, !.next = @ + 1]

\* bindOne, the rest: the signature of the file as it is now, and its comparison.
InspectStatic ==
  /\ eq.hpc = "bind" /\ eq.row # {}
  /\ LET b == AllBindings[eq.next]
         now == eq.file[b]
         id == <<"binding", b>>
         hashed == CHOOSE r \in eq.row : TRUE
         signed == [hashed EXCEPT !.cdhash = {now}, !.signature_ok = TRUE, !.entitlements_ref = {id},
                                  !.entitlements_match = \E c \in expects(b) : Entitlements[c] = Entitlements[now]]
         agrees == \A c \in expects(b) : signed.sha256 = {c} /\ now = c /\ signed.entitlements_match
         appended(row, reads) == [eq EXCEPT !.row = {}, !.next = @ + 1, !.bindings = @ \cup {row},
                                            !.reads = @ \cup reads]
     IN \/ /\ now # "unsigned"
           /\ eq' = IF agrees
                    THEN appended([signed EXCEPT !.status = "bound"],
                                  {ReadBack(id, "binding", b, 0, {Entitlements[now]})})
                    ELSE refused(appended(signed, {ReadBack(id, "binding", b, 0, {Entitlements[now]})}),
                                 "worker_identity_mismatch")
        \/ eq' = refused(appended([hashed EXCEPT !.entitlements_ref = {id}],
                                  {ReadBack(id, "binding", b, 0, {})}), "entitlements_unreadable")
        \/ now = "unsigned" /\ eq' = refused(appended(hashed, {}), "signature_unreadable")

bound(b) == {r \in eq.bindings : r.id = b /\ r.status = "bound"}

\* The requirements of each actor against the entitlements of its binding.
CheckRequirements ==
  /\ \/ eq.hpc = "requirements"
     \/ eq.hpc = "bind" /\ eq.row = {} /\ eq.next > Len(AllBindings)
  /\ LET missing(i) == UNION {Required[i] \ Entitlements[CHOOSE c \in r.cdhash : TRUE] : r \in bound(boundTo(i))}
         lacking == \E i \in DOMAIN ActorRoles : missing(i) # {}
         observed(i) == bound(boundTo(i)) # {}
         stopped == lacking \/ eq.failure # {}
     IN eq' = [(IF lacking THEN refused(eq, "requirements_unsatisfied") ELSE eq) EXCEPT
          !.missing = [i \in DOMAIN ActorRoles |-> IF observed(i) THEN {missing(i)} ELSE {}],
          !.hpc = IF stopped THEN "replied" ELSE "launch",
          !.preparation = IF stopped THEN {"equipment"} ELSE {},
          !.next = 1]

-----------------------------------------------------------------------------
(* Launch, inspection and the walk.                                         *)

\* A worker runs the file's content of the moment it is spawned.
SpawnWorker ==
  /\ eq.hpc = "launch"
  /\ LET i == eq.next
         done(e) == [e EXCEPT !.next = IF i = Len(ActorRoles) THEN 1 ELSE i + 1,
                              !.hpc = IF i = Len(ActorRoles) THEN "inspect" ELSE @]
     IN \/ \E usable \in BOOLEAN :
             eq' = done([eq EXCEPT !.running[i] = {eq.file[boundTo(i)]}, !.usable[i] = usable])
        \/ eq' = done(eq)

fails(e, i, status, reason) ==
  [e EXCEPT !.execution[i].status = status, !.execution[i].reason = {reason},
            !.equipmentFailure[i] = {reason}]

\* Mutant of codeAgrees: the running code is taken at its path's word.
codeAgrees_Path(code, b) == Entitlements[code] = Entitlements[CHOOSE c \in b.cdhash : TRUE]

\* The identity and the entitlements of the live code are those of the binding.
codeAgrees(code, b) ==
  b.cdhash = {code} /\ Entitlements[code] = Entitlements[CHOOSE c \in b.cdhash : TRUE]

\* ActorEquipmentPreparation.inspect on a pending child: n native calls succeed.
inspect(i, n, moved, late) ==
  LET b == CHOOSE r \in bound(boundTo(i)) : TRUE
      code == CHOOSE c \in eq.running[i] : TRUE
      id == <<"execution", i>>
      called == [eq EXCEPT !.execution[i].pid = {i},
                           !.execution[i].native = [k \in 1..4 |-> <<NativeCalls[k], k <= n>>]]
      readBy(plist) == [called EXCEPT !.execution[i].entitlements_ref = {id},
                                    !.reads = @ \cup {ReadBack(id, "execution", boundTo(i), i, plist)}]
      read == [readBy({Entitlements[code]}) EXCEPT !.execution[i].path = {IF moved THEN <<"elsewhere", "">> ELSE b.path},
                                                 !.execution[i].cdhash = {code}]
  IN IF n = 3 THEN fails(readBy({}), i, "inspection_failed", "signing_readback_failed")
     ELSE IF n < 3 THEN fails(called, i, "inspection_failed", NativeCalls[n + 1])
     ELSE IF moved THEN fails(read, i, "mismatched", "executable_mismatch")
     ELSE IF ~codeAgrees(code, b) THEN fails(read, i, "mismatched", "signature_identity_mismatch")
     ELSE IF ~(Required[i] \subseteq Entitlements[code])
          THEN fails(read, i, "mismatched", "requirements_unsatisfied")
     ELSE IF late THEN fails(read, i, "inspection_failed", "inspection_deadline")
     ELSE [read EXCEPT !.execution[i].status = "matched", !.execution[i].eligible = TRUE]

\* The scheduler's loop over the usable sessions: the deadline, the child, the
\* inspection, the deadline again.
InspectLive ==
  /\ eq.hpc = "inspect"
  /\ LET i == eq.next
         cancels(e) == [e EXCEPT !.cancelled = IF @ = {} THEN e.equipmentFailure[i] ELSE @,
                                 !.next = @ + 1, !.hpc = IF i = Len(ActorRoles) THEN "walk" ELSE @]
     IN \/ (eq.running[i] = {} \/ ~eq.usable[i]) /\ eq' = cancels(eq)
        \/ /\ eq.running[i] # {} /\ eq.usable[i]
           /\ \/ \E reason \in {"inspection_deadline", "process_unavailable", "ownership_unresolved"} :
                   eq' = cancels([eq EXCEPT !.equipmentFailure[i] = {reason}])
              \/ \E n \in 0..4, moved \in BOOLEAN, late \in BOOLEAN :
                   /\ eq.running[i] = {"unsigned"} => n < 2
                   /\ eq' = cancels(inspect(i, n, moved, late))
              \/ LET e == inspect(i, 4, FALSE, FALSE)   \* the clock after the inspection
                 IN e.equipmentFailure[i] = {} /\ eq.running[i] # {"unsigned"} /\
                    eq' = cancels([e EXCEPT !.equipmentFailure[i] = {"inspection_deadline"}])

\* walkSchedule enables no phase of a cancelled session; then the reply is
\* assembled, and a match that the scheduler did not accept is withdrawn.
WalkAndReply ==
  /\ eq.hpc = "walk"
  /\ LET withdrawn(i) == eq.equipmentFailure[i] # {} /\ eq.execution[i].status = "matched"
     IN eq' = [eq EXCEPT
          !.hpc = "replied", !.enabled = eq.cancelled = {},
          !.execution = [i \in DOMAIN ActorRoles |->
                           IF withdrawn(i) THEN [@[i] EXCEPT !.status = "inspection_failed", !.eligible = FALSE,
                                                             !.reason = eq.equipmentFailure[i]]
                           ELSE @[i]]]

\* Someone installs another worker under a running session.
ReplaceWorker ==
  /\ eq.replaced < MaxReplacements /\ eq.hpc \notin {"walk", "replied"}
  /\ \E b \in DOMAIN eq.file, c \in Contents :
       c # eq.file[b] /\ eq' = [eq EXCEPT !.file[b] = c, !.replaced = @ + 1]

equipmentReply ==
  [inventory |-> eq.inventory, bindings |-> eq.bindings, reads |-> eq.reads,
   preparation |-> eq.preparation, cancelled |-> eq.cancelled, enabled |-> eq.enabled,
   finished |-> eq.preparation = {} /\ eq.enabled,
   actors |-> {[index |-> i, resolved |-> ActorRoles[i], binding_ref |-> boundTo(i),
                required |-> Required[i], missing |-> eq.missing[i],
                requirements_status |-> CASE eq.missing[i] = {} -> "unobserved"
                                          [] eq.missing[i] = {{}} -> "satisfied"
                                          [] OTHER -> "unsatisfied",
                launched |-> IF eq.running[i] = {} THEN {} ELSE {i},
                setup_status |-> IF eq.running[i] = {} THEN "launch_refused" ELSE "launched",
                execution |-> eq.execution[i]] : i \in DOMAIN ActorRoles}]

EquipmentStarts ==
  {[hpc |-> "inventory", overrides |-> overrides, next |-> 1, row |-> {}, replaced |-> 0,
    file |-> [b \in {Packaged("selected"), Packaged("unentitled"), Override("selected")} |-> b[2]],
    inventory |-> [status |-> "unobserved", sealed |-> FALSE], bindings |-> {}, reads |-> {},
    failure |-> {}, preparation |-> {}, cancelled |-> {}, enabled |-> FALSE,
    missing |-> [i \in DOMAIN ActorRoles |-> {}], running |-> [i \in DOMAIN ActorRoles |-> {}],
    usable |-> [i \in DOMAIN ActorRoles |-> FALSE],
    equipmentFailure |-> [i \in DOMAIN ActorRoles |-> {}],
    execution |-> [i \in DOMAIN ActorRoles |->
                     [status |-> "unobserved", eligible |-> FALSE, reason |-> {}, pid |-> {},
                      path |-> {}, cdhash |-> {}, entitlements_ref |-> {}, native |-> <<>>]]] :
    overrides \in SUBSET {"selected"}}

NextEquipment ==
  \/ ReadInventory \/ HashWorker \/ InspectStatic \/ CheckRequirements
  \/ SpawnWorker \/ InspectLive \/ WalkAndReply \/ ReplaceWorker

-----------------------------------------------------------------------------
(* Property.                                                                *)

\* Whenever and whatever is replaced, the reply is one the controller admits, and
\* phases are enabled only if every actor that runs usable code runs exactly the
\* code its binding was verified against, with the entitlements it requires.
EquipmentIsTrue ==
  eq.hpc = "replied" =>
    /\ equipmentAccepted(equipmentReply) /\ preparation_failure_valid(equipmentReply)
    /\ eq.enabled => \A i \in DOMAIN ActorRoles : eq.usable[i] =>
         \E b \in bound(boundTo(i)) :
           /\ eq.running[i] = b.cdhash /\ (b.expected # {} => eq.running[i] = b.expected)
           /\ \A c \in eq.running[i] : Required[i] \subseteq Entitlements[c]
=============================================================================
