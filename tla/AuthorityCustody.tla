-------------------------- MODULE AuthorityCustody --------------------------
(***************************************************************************)
(* Authority between actors: a source actor issues a token, the host takes *)
(* it into private custody, delivers copies to recipients on the source's  *)
(* request, and a recipient consumes its copy.  The bytes cross between    *)
(* processes in shared slots; the words of a slot (committed,              *)
(* acknowledged, settled) and of a request (requested, acknowledged) say   *)
(* who owns the payload.  Nothing locks it.                                *)
(*                                                                         *)
(* The actors are visited serially (module ActorScheduler): Plan is the    *)
(* sequence of authority operations of the specimen, each with its actor   *)
(* and phase.  Every access to a payload has a beginning and an end, so    *)
(* that accesses can overlap.  Bytes are "empty", "token" or "other".      *)
(***************************************************************************)
EXTENDS Naturals, Sequences, FiniteSets, FiniteSetsExt

CONSTANTS ActorCount,
          Plan,        \* the operations: [actor, phase, op, of]: of a token, a delivery,
                       \* or for a release the consume whose handle it is
          Delivery,    \* for each delivery [token, recipient]
          Faults       \* the faults the environment may inject

Actors == 1..ActorCount
Steps == 1..Len(Plan)
Deliveries == 1..Len(Delivery)
Tokens == {Plan[i].of : i \in {j \in Steps : Plan[j].op = "issue"}}
Phases == 1..Plan[Len(Plan)].phase

Operation == [actor : Actors, phase : Nat \ {0}, op : {"issue", "transfer", "consume", "release"},
              of : Nat \ {0}]
ASSUME ActorCountAssumption == ActorCount \in Nat \ {0}
\* actorPlanAssignmentsConsistent: the phases follow each other, each of one actor; a
\* token has one issue and a delivery one transfer, by the actor that issued its
\* token; a copy is consumed by its recipient, after the transfer.
ASSUME PlanAssumption ==
  /\ Plan \in Seq(Operation) /\ Plan # <<>>
  /\ \A i, j \in Steps : i <= j => Plan[i].phase <= Plan[j].phase
  /\ \A p \in Phases : \E i \in Steps : Plan[i].phase = p
  /\ \A i, j \in Steps : Plan[i].phase = Plan[j].phase => Plan[i].actor = Plan[j].actor
ASSUME AssignmentAssumption ==
  /\ Delivery \in Seq([token : Tokens, recipient : Actors])
  /\ \A i \in Steps : Plan[i].op \in {"transfer", "consume"} => Plan[i].of \in Deliveries
  /\ \A i, j \in Steps :
       Plan[i].op \in {"issue", "transfer"} /\ Plan[j].op = Plan[i].op /\ Plan[j].of = Plan[i].of
       => i = j
  /\ \A d \in Deliveries : \E i, j \in Steps :
       /\ Plan[i].op = "issue" /\ Plan[i].of = Delivery[d].token
       /\ Plan[j].op = "transfer" /\ Plan[j].of = d
       /\ i < j /\ Plan[i].actor = Plan[j].actor
       /\ \A k \in Steps : Plan[k].op = "consume" /\ Plan[k].of = d =>
            j < k /\ Plan[k].actor = Delivery[d].recipient
ASSUME FaultsAssumption ==
  Faults \subseteq {"timeout", "issue", "consume", "framing", "alteration", "cutoff", "death", "unresolved"}

\* The steps of the plan, tabulated.
issueStep == [t \in Tokens |-> CHOOSE i \in Steps : Plan[i].op = "issue" /\ Plan[i].of = t]
transferStep ==
  [d \in Deliveries |-> CHOOSE i \in Steps : Plan[i].op = "transfer" /\ Plan[i].of = d]
issuer == [t \in Tokens |-> Plan[issueStep[t]].actor]
source == [d \in Deliveries |-> Plan[transferStep[d]].actor]
recipient == [d \in Deliveries |-> Delivery[d].recipient]
\* The last operation of the source that needs custody of token t.
lastUseSlot ==
  [t \in Tokens |->
     Max({i \in Steps : \/ Plan[i].op = "issue" /\ Plan[i].of = t
                        \/ Plan[i].op = "transfer" /\ Delivery[Plan[i].of].token = t})]
last_use ==
  [i \in Steps |-> \A j \in Steps : Plan[j].op = "consume" /\ Plan[j].of = Plan[i].of => j <= i]
stepsOf == [p \in Phases |-> {i \in Steps : Plan[i].phase = p}]
actorOf == [p \in Phases |-> Plan[Min(stepsOf[p])].actor]
hasLaterVisit ==
  [p \in Phases |-> \E q \in Phases : q > p /\ actorOf[q] = actorOf[p]]

VARIABLES
  out, inb, cell,  \* outbound slots by token, inbound slots and requests by delivery
  wpc, framing,    \* per actor: program counter; the delivery it validates, or 0
  step, result,    \* the operation the active actor is at; what operations recorded
  done,            \* the actors that have published done
  hpc, at, phase,  \* the host: program counter, token or delivery it is at, phase
  custody,         \* TokenCustody per token
  released,        \* the phases the host has released
  stopped, reaped, \* the actors the host has stopped; those it knows to be gone
  late             \* the execution allowance has run out

slotVars == <<out, inb, cell>>
workerVars == <<wpc, framing, step, result, done>>
hostVars == <<hpc, at, phase, released, custody, stopped, reaped>>
vars == <<slotVars, workerVars, hostVars, late>>

Init ==
  /\ out = [t \in Tokens |-> [bytes |-> "empty", committed |-> FALSE, acknowledged |-> "none"]]
  /\ inb = [d \in Deliveries |-> [bytes |-> "empty", committed |-> FALSE,
                                  acknowledged |-> "none", settled |-> "host"]]
  /\ cell = [d \in Deliveries |-> [requested |-> FALSE, acknowledged |-> "none"]]
  /\ wpc = [a \in Actors |-> "parked"]
  /\ framing = [a \in Actors |-> 0]
  /\ step = 1 /\ result = [i \in Steps |-> "none"] /\ done = {}
  /\ hpc = "next" /\ at = 1 /\ phase = 0 /\ released = {}
  /\ custody = [t \in Tokens |-> "none"] /\ stopped = {} /\ reaped = {} /\ late = FALSE

-----------------------------------------------------------------------------
(* The actors.                                                              *)

\* wait_for_activation: the parked actor takes the activation that names it.
Arrive(a) ==
  /\ wpc[a] = "parked" /\ framing[a] = 0
  /\ hpc = "arrival" /\ actorOf[phase] = a
  /\ wpc' = [wpc EXCEPT ![a] = "arrived"]
  /\ UNCHANGED <<slotVars, framing, step, result, done, hostVars, late>>

\* Actor a is the active one, and at operation op.
At(a, pc, op) ==
  /\ wpc[a] = pc /\ framing[a] = 0
  /\ step \in Steps /\ Plan[step].actor = a /\ Plan[step].op = op

Become(a, pc) == wpc' = [wpc EXCEPT ![a] = pc]

\* Operation step of actor a is over; after the last one of its visit the actor
\* parks, or leaves after its last visit.
EndStep(a, r) ==
  /\ result' = [result EXCEPT ![step] = r]
  /\ step' = step + 1
  /\ Become(a, IF step + 1 \in stepsOf[Plan[step].phase] THEN "acting"
               ELSE IF hasLaterVisit[Plan[step].phase] THEN "parked" ELSE "leaving")

\* attempt_extension_issue: the native call may fail; otherwise the bytes are
\* copied to the outbound slot and committed.
IssueFails(a) ==
  /\ At(a, "acting", "issue") /\ "issue" \in Faults
  /\ EndStep(a, "not_published")
  /\ UNCHANGED <<slotVars, framing, done, hostVars, late>>

Issue(a) ==
  /\ At(a, "acting", "issue")
  /\ out' = [out EXCEPT ![Plan[step].of].bytes = "token"]
  /\ Become(a, "publishing")
  /\ UNCHANGED <<inb, cell, framing, step, result, done, hostVars, late>>

PublishToken(a) ==
  /\ wpc[a] = "publishing"
  /\ out' = [out EXCEPT ![Plan[step].of].committed = TRUE]
  /\ Become(a, "exchange")
  /\ UNCHANGED <<inb, cell, framing, step, result, done, hostVars, late>>

RequestTransfer(a) ==
  /\ At(a, "acting", "transfer")
  /\ cell' = [cell EXCEPT ![Plan[step].of].requested = TRUE]
  /\ Become(a, "exchange")
  /\ UNCHANGED <<out, inb, framing, step, result, done, hostVars, late>>

\* wait_exchange: the answer, or the end of the allowance or of the clock, which
\* an answer may just miss.
ExchangeEnds(a) ==
  /\ wpc[a] = "exchange" /\ framing[a] = 0
  /\ LET answer == IF Plan[step].op = "issue" THEN out[Plan[step].of].acknowledged
                   ELSE cell[Plan[step].of].acknowledged
     IN \E r \in ({answer} \cup (Faults \cap {"timeout"})) \ {"none"} : EndStep(a, r)
  /\ UNCHANGED <<slotVars, framing, done, hostVars, late>>

\* Mutant of servicing: an actor that waits for the host does nothing else.
servicing_Parked == {"parked"}

\* Where service_inbound_once is called.
servicing == {"parked", "exchange"}

\* The committed deliveries to actor a that it has not answered.
unanswered(a) ==
  {d \in Deliveries : recipient[d] = a /\ inb[d].committed /\ inb[d].acknowledged = "none"}

\* service_inbound_once, while parked or in an exchange: the first committed
\* delivery that has no answer is validated,
BeginFraming(a) ==
  /\ wpc[a] \in servicing /\ framing[a] = 0
  /\ unanswered(a) # {} /\ framing' = [framing EXCEPT ![a] = Min(unanswered(a))]
  /\ UNCHANGED <<slotVars, wpc, step, result, done, hostVars, late>>

\* and accepted or rejected.
EndFraming(a) ==
  /\ framing[a] # 0 /\ wpc[a] # "exited"
  /\ \E r \in {"accepted"} \cup {x \in {"rejected"} : "framing" \in Faults} :
       inb' = [inb EXCEPT ![framing[a]].acknowledged = r]
  /\ framing' = [framing EXCEPT ![a] = 0]
  /\ UNCHANGED <<out, cell, wpc, step, result, done, hostVars, late>>

\* A recipient whose bytes change under its own validation.
AlterInbound(a) ==
  /\ framing[a] # 0 /\ wpc[a] # "exited" /\ "alteration" \in Faults
  /\ inb[framing[a]].settled = "host"
  /\ inb' = [inb EXCEPT ![framing[a]].bytes = "other"]
  /\ UNCHANGED <<out, cell, workerVars, hostVars, late>>

consumable(d) ==
  /\ inb[d].settled = "usable" /\ inb[d].committed /\ inb[d].acknowledged = "accepted"

\* attempt_extension_consume_actor: the native call, then the erasure of the
\* copy at its last use.
BeginConsume(a) ==
  /\ At(a, "acting", "consume")
  /\ IF consumable(Plan[step].of) THEN Become(a, "consuming") /\ UNCHANGED <<step, result>>
     ELSE EndStep(a, "unavailable")
  /\ UNCHANGED <<slotVars, framing, done, hostVars, late>>

EndConsume(a) ==
  /\ wpc[a] = "consuming"
  /\ inb' = IF last_use[step] THEN [inb EXCEPT ![Plan[step].of].bytes = "empty"] ELSE inb
  /\ \E r \in {"consumed"} \cup {x \in {"consume_failed"} : "consume" \in Faults} :
       EndStep(a, r)
  /\ UNCHANGED <<out, cell, framing, done, hostVars, late>>

\* attempt_extension_release_actor: only a handle that a consume produced.
ReleaseHandle(a) ==
  /\ At(a, "acting", "release")
  /\ EndStep(a, IF result[Plan[step].of] = "consumed" THEN "released" ELSE "unavailable")
  /\ UNCHANGED <<slotVars, framing, done, hostVars, late>>

exit_requested(a) ==
  \/ a \in stopped \/ hpc \in {"finish", "erase", "finished"}
  \/ hpc = "stop" /\ a = actorOf[phase]

\* A waiting actor leaves at its lifetime cutoff, or when the host asks for it.
Depart(a) ==
  /\ wpc[a] \in {"parked", "arrived", "exchange"} /\ framing[a] = 0
  /\ \/ "cutoff" \in Faults /\ Become(a, "leaving")
     \/ exit_requested(a) /\ Become(a, "cancelled")
  /\ UNCHANGED <<slotVars, framing, step, result, done, hostVars, late>>

\* erase_authority: the inbound copies whose settlement made them the actor's.
erasable(a) == {d \in Deliveries : recipient[d] = a /\ inb[d].settled # "host"}

\* The actor erases its copies and exits; one that was asked to leave does not
\* publish done.
Leave(a) ==
  /\ wpc[a] \in {"leaving", "cancelled"}
  /\ inb' = [d \in Deliveries |-> IF d \in erasable(a) THEN [inb[d] EXCEPT !.bytes = "empty"]
                                  ELSE inb[d]]
  /\ done' = IF wpc[a] = "leaving" THEN done \cup {a} ELSE done
  /\ Become(a, "exited")
  /\ UNCHANGED <<out, cell, framing, step, result, hostVars, late>>

Gone(A) ==
  /\ wpc' = [a \in Actors |-> IF a \in A THEN "exited" ELSE wpc[a]]
  /\ framing' = [a \in Actors |-> IF a \in A THEN 0 ELSE framing[a]]

Die(a) ==
  /\ wpc[a] # "exited" /\ "death" \in Faults
  /\ Gone({a})
  /\ UNCHANGED <<slotVars, step, result, done, hostVars, late>>

Worker(a) ==
  \/ Arrive(a) \/ IssueFails(a) \/ Issue(a) \/ PublishToken(a) \/ RequestTransfer(a)
  \/ ExchangeEnds(a) \/ BeginFraming(a) \/ EndFraming(a) \/ AlterInbound(a)
  \/ BeginConsume(a) \/ EndConsume(a) \/ ReleaseHandle(a) \/ Depart(a) \/ Leave(a) \/ Die(a)

-----------------------------------------------------------------------------
(* The host: walkSchedule, and the service pass it makes for the active     *)
(* actor between two looks at its completion.                               *)

active == actorOf[phase]
Goto(pc, i) == hpc' = pc /\ at' = i
HostOnly == UNCHANGED <<phase, released, custody, stopped, reaped>>

\* The next phase, unless its actor was stopped; after the last one, finish.
NextPhase ==
  /\ hpc = "next"
  /\ IF phase + 1 \in Phases
     THEN /\ phase' = phase + 1
          /\ Goto(IF actorOf[phase + 1] \in stopped THEN "next" ELSE "arrival", 1)
     ELSE Goto("finish", 1) /\ UNCHANGED phase
  /\ UNCHANGED <<slotVars, workerVars, released, custody, stopped, reaped, late>>

\* The active actor is seen to be gone, or the allowance to be spent.
Failed == active \in done \/ wpc[active] = "exited" \/ late

Release ==
  /\ hpc = "arrival" /\ wpc[active] = "arrived" /\ ~late
  /\ wpc' = [wpc EXCEPT ![active] = "acting"]
  /\ step' = Min(stepsOf[phase])
  /\ released' = released \cup {phase}
  /\ Goto("outbound", 1)
  /\ UNCHANGED <<slotVars, framing, result, done, phase, custody, stopped, reaped, late>>

committedOutbound(t) ==
  issuer[t] = active /\ out[t].committed /\ out[t].acknowledged = "none"

\* serviceOutbound looks at one token of the active actor after the other,
ScanOutbound ==
  /\ hpc = "outbound"
  /\ IF at \notin Tokens THEN Goto("transfer", 1)
     ELSE IF committedOutbound(at) THEN Goto("copy", at) ELSE Goto("outbound", at + 1)
  /\ HostOnly /\ UNCHANGED <<slotVars, workerVars, late>>

\* takes a committed one into custody, erases the slot and answers.
AcceptOutbound ==
  /\ hpc = "copy"
  /\ \E r \in {"accepted"} \cup {x \in {"rejected"} : "framing" \in Faults} :
       /\ out' = [out EXCEPT ![at].bytes = "empty", ![at].acknowledged = r]
       /\ custody' = [custody EXCEPT ![at] =
            IF r = "rejected" THEN @
            ELSE IF lastUseSlot[at] = issueStep[at] THEN "erased" ELSE "held"]
  /\ Goto("outbound", at + 1)
  /\ UNCHANGED <<inb, cell, workerVars, phase, released, stopped, reaped, late>>

recipientUsable(a) == a \notin stopped /\ a \notin done

\* Mutant of retire: an undelivered last use keeps the token.
retire_Delivered(d, ack) ==
  IF lastUseSlot[Delivery[d].token] = transferStep[d] /\ ack = "delivered"
  THEN [custody EXCEPT ![Delivery[d].token] = "erased"] ELSE custody

\* Last use retires custody, whatever became of the delivery.
retire(d, ack) ==
  IF lastUseSlot[Delivery[d].token] = transferStep[d]
  THEN [custody EXCEPT ![Delivery[d].token] = "erased"] ELSE custody

\* The end of serviceTransfer; one transfer ends the pass.
Answer(d, ack) ==
  /\ cell' = [cell EXCEPT ![d].acknowledged = ack]
  /\ custody' = retire(d, ack)
  /\ Goto("completion", 1)

pendingTransfer(d) ==
  source[d] = active /\ cell[d].requested /\ cell[d].acknowledged = "none"

\* service looks for a request without an answer; serviceTransfer refuses it or
\* starts to write the recipient's copy.
ScanTransfer ==
  /\ hpc = "transfer"
  /\ IF at \in Deliveries /\ pendingTransfer(at)
     THEN IF custody[Delivery[at].token] # "held" THEN Answer(at, "custody_unavailable")
          ELSE IF ~recipientUsable(recipient[at]) THEN Answer(at, "recipient_unavailable")
          ELSE Goto("deliver", at) /\ UNCHANGED <<cell, custody>>
     ELSE /\ IF at \in Deliveries THEN Goto("transfer", at + 1) ELSE Goto("completion", 1)
          /\ UNCHANGED <<cell, custody>>
  /\ UNCHANGED <<out, inb, workerVars, phase, released, stopped, reaped, late>>

\* A request cell that does not name its operation any more.
RefuseRequest ==
  /\ hpc = "transfer" /\ "alteration" \in Faults
  /\ at \in Deliveries /\ pendingTransfer(at)
  /\ Answer(at, "request_invalid")
  /\ UNCHANGED <<out, inb, workerVars, phase, released, stopped, reaped, late>>

Deliver ==
  /\ hpc = "deliver"
  /\ inb' = [inb EXCEPT ![at].bytes = "token", ![at].committed = TRUE,
                        ![at].acknowledged = "none"]
  /\ Goto("wait", at) /\ HostOnly
  /\ UNCHANGED <<out, cell, workerVars, late>>

Settle(d, s) == inb' = [inb EXCEPT ![d].settled = s]

\* The wait for the recipient loads its acknowledgement,
AwaitRecipient ==
  /\ hpc = "wait"
  /\ IF inb[at].acknowledged = "rejected"
     THEN Settle(at, "withdrawn") /\ Answer(at, "recipient_rejected")
     ELSE /\ Goto(IF inb[at].acknowledged = "accepted" THEN "compare" ELSE "usable", at)
          /\ UNCHANGED <<inb, cell, custody>>
  /\ UNCHANGED <<out, workerVars, phase, released, stopped, reaped, late>>

\* Mutant of KeepWaiting: only the recipient can end the wait.
KeepWaiting_Forever ==
  /\ hpc = "usable" /\ recipientUsable(recipient[at])
  /\ Goto("wait", at) /\ HostOnly
  /\ UNCHANGED <<slotVars, workerVars, late>>

\* then done, then the clock,
KeepWaiting ==
  /\ hpc = "usable" /\ recipientUsable(recipient[at]) /\ ~late
  /\ Goto("wait", at) /\ HostOnly
  /\ UNCHANGED <<slotVars, workerVars, late>>

\* and gives up: the copy is withdrawn before the source is told.
Withdraw ==
  /\ hpc = "usable"
  /\ "timeout" \in Faults \/ ~recipientUsable(recipient[at])
  /\ Settle(at, "withdrawn")
  /\ Answer(at, IF recipientUsable(recipient[at]) THEN "recipient_timeout"
                ELSE "recipient_unavailable")
  /\ UNCHANGED <<out, workerVars, phase, released, stopped, reaped, late>>

\* Mutant of CompareCopy: the recipient's acceptance is enough.
CompareCopy_Trusting ==
  /\ hpc = "compare"
  /\ Settle(at, "usable")
  /\ Goto("settled", at) /\ UNCHANGED <<cell, custody>>
  /\ UNCHANGED <<out, workerVars, phase, released, stopped, reaped, late>>

\* The host's last read of the recipient's copy; equal bytes become its own,
CompareCopy ==
  /\ hpc = "compare"
  /\ IF inb[at].bytes = "token"
     THEN Settle(at, "usable") /\ Goto("settled", at) /\ UNCHANGED <<cell, custody>>
     ELSE Settle(at, "withdrawn") /\ Answer(at, "copy_mismatch")
  /\ UNCHANGED <<out, workerVars, phase, released, stopped, reaped, late>>

\* and only then the source is told.
AnswerDelivered ==
  /\ hpc = "settled"
  /\ Answer(at, "delivered")
  /\ UNCHANGED <<out, inb, workerVars, phase, released, stopped, reaped, late>>

completed == step > Max(stepsOf[phase])

\* After a pass: the visit is complete, has failed, or goes on.
CheckCompletion ==
  /\ hpc = "completion"
  /\ \/ completed /\ Goto("next", 1)
     \/ ~completed /\ ~Failed /\ Goto("outbound", 1)
  /\ HostOnly /\ UNCHANGED <<slotVars, workerVars, late>>

VisitFails ==
  /\ hpc \in {"arrival", "completion"} /\ Failed
  /\ Goto("stop", 1) /\ HostOnly
  /\ UNCHANGED <<slotVars, workerVars, late>>

\* stopActor over the actors A: exit request, grace, kill and reap, which fails
\* for U.
StopActors(A, U) ==
  /\ U = {} \/ "unresolved" \in Faults
  /\ stopped' = stopped \cup A
  /\ reaped' = reaped \cup (A \ U)
  /\ Gone(A \ U)

\* The schedule goes on only if the failed actor is gone and time is left.
StopActive ==
  /\ hpc = "stop"
  /\ \E U \in SUBSET ({active} \ {a \in Actors : wpc[a] = "exited"}) :
       /\ StopActors({active}, U)
       /\ Goto(IF U # {} \/ late THEN "finish" ELSE "next", 1)
  /\ UNCHANGED <<slotVars, step, result, done, phase, released, custody, late>>

Finish ==
  /\ hpc = "finish"
  /\ \E U \in SUBSET {a \in Actors \ stopped : wpc[a] # "exited"} :
       StopActors(Actors \ stopped, U)
  /\ Goto("erase", 1)
  /\ UNCHANGED <<slotVars, step, result, done, phase, released, custody, late>>

\* Mutant of erasedAtFinish: every region.
erasedAtFinish_All == Actors

\* Shared bytes are erased only where the actor is known to be gone.
erasedAtFinish == reaped

EraseAll ==
  /\ hpc = "erase"
  /\ custody' = [t \in Tokens |-> "erased"]
  /\ out' = [t \in Tokens |-> IF issuer[t] \in erasedAtFinish
                               THEN [out[t] EXCEPT !.bytes = "empty"] ELSE out[t]]
  /\ inb' = [d \in Deliveries |-> IF recipient[d] \in erasedAtFinish
                                   THEN [inb[d] EXCEPT !.bytes = "empty"] ELSE inb[d]]
  /\ Goto("finished", 1)
  /\ UNCHANGED <<cell, workerVars, phase, released, stopped, reaped, late>>

Host ==
  \/ NextPhase \/ Release \/ ScanOutbound \/ AcceptOutbound \/ ScanTransfer \/ RefuseRequest
  \/ Deliver \/ AwaitRecipient \/ KeepWaiting \/ Withdraw \/ CompareCopy \/ AnswerDelivered
  \/ CheckCompletion \/ VisitFails \/ StopActive \/ Finish \/ EraseAll

TimePasses ==
  /\ "timeout" \in Faults /\ ~late /\ late' = TRUE
  /\ UNCHANGED <<slotVars, workerVars, hostVars>>

Finished == hpc = "finished" /\ UNCHANGED vars

Next == (\E a \in Actors : Worker(a)) \/ Host \/ TimePasses \/ Finished

Spec == Init /\ [][Next]_vars

\* Fairness: the host's steps come and its allowance runs out; a worker may hang.
FairSpec == Spec /\ WF_vars(Host) /\ WF_vars(TimePasses)

-----------------------------------------------------------------------------
(* Properties.                                                              *)

\* The payloads each process is accessing, and those it is writing.
HostWrites ==
  CASE hpc = "copy" -> {<<"out", at>>}
    [] hpc = "deliver" -> {<<"in", at>>}
    [] hpc = "erase" -> {<<"out", t>> : t \in {u \in Tokens : issuer[u] \in erasedAtFinish}}
                          \cup {<<"in", d>> : d \in {e \in Deliveries :
                                                      recipient[e] \in erasedAtFinish}}
    [] OTHER -> {}
HostReads == IF hpc = "compare" THEN {<<"in", at>>} ELSE {}
ActorWrites(a) ==
  CASE wpc[a] = "publishing" -> {<<"out", Plan[step].of>>}
    [] wpc[a] = "consuming" /\ last_use[step] -> {<<"in", Plan[step].of>>}
    [] wpc[a] \in {"leaving", "cancelled"} -> {<<"in", d>> : d \in erasable(a)}
    [] OTHER -> {}
ActorReads(a) ==
  {<<"in", d>> : d \in {framing[a]} \ {0}}
    \cup (IF wpc[a] = "consuming" THEN {<<"in", Plan[step].of>>} ELSE {})

\* Host and actor never have a payload in hand at the same time when one of them
\* writes it, whatever times out, exits or dies in between ("Neither timeout nor
\* exit lets a writer erase bytes still owned by the other process").
ExclusivePayload ==
  \A a \in Actors :
    /\ HostWrites \cap (ActorWrites(a) \cup ActorReads(a)) = {}
    /\ HostReads \cap ActorWrites(a) = {}

\* The native consume call is given bytes that the host took into custody, copied
\* and found equal, even when the source's own wait had ended before that.
ConsumesWhatWasIssued ==
  \A a \in Actors : wpc[a] = "consuming" =>
    LET d == Plan[step].of IN
    /\ inb[d].bytes = "token"
    /\ out[Delivery[d].token].acknowledged = "accepted"
    /\ cell[d].acknowledged \in {"none", "delivered"}

\* The host keeps no token past the request that is its last declared use, and when
\* it has finished neither its custody nor a region of an actor known to be gone
\* holds a byte.  A last use that was refused before custody was used is excepted: a
\* source whose waits end early can make that request before the host has seen the
\* token, which is then held until teardown.
NothingLeftBehind ==
  /\ \A d \in Deliveries :
       /\ cell[d].acknowledged \notin {"none", "custody_unavailable", "request_invalid"}
       /\ lastUseSlot[Delivery[d].token] = transferStep[d]
       => custody[Delivery[d].token] # "held"
  /\ hpc = "finished" =>
       /\ \A t \in Tokens : /\ custody[t] # "held"
                            /\ issuer[t] \in reaped => out[t].bytes = "empty"
       /\ \A d \in Deliveries : recipient[d] \in reaped => inb[d].bytes = "empty"

\* Whatever its actors do, the host finishes: no wait for a recipient is without
\* end.
HostFinishes == <>(hpc = "finished")

\* Deliveries settle.  What the source is told is what the recipient can act on:
\* "delivered" exactly for a copy that was made usable, and every other answer leaves
\* a copy that was committed withdrawn, so that its recipient will erase it.  The host
\* does not wait for an actor that waits for the host: a recipient whose answer it
\* awaits, parked or in an exchange of its own, is at its answer or can begin with one,
\* also when an actor transfers to itself.
DeliveriesSettle ==
  /\ \A d \in Deliveries : cell[d].acknowledged # "none" =>
       IF cell[d].acknowledged = "delivered" THEN inb[d].settled = "usable"
       ELSE inb[d].settled = "withdrawn" \/ ~inb[d].committed
  /\ hpc \in {"wait", "usable"} /\ inb[at].acknowledged = "none" =>
       LET r == recipient[at]
       IN wpc[r] \in {"parked", "exchange"} =>
            framing[r] # 0 \/ (wpc[r] \in servicing /\ unanswered(r) # {})
=============================================================================
