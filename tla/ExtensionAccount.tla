-------------------------- MODULE ExtensionAccount --------------------------
(***************************************************************************)
(* The account of authority that a reply carries and its reader.           *)
(* assembleActorReply projects what the actors published and what the host *)
(* observed into events, transfers and resource tables; the controller     *)
(* (actor_extension_issues) checks each against the others.  The two       *)
(* sides of an exchange can end differently: a source that stopped waiting *)
(* has its own result, and the host's later answer is another fact.        *)
(*                                                                         *)
(* A reference is the number of the thing it names, 0 when absent; a       *)
(* handle is named by the operation that consumes for it.  An optional     *)
(* value is a set of at most one element.                                  *)
(***************************************************************************)
EXTENDS AuthorityCustody, Integers

Has(x) == x # {}
The(x) == CHOOSE v \in x : TRUE
Max_Actors == 8
Max_Tokens == 32
Max_Transfers == 64
Max_Length == 16384
TransferStatuses ==
  {"none", "delivered", "custody_unavailable", "recipient_rejected", "recipient_timeout",
   "recipient_unavailable", "request_invalid", "host_timeout", "clock_fault", "copy_mismatch"}
UnavailableReasons ==
  {"token_unavailable", "handle_unavailable", "native_api_unavailable", "repeated_action",
   "authority_channel_unavailable", "delivery_unavailable"}
-----------------------------------------------------------------------------
(* The reader.  An account r has actors, phases, events, tokens,            *)
(* deliveries, handles and transfers: sets of rows; an event has its place  *)
(* in the list as well.                                                     *)

capacityKept(r) ==
  /\ r.actors # {} /\ Cardinality(r.actors) <= Max_Actors
  /\ Cardinality(r.tokens) <= Max_Tokens
  /\ \A table \in {r.deliveries, r.handles, r.transfers} : Cardinality(table) <= Max_Transfers
  /\ Cardinality(r.events) <= Max_Tokens + 4 * Max_Transfers
applicationCounted(actor) ==
  /\ actor.application_count \in 0..1
  /\ (actor.application_count = 1) = actor.applied
  /\ actor.setup_status = "applied" => actor.applied
referencesUnique(r) ==
  \A table \in {r.tokens, r.deliveries, r.handles, r.transfers} :
    \A x, y \in table : x.ref # 0 /\ (x.ref = y.ref => x = y)

\* The operations are numbered in the order of the plan.
precedes(first, second) == first \in Steps /\ second \in Steps /\ first < second

eventPlaced(r, e) ==
  /\ e.actor \in {a.id : a \in r.actors}
  /\ \E p \in r.phases : p.id = e.phase /\ e.step \in p.actions /\ p.actor = e.actor

issueConsistent(r, e) ==
  /\ e.handle = 0 /\ e.delivery = 0
  /\ \E t \in r.tokens : t.ref = e.token /\ t.actor = e.actor /\ t.step = e.step
  /\ e.status = "returned" => /\ e.native \in {{0}, {1}}
                              /\ e.nonnull = {The(e.native) = 1}

transferConsistent(r, e) ==
  /\ e.handle = 0
  /\ \E d \in r.deliveries : /\ d.ref = e.delivery /\ d.token = e.token
                             /\ d.source = e.actor /\ d.step = e.step
  /\ \E t \in r.tokens : t.ref = e.token /\ t.actor = e.actor /\ precedes(t.step, e.step)
  /\ ~e.called /\ e.native = {} /\ e.errno = {}
  /\ IF e.status = "unresolved" THEN ~e.published
     ELSE e.published /\ e.status \in TransferStatuses

\* What the events before place k say of a handle.
earlier(r, k, op, h) == {e \in r.events : e.place < k /\ e.op = op /\ e.handle = h}

consumeConsistent(r, e) ==
  /\ e.token = 0
  /\ \E h \in r.handles : /\ h.ref = e.handle /\ h.delivery = e.delivery
                          /\ h.actor = e.actor /\ h.step = e.step
  /\ earlier(r, e.place, "consume", e.handle) = {}
  /\ \E d \in r.deliveries : /\ d.ref = e.delivery /\ d.recipient = e.actor
                             /\ precedes(d.step, e.step)

releaseConsistent(r, e) ==
  /\ e.token = 0 /\ e.delivery = 0
  /\ \E h \in r.handles : h.ref = e.handle /\ h.actor = e.actor /\ h.release = {e.step}
  /\ earlier(r, e.place, "release", e.handle) = {}
  /\ \E c \in earlier(r, e.place, "consume", e.handle) :
       /\ precedes(c.step, e.step)
       /\ e.status = "returned" => c.status = "returned" /\ Has(c.native) /\ c.native # {-1}

callConsistent(e) ==
  CASE e.status = "returned" ->
         e.published /\ e.called /\ Has(e.native) /\ Has(e.errno) /\ e.reason = {}
    [] e.status = "unavailable" ->
         /\ e.published /\ ~e.called /\ e.native = {} /\ e.errno = {}
         /\ \E x \in e.reason : x \in UnavailableReasons
    [] e.status = "unresolved" ->
         ~e.published /\ e.native = {} /\ e.errno = {} /\ e.reason = {}
    [] OTHER -> FALSE

\* The event against the disposition of its worker, and what both rest on.
publicationConsistent(r, e) ==
  \A a \in {x \in r.actors : x.id = e.actor} :
    /\ IF Has(a.steps)
       THEN \E s \in {x \in The(a.steps) : x.step = e.step} :
              e.published = (s.slot = "completed") /\ e.lifecycle = {s.claims}
       ELSE ~e.called /\ ~e.published /\ e.lifecycle = {}
    /\ e.published \/ e.called =>
         /\ \E p \in r.phases : p.id = e.phase /\ p.proceed_observed
         /\ a.setup_status \in {"applied", "unapplied_declared"}

eventConsistent(r, e) ==
  /\ eventPlaced(r, e) /\ publicationConsistent(r, e)
  /\ e.op # "transfer" => callConsistent(e)
  /\ CASE e.op = "issue" -> issueConsistent(r, e)
       [] e.op = "transfer" -> transferConsistent(r, e)
       [] e.op = "consume" -> consumeConsistent(r, e)
       [] e.op = "release" -> releaseConsistent(r, e)
       [] OTHER -> FALSE

eventsOf(r, op) == {e \in r.events : e.op = op}

hostTransferConsistent(r, t) ==
  /\ \E d \in r.deliveries :
       /\ d.ref = t.ref /\ d.token = t.token /\ d.step = t.step
       /\ d.source = t.source /\ d.recipient = t.recipient
  /\ t.status \in TransferStatuses
  /\ \E e \in eventsOf(r, "transfer") :
       e.delivery = t.ref /\ e.phase = t.phase /\ e.lifecycle = t.lifecycle
  /\ t.status = "delivered" => /\ t.request_published /\ t.custody_status = "held"
                               /\ t.copy_status = "copied" /\ t.equality = "equal"
                               /\ t.recipient_acknowledged
  /\ t.source_acknowledged =>
       \E e \in eventsOf(r, "transfer") :
         e.step = t.step /\ e.actor = t.source /\ e.published /\ e.status = t.status

unpublishedStatus(e) ==
  IF (\E l \in e.lifecycle : l.boundary = "not_reached") /\ ~e.called THEN "not_reached"
  ELSE "unresolved"

bounded(length) == \E n \in length : n \in 1..Max_Length - 1

tokenConsistent(t, e) ==
  /\ t.status \in IF ~e.published THEN {unpublishedStatus(e)}
                  ELSE IF e.status = "unavailable" THEN {"unavailable"}
                  ELSE IF e.native = {0} THEN {"null"} ELSE {"issued", "issued_uncustodied"}
  /\ t.length = e.length
  /\ t.status = "issued" => bounded(t.length)

deliveryConsistent(r, d, e) ==
  /\ d.recipient \in {a.id : a \in r.actors}
  /\ IF \E t \in r.transfers : t.ref = d.ref
     THEN \A t \in {x \in r.transfers : x.ref = d.ref} :
            /\ d.status = t.status /\ d.equality = {t.equality}
            /\ IF t.status = "delivered"
               THEN /\ bounded(d.length)
                    /\ \A token \in r.tokens :
                         token.ref = d.token /\ Has(token.length) => token.length = d.length
               ELSE d.length = {}
     ELSE /\ d.equality = {} /\ d.length = {}
          /\ e.status \in {"none", "host_timeout", "clock_fault", "unresolved"}
          /\ d.status = IF ~e.published THEN unpublishedStatus(e)
                        ELSE IF Has(e.reason) THEN The(e.reason) ELSE "unrequested"

handleConsistent(r, h, e) ==
  LET releases == {x \in eventsOf(r, "release") : x.handle = h.ref}
  IN /\ h.status = IF ~e.published THEN unpublishedStatus(e)
                   ELSE IF e.status = "unavailable" THEN "unavailable"
                   ELSE IF e.native = {-1} THEN "consume_failed" ELSE "produced"
     /\ h.native = IF h.status = "produced" THEN e.native ELSE {}
     /\ h.release = {x.step : x \in releases}
     /\ h.release_attempted = \E x \in releases : x.called
     /\ h.equals = {o.ref : o \in {x \in r.handles : /\ x.ref # h.ref /\ x.actor = h.actor
                                                     /\ Has(h.native) /\ x.native = h.native}}

\* Every resource has exactly one event that produces it, and agrees with it.
resourcesConsistent(r) ==
  LET producer(op, refOf(_), row) == {e \in eventsOf(r, op) : refOf(e) = row.ref}
      one(S) == Cardinality(S) = 1
      token(e) == e.token
      delivery(e) == e.delivery
      handle(e) == e.handle
  IN /\ \A t \in r.tokens : LET P == producer("issue", token, t)
                            IN one(P) /\ tokenConsistent(t, The(P))
     /\ \A d \in r.deliveries : LET P == producer("transfer", delivery, d)
                                IN one(P) /\ deliveryConsistent(r, d, The(P))
     /\ \A h \in r.handles : LET P == producer("consume", handle, h)
                             IN one(P) /\ handleConsistent(r, h, The(P))

actor_extension_accepted(r) ==
  /\ capacityKept(r) /\ referencesUnique(r)
  /\ \A a \in r.actors : applicationCounted(a)
  /\ \A e \in r.events : eventConsistent(r, e)
  /\ \A t \in r.transfers : hostTransferConsistent(r, t)
  /\ resourcesConsistent(r)
-----------------------------------------------------------------------------
(* The producer: assembleActorReply, once every actor has been stopped and  *)
(* collected.  cut says how far an operation that was cut off had come, and *)
(* same whether the handles of an actor have the same native value.         *)

completed_slot(i) == result[i] # "none"
\* The operations that had begun, or were about to, when their actor was lost.
cutOff(i) ==
  /\ ~completed_slot(i) /\ Plan[i].phase \in released
  /\ \A j \in stepsOf[Plan[i].phase] : j < i => completed_slot(j)

Cuts == {"before", "begun", "called"}
Length == 1
Invalid == "invalid"

called(i, cut) ==
  IF completed_slot(i)
  THEN Plan[i].op # "transfer" /\ result[i] # "unavailable"
  ELSE cutOff(i) /\ cut = "called" /\ Plan[i].op # "transfer"
\* The claims of the actor's disposition about the operation (module
\* WorkerDisposition): only the record of an actor known to be gone denies.
claims(i, cut) ==
  [boundary |-> IF completed_slot(i) \/ (cutOff(i) /\ cut # "before") THEN "reached"
                ELSE IF Plan[i].actor \in reaped THEN "not_reached" ELSE "unresolved",
   result |-> IF completed_slot(i) THEN "published"
              ELSE IF Plan[i].actor \in reaped THEN "unpublished" ELSE "unresolved"]

nativeOf(i, same) ==
  CASE result[i] \in {"accepted", "rejected", "timeout"} /\ Plan[i].op = "issue" -> {1}
    [] result[i] = "not_published" -> {IF same THEN 0 ELSE 1}
    [] result[i] = "consumed" -> {IF same THEN 7 ELSE i}
    [] result[i] = "consume_failed" -> {-1}
    [] result[i] = "released" -> {0}
    [] OTHER -> {}
reasonOf(i) ==
  CASE result[i] # "unavailable" -> {}
    [] Plan[i].op = "consume" -> {"delivery_unavailable"}
    [] OTHER -> {"handle_unavailable"}
\* token_length is published with the slot, and is zero when nothing was issued.
lengthOf(i) ==
  IF ~completed_slot(i) \/ Plan[i].op # "issue" THEN {}
  ELSE IF result[i] = "not_published" THEN {0} ELSE {Length}

eventStatus(i, native) ==
  IF ~completed_slot(i) THEN "unresolved"
  ELSE IF Plan[i].op = "transfer"
  THEN IF result[i] = "timeout" THEN "host_timeout" ELSE result[i]
  ELSE IF Has(native) THEN "returned"
  ELSE IF Has(reasonOf(i)) THEN "unavailable" ELSE Invalid

eventFor(i, cut, same) ==
  LET o == Plan[i]
      native == nativeOf(i, same)
  IN [actor |-> o.actor, phase |-> o.phase, step |-> i, place |-> i, op |-> o.op,
      token |-> CASE o.op = "issue" -> o.of
                  [] o.op = "transfer" -> Delivery[o.of].token [] OTHER -> 0,
      delivery |-> IF o.op \in {"transfer", "consume"} THEN o.of ELSE 0,
      handle |-> CASE o.op = "consume" -> i [] o.op = "release" -> o.of [] OTHER -> 0,
      called |-> called(i, cut), published |-> completed_slot(i),
      status |-> eventStatus(i, native), native |-> native,
      errno |-> IF Has(native) THEN {0} ELSE {}, reason |-> reasonOf(i),
      nonnull |-> IF o.op = "issue" THEN {v = 1 : v \in native} ELSE {},
      length |-> lengthOf(i), lifecycle |-> {claims(i, cut)}]

unpublishedResourceStatus(i, cut) ==
  IF claims(i, cut).boundary = "not_reached" THEN "not_reached" ELSE "unresolved"

tokenRecord(t, cut, same) ==
  LET i == issueStep[t]
  IN [ref |-> t, actor |-> issuer[t], step |-> i, length |-> lengthOf(i),
      status |-> IF ~completed_slot(i) THEN unpublishedResourceStatus(i, cut)
                 ELSE IF nativeOf(i, same) = {0} THEN "null"
                 ELSE IF out[t].acknowledged = "accepted" THEN "issued"
                 ELSE "issued_uncustodied"]

\* What the host observed of a request: recorded with its answer, and only then.
observed(d) == cell[d].acknowledged # "none"
equalityOf(d) ==
  CASE cell[d].acknowledged = "delivered" -> "equal"
    [] cell[d].acknowledged = "copy_mismatch" -> "unequal" [] OTHER -> "not_compared"

\* Mutant of recordSourceAcknowledgement: every answer counts as seen.
recordSourceAcknowledgement_Answered(d) == observed(d)

\* A late answer does not complete the source's publication.
recordSourceAcknowledgement(d) ==
  completed_slot(transferStep[d]) /\ result[transferStep[d]] = cell[d].acknowledged

transferRecord(d, cut) ==
  [ref |-> d, token |-> Delivery[d].token, step |-> transferStep[d],
   phase |-> Plan[transferStep[d]].phase, source |-> source[d], recipient |-> recipient[d],
   request_published |-> TRUE,
   custody_status |-> IF cell[d].acknowledged \in {"request_invalid", "custody_unavailable"}
                      THEN "unavailable" ELSE "held",
   copy_status |-> IF inb[d].committed THEN "copied" ELSE "not_copied",
   equality |-> equalityOf(d),
   recipient_acknowledged |->
     cell[d].acknowledged \in {"delivered", "copy_mismatch", "recipient_rejected"},
   source_acknowledged |-> recordSourceAcknowledgement(d),
   status |-> cell[d].acknowledged, lifecycle |-> {claims(transferStep[d], cut)}]

deliveryRecord(d, cut) ==
  LET i == transferStep[d]
  IN [ref |-> d, token |-> Delivery[d].token, source |-> source[d],
      recipient |-> recipient[d], step |-> i,
      status |-> IF observed(d) THEN cell[d].acknowledged
                 ELSE IF completed_slot(i) THEN "unrequested"
                 ELSE unpublishedResourceStatus(i, cut),
      equality |-> IF observed(d) THEN {equalityOf(d)} ELSE {},
      length |-> IF cell[d].acknowledged = "delivered" THEN {Length} ELSE {}]

Consumes == {i \in Steps : Plan[i].op = "consume"}
handleRecord(i, cut, same) ==
  LET raw(j) == IF result[j] = "consumed" THEN nativeOf(j, same) ELSE {}
      releases == {j \in Steps : Plan[j].op = "release" /\ Plan[j].of = i}
  IN [ref |-> i, delivery |-> Plan[i].of, actor |-> Plan[i].actor, step |-> i,
      status |-> IF ~completed_slot(i) THEN unpublishedResourceStatus(i, cut)
                 ELSE CASE result[i] = "unavailable" -> "unavailable"
                        [] result[i] = "consume_failed" -> "consume_failed"
                        [] OTHER -> "produced",
      native |-> raw(i), release |-> releases,
      release_attempted |-> \E j \in releases : called(j, cut),
      equals |-> {j \in Consumes \ {i} : /\ Plan[j].actor = Plan[i].actor
                                         /\ Has(raw(i)) /\ raw(j) = raw(i)}]

assembleActorReply(cut, same) ==
  [actors |-> {[id |-> a, setup_status |-> "applied", applied |-> TRUE, application_count |-> 1,
                steps |-> {{[step |-> i, claims |-> claims(i, cut),
                             slot |-> IF completed_slot(i) THEN "completed" ELSE "incomplete"] :
                              i \in {j \in Steps : Plan[j].actor = a}}}] : a \in Actors},
   phases |-> {[id |-> p, actor |-> actorOf[p], actions |-> stepsOf[p],
                proceed_observed |-> p \in released] : p \in Phases},
   events |-> {eventFor(i, cut, same) : i \in Steps},
   tokens |-> {tokenRecord(t, cut, same) : t \in Tokens},
   deliveries |-> {deliveryRecord(d, cut) : d \in Deliveries},
   handles |-> {handleRecord(i, cut, same) : i \in Consumes},
   transfers |-> {transferRecord(d, cut) : d \in {e \in Deliveries : observed(e)}}]

\* Wherever the exchange of a source and the host's answer part, whoever is lost and
\* at which operation, the controller accepts the account of the run; and a handle it
\* shows as produced comes from a delivery that the host made.  The outputs of all
\* actors have been collected when custody is about to be erased.
ExtensionAccountAccepted ==
  hpc = "erase" =>
    \A cut \in IF \E i \in Steps : cutOff(i) THEN Cuts ELSE {"before"}, same \in BOOLEAN :
      LET r == assembleActorReply(cut, same)
      IN /\ actor_extension_accepted(r)
         /\ \A h \in r.handles : h.status = "produced" =>
              \E t \in r.transfers : t.ref = h.delivery /\ t.status = "delivered"
=============================================================================
