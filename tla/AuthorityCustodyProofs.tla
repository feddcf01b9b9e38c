----------------------- MODULE AuthorityCustodyProofs -----------------------
(***************************************************************************)
(* The invariants of AuthorityCustody, for any number of actors, any       *)
(* admitted plan and any faults.                                           *)
(***************************************************************************)
EXTENDS AuthorityCustody, WellFoundedInduction, TLAPS

-----------------------------------------------------------------------------
(* The inductive invariant.                                                 *)

Bytes == {"empty", "token", "other"}
Acknowledgements == {"none", "accepted", "rejected"}
Answers == {"none", "delivered", "custody_unavailable", "recipient_unavailable",
            "request_invalid", "recipient_rejected", "recipient_timeout", "copy_mismatch"}
Busy == {"acting", "publishing", "exchange", "consuming"}
WorkerPc == Busy \cup {"parked", "arrived", "leaving", "cancelled", "exited"}
Waiting == {"wait", "usable", "compare"}
Delivering == Waiting \cup {"deliver", "settled"}
Visiting == Delivering \cup {"outbound", "copy", "transfer", "completion"}
HostPc == Visiting \cup {"next", "arrival", "stop", "finish", "erase", "finished"}

Outbound == [bytes : Bytes, committed : BOOLEAN, acknowledged : Acknowledgements]
Inbound == [bytes : Bytes, committed : BOOLEAN, acknowledged : Acknowledgements,
            settled : {"host", "usable", "withdrawn"}]
Request == [requested : BOOLEAN, acknowledged : Answers]

TypeInv ==
  /\ out \in [Tokens -> Outbound] /\ inb \in [Deliveries -> Inbound]
  /\ cell \in [Deliveries -> Request]
  /\ wpc \in [Actors -> WorkerPc] /\ framing \in [Actors -> Nat]
  /\ step \in 1..Len(Plan) + 1 /\ done \subseteq Actors
  /\ hpc \in HostPc /\ at \in Nat /\ phase \in Nat
  /\ custody \in [Tokens -> {"none", "held", "erased"}]
  /\ stopped \subseteq Actors /\ reaped \subseteq Actors

\* The host releases each operation once, in the order of the plan, and only the actor
\* of the phase is at one.
PlaceInv ==
  /\ \A j \in Steps : Plan[j].phase > phase => step <= j
  /\ hpc \in Visiting \cup {"arrival", "stop"} => phase \in Phases
  /\ hpc = "arrival" => \A j \in Steps : Plan[j].phase = phase => step <= j

\* An actor that is at an operation is at the plan's.
BusyOf(a) ==
  /\ wpc[a] \in Busy => /\ step \in Steps /\ Plan[step].actor = a /\ Plan[step].phase = phase
                        /\ hpc \notin {"next", "arrival"}
  /\ wpc[a] = "publishing" => Plan[step].op = "issue"
  /\ wpc[a] = "exchange" => Plan[step].op \in {"issue", "transfer"}
  /\ wpc[a] = "consuming" => Plan[step].op = "consume" /\ consumable(Plan[step].of)
BusyInv == \A a \in Actors : BusyOf(a)

FramingOf(a) ==
  /\ framing[a] # 0 => /\ framing[a] \in unanswered(a)
                       /\ wpc[a] \in {"parked", "exchange"}
  /\ a \in reaped => wpc[a] = "exited"
FramingInv == \A a \in Actors : FramingOf(a)

\* An outbound slot is committed in its issue, once, and answered once.
OutboundOf(t) ==
  /\ out[t].committed =>
       /\ issueStep[t] <= step
       /\ issueStep[t] = step => \A a \in Actors : wpc[a] \notin {"acting", "publishing"}
       /\ Plan[issueStep[t]].phase <= phase
       /\ hpc = "arrival" => Plan[issueStep[t]].phase < phase
  /\ out[t].acknowledged # "none" => out[t].committed
  /\ custody[t] = "held" => out[t].acknowledged = "accepted"
OutboundInv ==
  /\ \A t \in Tokens : OutboundOf(t)
  /\ hpc = "copy" => at \in Tokens /\ out[at].committed /\ out[at].acknowledged = "none"

\* A delivery, from its request to its answer.
Serving(d) == hpc \in Delivering /\ at = d
InboundOf(d) ==
  /\ ~inb[d].committed => inb[d].settled = "host" /\ inb[d].acknowledged = "none"
  /\ inb[d].committed => cell[d].acknowledged # "none" \/ (Serving(d) /\ hpc # "deliver")
  /\ inb[d].settled # "host" => cell[d].acknowledged # "none" \/ (Serving(d) /\ hpc = "settled")
  /\ cell[d].acknowledged = "delivered" => inb[d].settled = "usable"
  /\ cell[d].acknowledged \notin {"none", "delivered"} =>
       inb[d].settled = "withdrawn" \/ ~inb[d].committed
  /\ \/ cell[d].acknowledged \notin {"none", "custody_unavailable", "request_invalid"}
     \/ inb[d].settled # "host"
     => out[Delivery[d].token].acknowledged = "accepted"
  /\ /\ cell[d].acknowledged \notin {"none", "custody_unavailable", "request_invalid"}
     /\ lastUseSlot[Delivery[d].token] = transferStep[d]
     => custody[Delivery[d].token] # "held"
  /\ Serving(d) =>
       /\ cell[d].acknowledged = "none" /\ custody[Delivery[d].token] = "held"
       /\ hpc = "deliver" => ~inb[d].committed
       /\ hpc \in Waiting => inb[d].committed /\ inb[d].settled = "host"
       /\ hpc = "compare" => inb[d].acknowledged = "accepted"
       /\ hpc = "settled" => inb[d].settled = "usable"
InboundInv ==
  /\ \A d \in Deliveries : InboundOf(d)
  /\ hpc \in Delivering => at \in Deliveries

\* A copy made usable keeps its bytes until its last consume, or until its recipient
\* has left.
BytesOf(d) ==
  inb[d].settled = "usable" /\ inb[d].bytes # "token" =>
    \/ wpc[recipient[d]] = "exited"
    \/ \A j \in Steps : Plan[j].op = "consume" /\ Plan[j].of = d => j < step
BytesInv == \A d \in Deliveries : BytesOf(d)

ErasedInv ==
  hpc = "finished" =>
    /\ \A t \in Tokens : custody[t] # "held" /\ (issuer[t] \in reaped => out[t].bytes = "empty")
    /\ \A d \in Deliveries : recipient[d] \in reaped => inb[d].bytes = "empty"

IInv ==
  /\ TypeInv /\ PlaceInv /\ BusyInv /\ FramingInv /\ OutboundInv /\ InboundInv /\ BytesInv
  /\ ErasedInv

-----------------------------------------------------------------------------
(* The plan.                                                                *)

\* A nonempty set of naturals has a least element.
LEMMA MinIsLeast ==
  ASSUME NEW S \in SUBSET Nat, S # {}
  PROVE  Min(S) \in S /\ \A y \in S : Min(S) <= y
<1> DEFINE R == OpToRel(<, Nat)
<1>1. IsWellFoundedOn(R, Nat)
  BY Zenon, NatLessThanWellFounded
<1>2. \A x, y \in Nat : <<y, x>> \in R <=> y < x
  BY DEF OpToRel
<1> HIDE DEF R
<1>3. PICK x \in S : \A y \in S : ~(<<y, x>> \in R)
  BY Zenon, <1>1, WFMin
<1>4. \A y \in S : ~(y < x)
  BY Zenon, <1>2, <1>3
<1>5. \A y \in S : x <= y
  BY ONLY <1>4, x \in S, S \in SUBSET Nat
<1> QED
  BY Zenon, <1>5 DEF Min

\* A nonempty set of naturals with an upper bound has a greatest element.
LEMMA MaxIsGreatest ==
  ASSUME NEW S \in SUBSET Nat, S # {}, NEW n \in Nat, \A y \in S : y <= n
  PROVE  Max(S) \in S /\ \A y \in S : y <= Max(S)
<1> DEFINE D == {n - y : y \in S}
<1>1. D \in SUBSET Nat /\ D # {}
  <2>1. \A y \in S : n - y \in Nat
    <3> TAKE y \in S
    <3>1. y \in Nat
      BY ONLY S \in SUBSET Nat, y \in S
    <3>2. y <= n
      BY ONLY \A x \in S : x <= n, y \in S
    <3> QED
      BY ONLY <3>1, <3>2, n \in Nat
  <2> QED
    BY Zenon, <2>1
<1>2. Min(D) \in D /\ \A y \in D : Min(D) <= y
  BY Zenon, <1>1, MinIsLeast
<1>3. PICK x \in S : Min(D) = n - x
  BY Zenon, <1>2
<1>4. \A y \in S : n - y \in D
  OBVIOUS
<1> HIDE DEF D
<1>5. \A y \in S : x >= y
  <2> TAKE y \in S
  <2>1. n - x <= n - y
    BY Zenon, <1>2, <1>3, <1>4
  <2> QED
    BY <2>1
<1>6. Max(S) \in S /\ \A y \in S : Max(S) >= y
  BY Zenon, <1>5 DEF Max
<1> QED
  BY <1>6

LEMMA PlanType ==
  /\ Len(Plan) \in Nat \ {0} /\ Steps = 1..Len(Plan) /\ Steps \in SUBSET Nat
  /\ \A i \in Steps : /\ Plan[i] \in Operation
                      /\ Plan[i].actor \in Actors /\ Plan[i].phase \in Nat \ {0}
                      /\ Plan[i].phase \in Phases
                      /\ Plan[i].op \in {"issue", "transfer", "consume", "release"}
                      /\ Plan[i].of \in Nat \ {0}
<1>1. Len(Plan) \in Nat \ {0} /\ Steps = 1..Len(Plan) /\ Steps \in SUBSET Nat
  BY PlanAssumption DEF Steps
<1>2. \A i \in Steps : Plan[i] \in Operation
  BY <1>1, PlanAssumption
<1>3. \A i \in Steps : /\ Plan[i].actor \in Actors /\ Plan[i].phase \in Nat \ {0}
                       /\ Plan[i].op \in {"issue", "transfer", "consume", "release"}
                       /\ Plan[i].of \in Nat \ {0}
  BY <1>2 DEF Operation
<1>4. \A i \in Steps : Plan[i].phase \in Phases
  <2> TAKE i \in Steps
  <2>1. Len(Plan) \in Steps /\ i <= Len(Plan)
    BY <1>1
  <2>2. Plan[i].phase <= Plan[Len(Plan)].phase
    BY Zenon, <2>1, PlanAssumption
  <2> QED
    BY <1>3, <2>1, <2>2 DEF Phases
<1> QED
  BY Zenon, <1>1, <1>2, <1>3, <1>4

\* Each phase has a first and a last operation, and one actor.
LEMMA PhaseSteps ==
  ASSUME NEW p \in Phases
  PROVE  /\ p \in Nat /\ stepsOf[p] = {i \in Steps : Plan[i].phase = p}
         /\ Min(stepsOf[p]) \in Steps /\ Plan[Min(stepsOf[p])].phase = p
         /\ \A j \in Steps : Plan[j].phase = p =>
              /\ Min(stepsOf[p]) <= j /\ j <= Max(stepsOf[p])
              /\ Plan[j].actor = actorOf[p]
         /\ \A j \in Steps : Plan[j].phase > p => Min(stepsOf[p]) <= j
         /\ actorOf[p] \in Actors
<1> DEFINE S == {i \in Steps : Plan[i].phase = p}
<1>1. stepsOf[p] = S /\ p \in Nat
  BY DEF stepsOf, Phases
<1>2. S \in SUBSET Nat /\ S # {}
  BY PlanType, PlanAssumption
<1>3. Min(S) \in S /\ \A y \in S : Min(S) <= y
  BY Zenon, <1>2, MinIsLeast
<1>4. Max(S) \in S /\ \A y \in S : y <= Max(S)
  <2>1. Len(Plan) \in Nat /\ \A y \in S : y <= Len(Plan)
    BY PlanType
  <2> QED
    BY Zenon, <1>2, <2>1, MaxIsGreatest
<1>5. \A j \in Steps : Plan[j].phase = p <=> j \in S
  OBVIOUS
<1>6. Min(S) \in Steps /\ Plan[Min(S)].phase = p
  BY Zenon, <1>3
<1>7. actorOf[p] = Plan[Min(S)].actor
  BY Zenon, <1>1 DEF actorOf
<1> HIDE DEF S
<1>8. \A j \in Steps : Plan[j].phase > p => Min(S) <= j
  <2> SUFFICES ASSUME NEW j \in Steps, Plan[j].phase > p, ~(Min(S) <= j)
               PROVE  FALSE
    OBVIOUS
  <2>1. j <= Min(S)
    BY <1>6, PlanType
  <2>2. Plan[j].phase <= p
    BY Zenon, <1>6, <2>1, PlanAssumption
  <2> QED
    BY <1>1, <2>2, PlanType
<1>9. \A j \in Steps : Plan[j].phase = p => Plan[j].actor = actorOf[p]
  BY Zenon, <1>6, <1>7, PlanAssumption
<1>10. actorOf[p] \in Actors
  BY Zenon, <1>6, <1>7, PlanType
<1> QED
  BY Zenon, <1>1, <1>3, <1>4, <1>5, <1>6, <1>8, <1>9, <1>10 DEF S

\* A token has one issue.
LEMMA IssueSteps ==
  /\ \A t \in Tokens : /\ issueStep[t] \in Steps
                       /\ Plan[issueStep[t]].op = "issue" /\ Plan[issueStep[t]].of = t
                       /\ issuer[t] = Plan[issueStep[t]].actor
  /\ \A i \in Steps : Plan[i].op = "issue" =>
       Plan[i].of \in Tokens /\ issueStep[Plan[i].of] = i /\ issuer[Plan[i].of] = Plan[i].actor
<1>1. ASSUME NEW t \in Tokens
      PROVE  /\ issueStep[t] \in Steps
             /\ Plan[issueStep[t]].op = "issue" /\ Plan[issueStep[t]].of = t
             /\ issuer[t] = Plan[issueStep[t]].actor
  <2>1. \E i \in Steps : Plan[i].op = "issue" /\ Plan[i].of = t
    BY Zenon DEF Tokens
  <2>2. issueStep[t] = CHOOSE i \in Steps : Plan[i].op = "issue" /\ Plan[i].of = t
    BY DEF issueStep
  <2>3. issuer[t] = Plan[issueStep[t]].actor
    BY DEF issuer
  <2> QED
    BY Zenon, <2>1, <2>2, <2>3
<1>2. ASSUME NEW i \in Steps, Plan[i].op = "issue"
      PROVE  /\ Plan[i].of \in Tokens /\ issueStep[Plan[i].of] = i
             /\ issuer[Plan[i].of] = Plan[i].actor
  <2>1. Plan[i].of \in Tokens
    BY Zenon, <1>2 DEF Tokens
  <2> DEFINE k == issueStep[Plan[i].of]
  <2>2. k \in Steps /\ Plan[k].op = "issue" /\ Plan[k].of = Plan[i].of
    BY Zenon, <1>1, <2>1
  <2> HIDE DEF k
  <2>3. k = i
    BY <1>2, <2>2, AssignmentAssumption
  <2> QED
    BY Zenon, <1>1, <2>1, <2>3 DEF k
<1> QED
  BY Zenon, <1>1, <1>2

\* A delivery is of a token, to an actor, and only that actor consumes the copy.
LEMMA DeliveryType ==
  /\ Deliveries \in SUBSET Nat /\ 0 \notin Deliveries
  /\ \A d \in Deliveries : /\ Delivery[d].token \in Tokens
                           /\ recipient[d] = Delivery[d].recipient /\ recipient[d] \in Actors
  /\ \A i \in Steps : Plan[i].op \in {"transfer", "consume"} => Plan[i].of \in Deliveries
  /\ \A i \in Steps : Plan[i].op = "consume" => recipient[Plan[i].of] = Plan[i].actor
<1>0. Delivery \in Seq([token : Tokens, recipient : Actors])
  BY Zenon, AssignmentAssumption
<1>1. Deliveries \in SUBSET Nat /\ 0 \notin Deliveries
  BY <1>0 DEF Deliveries
<1>2. \A d \in Deliveries : Delivery[d] \in [token : Tokens, recipient : Actors]
  <2> DEFINE R == [token : Tokens, recipient : Actors]
  <2>1. Delivery \in Seq(R)
    BY <1>0
  <2> HIDE DEF R
  <2>2. \A d \in 1..Len(Delivery) : Delivery[d] \in R
    BY <2>1
  <2> QED
    BY Zenon, <2>2 DEF Deliveries, R
<1>3. \A d \in Deliveries : recipient[d] = Delivery[d].recipient
  BY DEF recipient
<1>4. \A d \in Deliveries : Delivery[d].token \in Tokens /\ Delivery[d].recipient \in Actors
  BY <1>2
<1>5. \A i \in Steps : Plan[i].op \in {"transfer", "consume"} => Plan[i].of \in Deliveries
  BY Zenon, AssignmentAssumption
<1>6. \A i \in Steps : Plan[i].op = "consume" => recipient[Plan[i].of] = Plan[i].actor
  <2> TAKE i \in Steps
  <2> HAVE Plan[i].op = "consume"
  <2>1. Plan[i].of \in Deliveries
    BY <1>5
  <2>2. \A k \in Steps : Plan[k].op = "consume" /\ Plan[k].of = Plan[i].of =>
          Plan[k].actor = Delivery[Plan[i].of].recipient
    BY <2>1, AssignmentAssumption
  <2> QED
    BY Zenon, <1>3, <2>1, <2>2
<1> QED
  BY Zenon, <1>1, <1>3, <1>4, <1>5, <1>6

-----------------------------------------------------------------------------
(* What a step of an actor may do.                                          *)

\* An actor moves alone, never once it has exited.  It ends an operation, or comes to
\* another point of the one it is at, or to none.
Control(a) ==
  /\ UNCHANGED <<hpc, at, phase, custody, stopped, reaped>>
  /\ \A b \in Actors \ {a} : wpc'[b] = wpc[b] /\ framing'[b] = framing[b]
  /\ wpc[a] # "exited"
  /\ \/ /\ step' = step + 1 /\ step \in Steps /\ wpc[a] \in Busy
        /\ framing[a] = 0 /\ framing'[a] = 0
        /\ \/ wpc'[a] \in {"parked", "leaving"}
           \/ /\ wpc'[a] = "acting" /\ step + 1 \in Steps
              /\ Plan[step + 1].phase = Plan[step].phase
     \/ /\ step' = step /\ framing[a] = 0 /\ framing'[a] = 0
        /\ \/ wpc'[a] \notin Busy
           \/ wpc[a] = "acting" /\ wpc'[a] = "publishing" /\ Plan[step].op = "issue"
           \/ wpc[a] = "publishing" /\ wpc'[a] = "exchange"
           \/ wpc[a] = "acting" /\ wpc'[a] = "exchange" /\ Plan[step].op = "transfer"
           \/ /\ wpc[a] = "acting" /\ wpc'[a] = "consuming" /\ Plan[step].op = "consume"
              /\ consumable(Plan[step].of)
     \/ /\ step' = step /\ wpc'[a] = "exited" /\ framing'[a] = 0
     \/ /\ step' = step /\ wpc'[a] = wpc[a]
        /\ \/ framing'[a] \in {0, framing[a]}
           \/ wpc[a] \in servicing /\ framing'[a] \in unanswered(a)

\* It writes the slot of its own issue, and commits it.
WritesOutbound(a) ==
  \A t \in Tokens :
    /\ out'[t].acknowledged = out[t].acknowledged
    /\ \/ out'[t].committed = out[t].committed
       \/ /\ wpc[a] = "publishing" /\ wpc'[a] = "exchange" /\ step' = step
          /\ t = Plan[step].of /\ out'[t].committed
    /\ \/ out'[t].bytes = out[t].bytes
       \/ /\ wpc[a] = "acting" /\ step \in Steps /\ Plan[step].actor = a
          /\ Plan[step].op = "issue" /\ Plan[step].of = t

\* It answers the delivery it validates, and erases copies that are its own.
WritesInbound(a) ==
  \A d \in Deliveries :
    /\ cell'[d].acknowledged = cell[d].acknowledged
    /\ inb'[d].committed = inb[d].committed /\ inb'[d].settled = inb[d].settled
    /\ inb'[d].acknowledged = inb[d].acknowledged \/ (framing[a] = d /\ framing'[a] = 0)
    /\ \/ inb'[d].bytes = inb[d].bytes
       \/ framing[a] = d /\ inb[d].settled = "host"
       \/ recipient[d] = a /\ wpc'[a] = "exited" /\ inb'[d].bytes = "empty"
       \/ /\ wpc[a] = "consuming" /\ Plan[step].of = d /\ last_use[step] /\ step' = step + 1
          /\ inb'[d].bytes = "empty"

ActorStep(a) == Control(a) /\ WritesOutbound(a) /\ WritesInbound(a)

\* An operation that ends, and the next one of the visit if there is one.
LEMMA EndStepForm ==
  ASSUME TypeInv, NEW a \in Actors, NEW r, wpc[a] \in Busy, step \in Steps, framing[a] = 0,
         EndStep(a, r), UNCHANGED <<hpc, at, phase, custody, stopped, reaped, framing>>
  PROVE  /\ Control(a) /\ step' = step + 1
         /\ step' \in 1..Len(Plan) + 1 /\ wpc' \in [Actors -> WorkerPc]
<1>1. Plan[step].phase \in Phases
  BY Zenon, PlanType
<1>2. stepsOf[Plan[step].phase] = {i \in Steps : Plan[i].phase = Plan[step].phase}
  BY <1>1 DEF stepsOf
<1>3. PICK x \in {"acting", "parked", "leaving"} :
        /\ wpc' = [wpc EXCEPT ![a] = x]
        /\ x = "acting" => step + 1 \in stepsOf[Plan[step].phase]
  BY Zenon DEF EndStep, Become
<1>4. x = "acting" => step + 1 \in Steps /\ Plan[step + 1].phase = Plan[step].phase
  BY Zenon, <1>2, <1>3
<1>5. wpc'[a] = x /\ (\A b \in Actors \ {a} : wpc'[b] = wpc[b]) /\ wpc' \in [Actors -> WorkerPc]
  BY <1>3 DEF TypeInv, WorkerPc, Busy
<1>6. step' = step + 1 /\ step' \in 1..Len(Plan) + 1
  BY PlanType DEF EndStep
<1>7. wpc[a] # "exited"
  BY DEF Busy
<1> QED
  BY Zenon, <1>4, <1>5, <1>6, <1>7 DEF Control

\* An actor that only comes to another point.
LEMMA BecomeForm ==
  ASSUME TypeInv, NEW a \in Actors, NEW x \in WorkerPc, Become(a, x)
  PROVE  /\ wpc' \in [Actors -> WorkerPc] /\ wpc'[a] = x
         /\ \A b \in Actors \ {a} : wpc'[b] = wpc[b]
BY DEF Become, TypeInv

-----------------------------------------------------------------------------
(* Writing one field of a slot.                                             *)

LEMMA OutboundBytes ==
  ASSUME out \in [Tokens -> Outbound], NEW x, NEW v \in Bytes,
         out' = [out EXCEPT ![x].bytes = v]
  PROVE  /\ out' \in [Tokens -> Outbound]
         /\ \A t \in Tokens :
              /\ out'[t].bytes = IF t = x THEN v ELSE out[t].bytes
              /\ out'[t].committed = out[t].committed
              /\ out'[t].acknowledged = out[t].acknowledged
<1> DEFINE e == [out[x] EXCEPT !.bytes = v]
<1>1. ASSUME x \in Tokens
      PROVE  /\ e \in Outbound
             /\ e.bytes = v
             /\ e.committed = out[x].committed
             /\ e.acknowledged = out[x].acknowledged
  <2>1. out[x] \in Outbound
    BY <1>1
  <2> QED
    BY <2>1 DEF Outbound
<1>2. out' = [out EXCEPT ![x] = e]
  OBVIOUS
<1> HIDE DEF e
<1>3. /\ out' \in [Tokens -> Outbound]
      /\ \A y \in Tokens : out'[y] = IF y = x THEN e ELSE out[y]
  BY Zenon, <1>1, <1>2
<1> QED
  BY <1>1, <1>3

LEMMA OutboundCommitted ==
  ASSUME out \in [Tokens -> Outbound], NEW x, NEW v \in BOOLEAN,
         out' = [out EXCEPT ![x].committed = v]
  PROVE  /\ out' \in [Tokens -> Outbound]
         /\ \A t \in Tokens :
              /\ out'[t].bytes = out[t].bytes
              /\ out'[t].committed = IF t = x THEN v ELSE out[t].committed
              /\ out'[t].acknowledged = out[t].acknowledged
<1> DEFINE e == [out[x] EXCEPT !.committed = v]
<1>1. ASSUME x \in Tokens
      PROVE  /\ e \in Outbound
             /\ e.bytes = out[x].bytes
             /\ e.committed = v
             /\ e.acknowledged = out[x].acknowledged
  <2>1. out[x] \in Outbound
    BY <1>1
  <2> QED
    BY <2>1 DEF Outbound
<1>2. out' = [out EXCEPT ![x] = e]
  OBVIOUS
<1> HIDE DEF e
<1>3. /\ out' \in [Tokens -> Outbound]
      /\ \A y \in Tokens : out'[y] = IF y = x THEN e ELSE out[y]
  BY Zenon, <1>1, <1>2
<1> QED
  BY <1>1, <1>3

LEMMA OutboundAnswered ==
  ASSUME out \in [Tokens -> Outbound], NEW v \in Acknowledgements,
         out' = [out EXCEPT ![at].bytes = "empty", ![at].acknowledged = v]
  PROVE  /\ out' \in [Tokens -> Outbound]
         /\ \A t \in Tokens :
              /\ out'[t].bytes = IF t = at THEN "empty" ELSE out[t].bytes
              /\ out'[t].committed = out[t].committed
              /\ out'[t].acknowledged = IF t = at THEN v ELSE out[t].acknowledged
<1> DEFINE e == [out[at] EXCEPT !.bytes = "empty", !.acknowledged = v]
<1>1. ASSUME at \in Tokens
      PROVE  /\ e \in Outbound
             /\ e.bytes = "empty"
             /\ e.committed = out[at].committed
             /\ e.acknowledged = v
  <2>1. out[at] \in Outbound
    BY <1>1
  <2> QED
    BY Zenon, <2>1 DEF Outbound, Bytes, Acknowledgements
<1>2. out' = [out EXCEPT ![at] = e]
  BY Zenon
<1> HIDE DEF e
<1>3. /\ out' \in [Tokens -> Outbound]
      /\ \A y \in Tokens : out'[y] = IF y = at THEN e ELSE out[y]
  BY Zenon, <1>1, <1>2
<1> QED
  BY <1>1, <1>3

LEMMA InboundBytes ==
  ASSUME inb \in [Deliveries -> Inbound], NEW x, NEW v \in Bytes,
         inb' = [inb EXCEPT ![x].bytes = v]
  PROVE  /\ inb' \in [Deliveries -> Inbound]
         /\ \A d \in Deliveries :
              /\ inb'[d].bytes = IF d = x THEN v ELSE inb[d].bytes
              /\ inb'[d].committed = inb[d].committed
              /\ inb'[d].acknowledged = inb[d].acknowledged
              /\ inb'[d].settled = inb[d].settled
<1> DEFINE e == [inb[x] EXCEPT !.bytes = v]
<1>1. ASSUME x \in Deliveries
      PROVE  /\ e \in Inbound
             /\ e.bytes = v
             /\ e.committed = inb[x].committed
             /\ e.acknowledged = inb[x].acknowledged
             /\ e.settled = inb[x].settled
  <2>1. inb[x] \in Inbound
    BY <1>1
  <2> QED
    BY <2>1 DEF Inbound
<1>2. inb' = [inb EXCEPT ![x] = e]
  OBVIOUS
<1> HIDE DEF e
<1>3. /\ inb' \in [Deliveries -> Inbound]
      /\ \A y \in Deliveries : inb'[y] = IF y = x THEN e ELSE inb[y]
  BY Zenon, <1>1, <1>2
<1> QED
  BY <1>1, <1>3

LEMMA InboundAcknowledged ==
  ASSUME inb \in [Deliveries -> Inbound], NEW x, NEW v \in Acknowledgements,
         inb' = [inb EXCEPT ![x].acknowledged = v]
  PROVE  /\ inb' \in [Deliveries -> Inbound]
         /\ \A d \in Deliveries :
              /\ inb'[d].bytes = inb[d].bytes
              /\ inb'[d].committed = inb[d].committed
              /\ inb'[d].acknowledged = IF d = x THEN v ELSE inb[d].acknowledged
              /\ inb'[d].settled = inb[d].settled
<1> DEFINE e == [inb[x] EXCEPT !.acknowledged = v]
<1>1. ASSUME x \in Deliveries
      PROVE  /\ e \in Inbound
             /\ e.bytes = inb[x].bytes
             /\ e.committed = inb[x].committed
             /\ e.acknowledged = v
             /\ e.settled = inb[x].settled
  <2>1. inb[x] \in Inbound
    BY <1>1
  <2> QED
    BY <2>1 DEF Inbound
<1>2. inb' = [inb EXCEPT ![x] = e]
  OBVIOUS
<1> HIDE DEF e
<1>3. /\ inb' \in [Deliveries -> Inbound]
      /\ \A y \in Deliveries : inb'[y] = IF y = x THEN e ELSE inb[y]
  BY Zenon, <1>1, <1>2
<1> QED
  BY <1>1, <1>3

LEMMA InboundSettled ==
  ASSUME inb \in [Deliveries -> Inbound], NEW v \in {"host", "usable", "withdrawn"},
         inb' = [inb EXCEPT ![at].settled = v]
  PROVE  /\ inb' \in [Deliveries -> Inbound]
         /\ \A d \in Deliveries :
              /\ inb'[d].bytes = inb[d].bytes
              /\ inb'[d].committed = inb[d].committed
              /\ inb'[d].acknowledged = inb[d].acknowledged
              /\ inb'[d].settled = IF d = at THEN v ELSE inb[d].settled
<1> DEFINE e == [inb[at] EXCEPT !.settled = v]
<1>1. ASSUME at \in Deliveries
      PROVE  /\ e \in Inbound
             /\ e.bytes = inb[at].bytes
             /\ e.committed = inb[at].committed
             /\ e.acknowledged = inb[at].acknowledged
             /\ e.settled = v
  <2>1. inb[at] \in Inbound
    BY <1>1
  <2> QED
    BY <2>1 DEF Inbound
<1>2. inb' = [inb EXCEPT ![at] = e]
  OBVIOUS
<1> HIDE DEF e
<1>3. /\ inb' \in [Deliveries -> Inbound]
      /\ \A y \in Deliveries : inb'[y] = IF y = at THEN e ELSE inb[y]
  BY Zenon, <1>1, <1>2
<1> QED
  BY <1>1, <1>3

LEMMA InboundDelivered ==
  ASSUME inb \in [Deliveries -> Inbound],
         inb' = [inb EXCEPT ![at].bytes = "token", ![at].committed = TRUE,
                            ![at].acknowledged = "none"]
  PROVE  /\ inb' \in [Deliveries -> Inbound]
         /\ \A d \in Deliveries :
              /\ inb'[d].bytes = IF d = at THEN "token" ELSE inb[d].bytes
              /\ inb'[d].committed = IF d = at THEN TRUE ELSE inb[d].committed
              /\ inb'[d].acknowledged = IF d = at THEN "none" ELSE inb[d].acknowledged
              /\ inb'[d].settled = inb[d].settled
<1> DEFINE e == [inb[at] EXCEPT !.bytes = "token", !.committed = TRUE, !.acknowledged = "none"]
<1>1. ASSUME at \in Deliveries
      PROVE  /\ e \in Inbound
             /\ e.bytes = "token"
             /\ e.committed = TRUE
             /\ e.acknowledged = "none"
             /\ e.settled = inb[at].settled
  <2>1. inb[at] \in Inbound
    BY <1>1
  <2> QED
    BY Zenon, <2>1 DEF Inbound, Bytes, Acknowledgements
<1>2. inb' = [inb EXCEPT ![at] = e]
  BY Zenon
<1> HIDE DEF e
<1>3. /\ inb' \in [Deliveries -> Inbound]
      /\ \A y \in Deliveries : inb'[y] = IF y = at THEN e ELSE inb[y]
  BY Zenon, <1>1, <1>2
<1> QED
  BY Zenon, <1>1, <1>3

LEMMA RequestMade ==
  ASSUME cell \in [Deliveries -> Request], NEW x, NEW v \in BOOLEAN,
         cell' = [cell EXCEPT ![x].requested = v]
  PROVE  /\ cell' \in [Deliveries -> Request]
         /\ \A d \in Deliveries :
              /\ cell'[d].requested = IF d = x THEN v ELSE cell[d].requested
              /\ cell'[d].acknowledged = cell[d].acknowledged
<1> DEFINE e == [cell[x] EXCEPT !.requested = v]
<1>1. ASSUME x \in Deliveries
      PROVE  /\ e \in Request
             /\ e.requested = v
             /\ e.acknowledged = cell[x].acknowledged
  <2>1. cell[x] \in Request
    BY <1>1
  <2> QED
    BY <2>1 DEF Request
<1>2. cell' = [cell EXCEPT ![x] = e]
  OBVIOUS
<1> HIDE DEF e
<1>3. /\ cell' \in [Deliveries -> Request]
      /\ \A y \in Deliveries : cell'[y] = IF y = x THEN e ELSE cell[y]
  BY Zenon, <1>1, <1>2
<1> QED
  BY <1>1, <1>3

LEMMA RequestAnswered ==
  ASSUME cell \in [Deliveries -> Request], NEW v \in Answers,
         cell' = [cell EXCEPT ![at].acknowledged = v]
  PROVE  /\ cell' \in [Deliveries -> Request]
         /\ \A d \in Deliveries :
              /\ cell'[d].requested = cell[d].requested
              /\ cell'[d].acknowledged = IF d = at THEN v ELSE cell[d].acknowledged
<1> DEFINE e == [cell[at] EXCEPT !.acknowledged = v]
<1>1. ASSUME at \in Deliveries
      PROVE  /\ e \in Request
             /\ e.requested = cell[at].requested
             /\ e.acknowledged = v
  <2>1. cell[at] \in Request
    BY <1>1
  <2> QED
    BY <2>1 DEF Request
<1>2. cell' = [cell EXCEPT ![at] = e]
  OBVIOUS
<1> HIDE DEF e
<1>3. /\ cell' \in [Deliveries -> Request]
      /\ \A y \in Deliveries : cell'[y] = IF y = at THEN e ELSE cell[y]
  BY Zenon, <1>1, <1>2
<1> QED
  BY <1>1, <1>3

-----------------------------------------------------------------------------
(* The actors' steps have that form, and keep the types.                    *)

\* A step that leaves the slots alone.
LEMMA SlotsSame ==
  ASSUME NEW a, UNCHANGED slotVars
  PROVE  WritesOutbound(a) /\ WritesInbound(a)
<1>1. out' = out /\ inb' = inb /\ cell' = cell
  BY DEF slotVars
<1> QED
  BY <1>1 DEF WritesOutbound, WritesInbound

\* The operations of an actor that issues or requests.
LEMMA SourceSteps ==
  ASSUME IInv, NEW a \in Actors,
         IssueFails(a) \/ Issue(a) \/ PublishToken(a) \/ RequestTransfer(a) \/ ExchangeEnds(a)
  PROVE  ActorStep(a) /\ TypeInv'
<1> USE DEF ActorStep
<1>t. TypeInv /\ BusyOf(a) /\ FramingOf(a)
  BY Zenon DEF IInv, BusyInv, FramingInv
<1>1. CASE IssueFails(a)
  <2>1. /\ wpc[a] \in Busy /\ step \in Steps /\ framing[a] = 0 /\ EndStep(a, "not_published")
        /\ UNCHANGED <<hpc, at, phase, custody, stopped, reaped, framing, done, slotVars>>
    BY Zenon, <1>1 DEF IssueFails, At, Busy, hostVars
  <2>2. Control(a) /\ step' \in 1..Len(Plan) + 1 /\ wpc' \in [Actors -> WorkerPc]
    BY Zenon, <1>t, <2>1, EndStepForm
  <2>3. WritesOutbound(a) /\ WritesInbound(a)
    BY Zenon, <2>1, SlotsSame
  <2>4. TypeInv'
    BY Zenon, <1>t, <2>1, <2>2 DEF TypeInv, slotVars
  <2> QED
    BY Zenon, <2>2, <2>3, <2>4
<1>2. CASE Issue(a)
  <2>1. /\ wpc[a] = "acting" /\ step \in Steps /\ framing[a] = 0 /\ Plan[step].op = "issue"
        /\ Plan[step].actor = a /\ Become(a, "publishing")
        /\ UNCHANGED <<hpc, at, phase, custody, stopped, reaped, framing, step, done, inb, cell>>
    BY Zenon, <1>2 DEF Issue, At, hostVars
  <2>2. /\ wpc' \in [Actors -> WorkerPc] /\ wpc'[a] = "publishing"
        /\ \A b \in Actors \ {a} : wpc'[b] = wpc[b]
    BY Zenon, <1>t, <2>1, BecomeForm DEF WorkerPc, Busy
  <2>3. Control(a)
    BY <2>1, <2>2 DEF Control
  <2>4. /\ out' \in [Tokens -> Outbound]
        /\ \A t \in Tokens :
             /\ out'[t].bytes = IF t = Plan[step].of THEN "token" ELSE out[t].bytes
             /\ out'[t].committed = out[t].committed
             /\ out'[t].acknowledged = out[t].acknowledged
    <3>1. out \in [Tokens -> Outbound] /\ "token" \in Bytes
      BY Zenon, <1>t DEF TypeInv, Bytes
    <3>2. out' = [out EXCEPT ![Plan[step].of].bytes = "token"]
      BY ONLY <1>2 DEF Issue
    <3> QED
      BY ONLY Zenon, <3>1, <3>2, OutboundBytes
  <2>5. WritesOutbound(a)
    BY Zenon, <2>1, <2>4 DEF WritesOutbound
  <2>6. WritesInbound(a)
    BY <2>1 DEF WritesInbound
  <2>7. TypeInv'
    BY Zenon, <1>t, <2>1, <2>2, <2>4 DEF TypeInv
  <2> QED
    BY Zenon, <2>3, <2>5, <2>6, <2>7
<1>3. CASE PublishToken(a)
  <2>1. /\ wpc[a] = "publishing" /\ Become(a, "exchange")
        /\ UNCHANGED <<hpc, at, phase, custody, stopped, reaped, framing, step, done, inb, cell>>
    BY Zenon, <1>3 DEF PublishToken, hostVars
  <2>2. /\ wpc' \in [Actors -> WorkerPc] /\ wpc'[a] = "exchange"
        /\ \A b \in Actors \ {a} : wpc'[b] = wpc[b]
    BY Zenon, <1>t, <2>1, BecomeForm DEF WorkerPc, Busy
  <2>3. framing[a] = 0
    BY <1>t, <2>1 DEF FramingOf
  <2>4. Control(a)
    BY <2>1, <2>2, <2>3 DEF Control
  <2>5. /\ out' \in [Tokens -> Outbound]
        /\ \A t \in Tokens :
             /\ out'[t].bytes = out[t].bytes
             /\ out'[t].committed = IF t = Plan[step].of THEN TRUE ELSE out[t].committed
             /\ out'[t].acknowledged = out[t].acknowledged
    <3>1. out \in [Tokens -> Outbound] /\ TRUE \in BOOLEAN
      BY Zenon, <1>t DEF TypeInv
    <3>2. out' = [out EXCEPT ![Plan[step].of].committed = TRUE]
      BY ONLY <1>3 DEF PublishToken
    <3> QED
      BY ONLY Zenon, <3>1, <3>2, OutboundCommitted
  <2>6. WritesOutbound(a)
    BY Zenon, <2>1, <2>2, <2>5 DEF WritesOutbound
  <2>7. WritesInbound(a)
    BY <2>1 DEF WritesInbound
  <2>8. TypeInv'
    BY Zenon, <1>t, <2>1, <2>2, <2>5 DEF TypeInv
  <2> QED
    BY Zenon, <2>4, <2>6, <2>7, <2>8
<1>4. CASE RequestTransfer(a)
  <2>1. /\ wpc[a] = "acting" /\ framing[a] = 0 /\ Plan[step].op = "transfer"
        /\ Become(a, "exchange")
        /\ UNCHANGED <<hpc, at, phase, custody, stopped, reaped, framing, step, done, inb, out>>
    BY Zenon, <1>4 DEF RequestTransfer, At, hostVars
  <2>2. /\ wpc' \in [Actors -> WorkerPc] /\ wpc'[a] = "exchange"
        /\ \A b \in Actors \ {a} : wpc'[b] = wpc[b]
    BY Zenon, <1>t, <2>1, BecomeForm DEF WorkerPc, Busy
  <2>3. Control(a)
    BY <2>1, <2>2 DEF Control
  <2>4. /\ cell' \in [Deliveries -> Request]
        /\ \A d \in Deliveries : cell'[d].acknowledged = cell[d].acknowledged
    <3>1. cell \in [Deliveries -> Request] /\ TRUE \in BOOLEAN
      BY Zenon, <1>t DEF TypeInv
    <3>2. cell' = [cell EXCEPT ![Plan[step].of].requested = TRUE]
      BY ONLY <1>4 DEF RequestTransfer
    <3> QED
      BY ONLY Zenon, <3>1, <3>2, RequestMade
  <2>5. WritesOutbound(a)
    BY <2>1 DEF WritesOutbound
  <2>6. WritesInbound(a)
    BY <2>1, <2>4 DEF WritesInbound
  <2>7. TypeInv'
    BY Zenon, <1>t, <2>1, <2>2, <2>4 DEF TypeInv
  <2> QED
    BY Zenon, <2>3, <2>5, <2>6, <2>7
<1>5. CASE ExchangeEnds(a)
  <2>1. /\ wpc[a] \in Busy /\ framing[a] = 0 /\ (\E r : EndStep(a, r))
        /\ UNCHANGED <<hpc, at, phase, custody, stopped, reaped, framing, done, slotVars>>
    BY Zenon, <1>5 DEF ExchangeEnds, Busy, hostVars
  <2>2. step \in Steps
    BY Zenon, <1>t, <2>1 DEF BusyOf
  <2>3. Control(a) /\ step' \in 1..Len(Plan) + 1 /\ wpc' \in [Actors -> WorkerPc]
    BY Zenon, <1>t, <2>1, <2>2, EndStepForm
  <2>4. WritesOutbound(a) /\ WritesInbound(a)
    BY Zenon, <2>1, SlotsSame
  <2>5. TypeInv'
    BY Zenon, <1>t, <2>1, <2>3 DEF TypeInv, slotVars
  <2> QED
    BY Zenon, <2>3, <2>4, <2>5
<1> QED
  BY Zenon, <1>1, <1>2, <1>3, <1>4, <1>5

\* Validation of a delivery.
LEMMA FramingSteps ==
  ASSUME IInv, NEW a \in Actors, BeginFraming(a) \/ EndFraming(a) \/ AlterInbound(a)
  PROVE  ActorStep(a) /\ TypeInv'
<1> USE DEF ActorStep
<1>t. TypeInv /\ FramingOf(a) /\ inb \in [Deliveries -> Inbound]
  BY Zenon DEF IInv, FramingInv, TypeInv
<1>1. CASE BeginFraming(a)
  <2>1. /\ wpc[a] \in servicing /\ unanswered(a) # {}
        /\ framing' = [framing EXCEPT ![a] = Min(unanswered(a))]
        /\ UNCHANGED <<hpc, at, phase, custody, stopped, reaped, wpc, step, done, slotVars>>
    BY Zenon, <1>1 DEF BeginFraming, hostVars
  <2>2. Min(unanswered(a)) \in unanswered(a) /\ Min(unanswered(a)) \in Nat
    <3>1. unanswered(a) \in SUBSET Nat
      BY DeliveryType DEF unanswered
    <3>2. Min(unanswered(a)) \in unanswered(a)
      BY Zenon, <2>1, <3>1, MinIsLeast
    <3> QED
      BY Zenon, <3>1, <3>2
  <2>3. /\ framing' \in [Actors -> Nat] /\ framing'[a] \in unanswered(a)
        /\ \A b \in Actors \ {a} : framing'[b] = framing[b]
    BY <1>t, <2>1, <2>2 DEF TypeInv
  <2>4. wpc[a] # "exited"
    BY <2>1 DEF servicing
  <2>5. Control(a)
    BY Zenon, <2>1, <2>3, <2>4 DEF Control
  <2>6. WritesOutbound(a) /\ WritesInbound(a)
    BY Zenon, <2>1, SlotsSame
  <2>7. TypeInv'
    BY Zenon, <1>t, <2>1, <2>3 DEF TypeInv, slotVars
  <2> QED
    BY Zenon, <2>5, <2>6, <2>7
<1>2. CASE EndFraming(a)
  <2>1. /\ framing[a] # 0 /\ wpc[a] # "exited"
        /\ framing' = [framing EXCEPT ![a] = 0]
        /\ UNCHANGED <<hpc, at, phase, custody, stopped, reaped, wpc, step, done, out, cell>>
    BY Zenon, <1>2 DEF EndFraming, hostVars
  <2>2. PICK r \in Acknowledgements : inb' = [inb EXCEPT ![framing[a]].acknowledged = r]
    BY Zenon, <1>2 DEF EndFraming, Acknowledgements
  <2>3. /\ framing' \in [Actors -> Nat] /\ framing'[a] = 0
        /\ \A b \in Actors \ {a} : framing'[b] = framing[b]
    BY <1>t, <2>1 DEF TypeInv
  <2>4. Control(a)
    BY Zenon, <2>1, <2>3 DEF Control
  <2>5. /\ inb' \in [Deliveries -> Inbound]
        /\ \A d \in Deliveries :
             /\ inb'[d].bytes = inb[d].bytes
             /\ inb'[d].committed = inb[d].committed
             /\ inb'[d].acknowledged = IF d = framing[a] THEN r ELSE inb[d].acknowledged
             /\ inb'[d].settled = inb[d].settled
    <3>1. inb \in [Deliveries -> Inbound] /\ r \in Acknowledgements
      BY Zenon, <1>t
    <3> QED
      BY ONLY Zenon, <2>2, <3>1, InboundAcknowledged
  <2>6. WritesOutbound(a)
    BY <2>1 DEF WritesOutbound
  <2>7. WritesInbound(a)
    BY Zenon, <2>1, <2>3, <2>5 DEF WritesInbound
  <2>8. TypeInv'
    BY Zenon, <1>t, <2>1, <2>3, <2>5 DEF TypeInv
  <2> QED
    BY Zenon, <2>4, <2>6, <2>7, <2>8
<1>3. CASE AlterInbound(a)
  <2>1. /\ framing[a] # 0 /\ wpc[a] # "exited" /\ inb[framing[a]].settled = "host"
        /\ UNCHANGED <<hpc, at, phase, custody, stopped, reaped, wpc, framing, step, done, out,
                       cell>>
    BY Zenon, <1>3 DEF AlterInbound, hostVars, workerVars
  <2>2. Control(a)
    BY Zenon, <2>1 DEF Control
  <2>3. /\ inb' \in [Deliveries -> Inbound]
        /\ \A d \in Deliveries :
             /\ inb'[d].bytes = IF d = framing[a] THEN "other" ELSE inb[d].bytes
             /\ inb'[d].committed = inb[d].committed
             /\ inb'[d].acknowledged = inb[d].acknowledged
             /\ inb'[d].settled = inb[d].settled
    <3>1. inb' = [inb EXCEPT ![framing[a]].bytes = "other"] /\ "other" \in Bytes
      BY ONLY <1>3 DEF AlterInbound, Bytes
    <3> QED
      BY ONLY Zenon, <1>t, <3>1, InboundBytes
  <2>4. WritesOutbound(a)
    BY <2>1 DEF WritesOutbound
  <2>5. WritesInbound(a)
    BY Zenon, <2>1, <2>3 DEF WritesInbound
  <2>6. TypeInv'
    BY Zenon, <1>t, <2>1, <2>3 DEF TypeInv
  <2> QED
    BY Zenon, <2>2, <2>4, <2>5, <2>6
<1> QED
  BY Zenon, <1>1, <1>2, <1>3

\* The operations of a recipient.
LEMMA RecipientSteps ==
  ASSUME IInv, NEW a \in Actors, BeginConsume(a) \/ EndConsume(a) \/ ReleaseHandle(a)
  PROVE  ActorStep(a) /\ TypeInv'
<1> USE DEF ActorStep
<1>t. TypeInv /\ BusyOf(a) /\ FramingOf(a) /\ inb \in [Deliveries -> Inbound]
  BY Zenon DEF IInv, BusyInv, FramingInv, TypeInv
<1>1. CASE BeginConsume(a)
  <2>1. /\ wpc[a] = "acting" /\ framing[a] = 0 /\ step \in Steps /\ Plan[step].op = "consume"
        /\ UNCHANGED <<hpc, at, phase, custody, stopped, reaped, framing, done, slotVars>>
    BY Zenon, <1>1 DEF BeginConsume, At, hostVars
  <2>2. WritesOutbound(a) /\ WritesInbound(a)
    BY Zenon, <2>1, SlotsSame
  <2>3. CASE consumable(Plan[step].of)
    <3>1. Become(a, "consuming") /\ UNCHANGED step
      BY Zenon, <1>1, <2>3 DEF BeginConsume
    <3>2. /\ wpc' \in [Actors -> WorkerPc] /\ wpc'[a] = "consuming"
          /\ \A b \in Actors \ {a} : wpc'[b] = wpc[b]
      BY Zenon, <1>t, <3>1, BecomeForm DEF WorkerPc, Busy
    <3>3. Control(a)
      BY <2>1, <2>3, <3>1, <3>2 DEF Control
    <3>4. TypeInv'
      BY Zenon, <1>t, <2>1, <3>1, <3>2 DEF TypeInv, slotVars
    <3> QED
      BY Zenon, <2>2, <3>3, <3>4
  <2>4. CASE ~consumable(Plan[step].of)
    <3>1. EndStep(a, "unavailable") /\ wpc[a] \in Busy
      BY Zenon, <1>1, <2>1, <2>4 DEF BeginConsume, Busy
    <3>2. Control(a) /\ step' \in 1..Len(Plan) + 1 /\ wpc' \in [Actors -> WorkerPc]
      BY Zenon, <1>t, <2>1, <3>1, EndStepForm
    <3>3. TypeInv'
      BY Zenon, <1>t, <2>1, <3>2 DEF TypeInv, slotVars
    <3> QED
      BY Zenon, <2>2, <3>2, <3>3
  <2> QED
    BY Zenon, <2>3, <2>4
<1>2. CASE EndConsume(a)
  <2>1. /\ wpc[a] = "consuming" /\ wpc[a] \in Busy /\ (\E r : EndStep(a, r))
        /\ UNCHANGED <<hpc, at, phase, custody, stopped, reaped, framing, done, out, cell>>
    BY Zenon, <1>2 DEF EndConsume, Busy, hostVars
  <2>2. step \in Steps /\ framing[a] = 0
    BY Zenon, <1>t, <2>1 DEF BusyOf, FramingOf
  <2>3. /\ Control(a) /\ step' = step + 1
        /\ step' \in 1..Len(Plan) + 1 /\ wpc' \in [Actors -> WorkerPc]
    BY Zenon, <1>t, <2>1, <2>2, EndStepForm
  <2>4. WritesOutbound(a)
    BY Zenon, <2>1 DEF WritesOutbound
  <2>5. CASE last_use[step]
    <3>1. inb' = [inb EXCEPT ![Plan[step].of].bytes = "empty"] /\ "empty" \in Bytes
      BY ONLY <1>2, <2>5 DEF EndConsume, Bytes
    <3>2. /\ inb' \in [Deliveries -> Inbound]
          /\ \A d \in Deliveries :
               /\ inb'[d].bytes = IF d = Plan[step].of THEN "empty" ELSE inb[d].bytes
               /\ inb'[d].committed = inb[d].committed
               /\ inb'[d].acknowledged = inb[d].acknowledged
               /\ inb'[d].settled = inb[d].settled
      BY ONLY Zenon, <1>t, <3>1, InboundBytes
    <3>3. WritesInbound(a)
      BY Zenon, <2>1, <2>3, <2>5, <3>2 DEF WritesInbound
    <3>4. TypeInv'
      BY Zenon, <1>t, <2>1, <2>3, <3>2 DEF TypeInv
    <3> QED
      BY Zenon, <2>3, <2>4, <3>3, <3>4
  <2>6. CASE ~last_use[step]
    <3>1. inb' = inb
      BY ONLY <1>2, <2>6 DEF EndConsume
    <3>2. WritesInbound(a)
      BY Zenon, <2>1, <3>1 DEF WritesInbound
    <3>3. TypeInv'
      BY Zenon, <1>t, <2>1, <2>3, <3>1 DEF TypeInv
    <3> QED
      BY Zenon, <2>3, <2>4, <3>2, <3>3
  <2> QED
    BY Zenon, <2>5, <2>6
<1>3. CASE ReleaseHandle(a)
  <2>1. /\ wpc[a] \in Busy /\ framing[a] = 0 /\ step \in Steps /\ (\E r : EndStep(a, r))
        /\ UNCHANGED <<hpc, at, phase, custody, stopped, reaped, framing, done, slotVars>>
    BY Zenon, <1>3 DEF ReleaseHandle, At, Busy, hostVars
  <2>2. Control(a) /\ step' \in 1..Len(Plan) + 1 /\ wpc' \in [Actors -> WorkerPc]
    BY Zenon, <1>t, <2>1, EndStepForm
  <2>3. WritesOutbound(a) /\ WritesInbound(a)
    BY Zenon, <2>1, SlotsSame
  <2>4. TypeInv'
    BY Zenon, <1>t, <2>1, <2>2 DEF TypeInv, slotVars
  <2> QED
    BY Zenon, <2>2, <2>3, <2>4
<1> QED
  BY Zenon, <1>1, <1>2, <1>3

\* Actors that are gone.
LEMMA GoneForm ==
  ASSUME TypeInv, NEW A \in SUBSET Actors, Gone(A)
  PROVE  /\ wpc' \in [Actors -> WorkerPc] /\ framing' \in [Actors -> Nat]
         /\ \A b \in Actors : b \in A => wpc'[b] = "exited" /\ framing'[b] = 0
         /\ \A b \in Actors : b \notin A => wpc'[b] = wpc[b] /\ framing'[b] = framing[b]
<1>1. "exited" \in WorkerPc
  BY Zenon DEF WorkerPc
<1>2. wpc \in [Actors -> WorkerPc] /\ framing \in [Actors -> Nat]
  BY Zenon DEF TypeInv
<1>3. /\ wpc' = [b \in Actors |-> IF b \in A THEN "exited" ELSE wpc[b]]
      /\ framing' = [b \in Actors |-> IF b \in A THEN 0 ELSE framing[b]]
  BY Zenon DEF Gone
<1>4. \A b \in Actors : /\ wpc'[b] = IF b \in A THEN "exited" ELSE wpc[b]
                        /\ framing'[b] = IF b \in A THEN 0 ELSE framing[b]
  BY <1>3
<1>5. wpc' \in [Actors -> WorkerPc] /\ framing' \in [Actors -> Nat]
  BY <1>1, <1>2, <1>3
<1> QED
  BY Zenon, <1>4, <1>5

\* Coming, leaving and dying.
LEMMA LifeSteps ==
  ASSUME IInv, NEW a \in Actors, Arrive(a) \/ Depart(a) \/ Leave(a) \/ Die(a)
  PROVE  ActorStep(a) /\ TypeInv'
<1> USE DEF ActorStep
<1>t. TypeInv /\ BusyOf(a) /\ FramingOf(a) /\ inb \in [Deliveries -> Inbound]
  BY Zenon DEF IInv, BusyInv, FramingInv, TypeInv
<1>1. CASE Arrive(a) \/ Depart(a)
  <2>1. /\ wpc[a] # "exited" /\ framing[a] = 0
        /\ \E x \in {"arrived", "leaving", "cancelled"} : Become(a, x)
        /\ UNCHANGED <<hpc, at, phase, custody, stopped, reaped, framing, step, done, slotVars>>
    BY <1>1 DEF Arrive, Depart, Become, hostVars
  <2>2. PICK x \in {"arrived", "leaving", "cancelled"} : Become(a, x)
    BY Zenon, <2>1
  <2>3. x \in WorkerPc /\ x \notin Busy
    BY DEF WorkerPc, Busy
  <2>4. /\ wpc' \in [Actors -> WorkerPc] /\ wpc'[a] = x
        /\ \A b \in Actors \ {a} : wpc'[b] = wpc[b]
    BY Zenon, <1>t, <2>2, <2>3, BecomeForm
  <2>5. Control(a)
    BY Zenon, <2>1, <2>3, <2>4 DEF Control
  <2>6. WritesOutbound(a) /\ WritesInbound(a)
    BY Zenon, <2>1, SlotsSame
  <2>7. TypeInv'
    BY Zenon, <1>t, <2>1, <2>4 DEF TypeInv, slotVars
  <2> QED
    BY Zenon, <2>5, <2>6, <2>7
<1>2. CASE Leave(a)
  <2>1. /\ wpc[a] \in {"leaving", "cancelled"} /\ Become(a, "exited") /\ done' \subseteq Actors
        /\ UNCHANGED <<hpc, at, phase, custody, stopped, reaped, framing, step, out, cell>>
    BY <1>t, <1>2 DEF Leave, hostVars, TypeInv
  <2>2. framing[a] = 0 /\ wpc[a] # "exited"
    BY <1>t, <2>1 DEF FramingOf
  <2>3. /\ wpc' \in [Actors -> WorkerPc] /\ wpc'[a] = "exited"
        /\ \A b \in Actors \ {a} : wpc'[b] = wpc[b]
    BY Zenon, <1>t, <2>1, BecomeForm DEF WorkerPc
  <2>4. Control(a)
    BY Zenon, <2>1, <2>2, <2>3 DEF Control
  <2>5. inb' = [d \in Deliveries |-> IF d \in erasable(a) THEN [inb[d] EXCEPT !.bytes = "empty"]
                                     ELSE inb[d]]
    BY Zenon, <1>2 DEF Leave
  <2>6. ASSUME NEW d \in Deliveries
        PROVE  /\ inb'[d] \in Inbound
               /\ inb'[d].committed = inb[d].committed
               /\ inb'[d].acknowledged = inb[d].acknowledged
               /\ inb'[d].settled = inb[d].settled
               /\ d \notin erasable(a) => inb'[d].bytes = inb[d].bytes
               /\ d \in erasable(a) => inb'[d].bytes = "empty"
    <3>1. inb[d] \in Inbound
      BY <1>t
    <3>2. inb'[d] = IF d \in erasable(a) THEN [inb[d] EXCEPT !.bytes = "empty"] ELSE inb[d]
      BY <2>5
    <3> QED
      BY ONLY <3>1, <3>2 DEF Inbound, Bytes
  <2>7. WritesOutbound(a)
    BY <2>1 DEF WritesOutbound
  <2>8. WritesInbound(a)
    BY Zenon, <2>1, <2>3, <2>6 DEF WritesInbound, erasable
  <2>9. inb' \in [Deliveries -> Inbound]
    BY <2>5, <2>6
  <2>10. TypeInv'
    BY Zenon, <1>t, <2>1, <2>3, <2>9 DEF TypeInv
  <2> QED
    BY Zenon, <2>4, <2>7, <2>8, <2>10
<1>3. CASE Die(a)
  <2>1. /\ wpc[a] # "exited" /\ Gone({a}) /\ {a} \in SUBSET Actors
        /\ UNCHANGED <<hpc, at, phase, custody, stopped, reaped, step, done, slotVars>>
    BY Zenon, <1>3 DEF Die, hostVars
  <2>2. /\ wpc' \in [Actors -> WorkerPc] /\ framing' \in [Actors -> Nat]
        /\ \A b \in Actors : b \in {a} => wpc'[b] = "exited" /\ framing'[b] = 0
        /\ \A b \in Actors : b \notin {a} => wpc'[b] = wpc[b] /\ framing'[b] = framing[b]
    BY Zenon, <1>t, <2>1, GoneForm
  <2>3. Control(a)
    BY Zenon, <2>1, <2>2 DEF Control
  <2>4. WritesOutbound(a) /\ WritesInbound(a)
    BY Zenon, <2>1, SlotsSame
  <2>5. TypeInv'
    BY Zenon, <1>t, <2>1, <2>2 DEF TypeInv, slotVars
  <2> QED
    BY Zenon, <2>3, <2>4, <2>5
<1> QED
  BY Zenon, <1>1, <1>2, <1>3

LEMMA ActorSteps ==
  ASSUME IInv, NEW a \in Actors, Worker(a)
  PROVE  ActorStep(a) /\ TypeInv'
BY Zenon, SourceSteps, FramingSteps, RecipientSteps, LifeSteps DEF Worker

-----------------------------------------------------------------------------
(* The actors keep the invariant.                                           *)

\* One actor is at an operation.
LEMMA OneBusy ==
  ASSUME BusyInv, NEW a \in Actors, NEW b \in Actors, wpc[a] \in Busy, wpc[b] \in Busy
  PROVE  a = b
BY Zenon DEF BusyInv, BusyOf

LEMMA PlaceByActor ==
  ASSUME IInv, NEW a \in Actors, ActorStep(a)
  PROVE  PlaceInv' /\ step' \in {step, step + 1}
<1>1. PlaceInv /\ UNCHANGED <<hpc, phase>>
  BY Zenon DEF IInv, ActorStep, Control
<1>2. CASE step' = step
  BY Zenon, <1>1, <1>2 DEF PlaceInv
<1>3. CASE step' # step
  <2>1. step' = step + 1 /\ step \in Steps /\ wpc[a] \in Busy
    BY Zenon, <1>3 DEF ActorStep, Control
  <2>2. Plan[step].phase = phase /\ hpc # "arrival" /\ phase \in Nat
    BY Zenon, <2>1 DEF IInv, BusyInv, BusyOf, TypeInv
  <2>3. ASSUME NEW j \in Steps, Plan[j].phase > phase PROVE step + 1 <= j
    <3>1. step <= j
      BY Zenon, <1>1, <2>3 DEF PlaceInv
    <3>2. step # j
      BY <2>2, <2>3
    <3> QED
      BY <2>1, <3>1, <3>2, PlanType
  <2> QED
    BY Zenon, <1>1, <2>1, <2>2, <2>3 DEF PlaceInv
<1> QED
  BY Zenon, <1>2, <1>3

\* A copy that can be consumed stays so.
LEMMA ConsumableByActor ==
  ASSUME IInv, NEW a \in Actors, ActorStep(a), NEW d \in Deliveries, consumable(d)
  PROVE  consumable(d)'
<1>1. framing[a] # d
  <2>1. framing[a] # 0 => inb[framing[a]].acknowledged = "none"
    BY Zenon DEF IInv, FramingInv, FramingOf, unanswered
  <2>2. d # 0 /\ inb[d].acknowledged = "accepted"
    BY Zenon, DeliveryType DEF consumable
  <2> QED
    BY <2>1, <2>2
<1> QED
  BY Zenon, <1>1 DEF ActorStep, WritesInbound, consumable

LEMMA BusyByActor ==
  ASSUME IInv, NEW a \in Actors, ActorStep(a)
  PROVE  BusyInv'
<1>1. BusyInv /\ Control(a) /\ UNCHANGED <<hpc, phase>>
  BY Zenon DEF IInv, ActorStep, Control
<1>2. ASSUME NEW b \in Actors, BusyOf(b), wpc'[b] = wpc[b], step' = step PROVE BusyOf(b)'
  <2>1. CASE wpc[b] = "consuming"
    <3>1. step \in Steps /\ Plan[step].op = "consume" /\ consumable(Plan[step].of)
      BY Zenon, <1>2, <2>1 DEF BusyOf, Busy
    <3>2. Plan[step].of \in Deliveries
      BY Zenon, <3>1, DeliveryType
    <3>3. consumable(Plan[step].of)'
      BY Zenon, <1>2, <3>1, <3>2, ConsumableByActor
    <3> QED
      BY Zenon, <1>1, <1>2, <2>1, <3>3 DEF BusyOf
  <2>2. CASE wpc[b] # "consuming"
    BY Zenon, <1>1, <1>2, <2>2 DEF BusyOf
  <2> QED
    BY Zenon, <2>1, <2>2
<1>3. ASSUME NEW b \in Actors \ {a} PROVE BusyOf(b)'
  <2>1. wpc'[b] = wpc[b] /\ BusyOf(b) /\ b \in Actors
    BY Zenon, <1>1 DEF Control, BusyInv
  <2>2. CASE step' = step
    BY Zenon, <1>2, <2>1, <2>2
  <2>3. CASE step' # step
    <3>1. wpc[a] \in Busy
      BY Zenon, <1>1, <2>3 DEF Control
    <3>2. wpc[b] \notin Busy
      BY Zenon, <1>1, <1>3, <2>1, <3>1, OneBusy
    <3> QED
      BY <2>1, <3>2 DEF BusyOf, Busy
  <2> QED
    BY Zenon, <2>2, <2>3
<1>4. BusyOf(a)'
  <2>0. BusyOf(a)
    BY Zenon, <1>1 DEF BusyInv
  <2>1. CASE step' = step /\ wpc'[a] = wpc[a]
    BY Zenon, <1>2, <2>0, <2>1
  <2>2. CASE wpc'[a] \notin Busy
    BY <2>2 DEF BusyOf, Busy
  <2>3. CASE step' # step /\ wpc'[a] \in Busy
    <3>1. /\ step' = step + 1 /\ step \in Steps /\ wpc[a] \in Busy /\ wpc'[a] = "acting"
          /\ step + 1 \in Steps /\ Plan[step + 1].phase = Plan[step].phase
      BY <1>1, <2>3 DEF Control, Busy
    <3>2. Plan[step].actor = a /\ Plan[step].phase = phase /\ hpc \notin {"next", "arrival"}
      BY Zenon, <2>0, <3>1 DEF BusyOf
    <3>3. Plan[step + 1].actor = Plan[step].actor
      BY Zenon, <3>1, PlanAssumption
    <3> QED
      BY <1>1, <3>1, <3>2, <3>3 DEF BusyOf
  <2>4. CASE step' = step /\ wpc'[a] # wpc[a] /\ wpc'[a] \in Busy
    <3>1. \/ wpc[a] = "acting" /\ wpc'[a] = "publishing" /\ Plan[step].op = "issue"
          \/ wpc[a] = "publishing" /\ wpc'[a] = "exchange"
          \/ wpc[a] = "acting" /\ wpc'[a] = "exchange" /\ Plan[step].op = "transfer"
          \/ /\ wpc[a] = "acting" /\ wpc'[a] = "consuming" /\ Plan[step].op = "consume"
             /\ consumable(Plan[step].of)
      <4>1. "exited" \notin Busy /\ step + 1 # step
        BY PlanType DEF IInv, TypeInv, Busy
      <4> QED
        BY Zenon, <1>1, <2>4, <4>1 DEF Control
    <3>2. wpc[a] \in Busy
      BY <3>1 DEF Busy
    <3>3. /\ step \in Steps /\ Plan[step].actor = a /\ Plan[step].phase = phase
          /\ hpc \notin {"next", "arrival"}
          /\ wpc[a] = "publishing" => Plan[step].op = "issue"
      BY Zenon, <2>0, <3>2 DEF BusyOf
    <3>4. wpc'[a] = "consuming" => consumable(Plan[step].of)'
      <4>1. Plan[step].op = "consume" => Plan[step].of \in Deliveries
        BY Zenon, <3>3, DeliveryType
      <4>2. wpc'[a] = "consuming" => Plan[step].op = "consume" /\ consumable(Plan[step].of)
        BY <3>1
      <4> QED
        BY Zenon, <2>4, <4>1, <4>2, ConsumableByActor
    <3> QED
      BY <1>1, <2>4, <3>1, <3>3, <3>4 DEF BusyOf
  <2> QED
    BY Zenon, <2>1, <2>2, <2>3, <2>4
<1> QED
  BY Zenon, <1>3, <1>4 DEF BusyInv

LEMMA FramingByActor ==
  ASSUME IInv, NEW a \in Actors, ActorStep(a)
  PROVE  FramingInv'
<1>1. FramingInv /\ Control(a) /\ WritesInbound(a)
  BY Zenon DEF IInv, ActorStep
<1>2. ASSUME NEW b \in Actors, NEW d \in unanswered(b), framing[a] # d \/ framing'[a] # 0
      PROVE  d \in unanswered(b)'
  BY Zenon, <1>1, <1>2 DEF unanswered, WritesInbound
<1>3. ASSUME NEW b \in Actors \ {a} PROVE FramingOf(b)'
  <2>1. /\ wpc'[b] = wpc[b] /\ framing'[b] = framing[b] /\ reaped' = reaped /\ b \in Actors
        /\ FramingOf(a) /\ FramingOf(b)
    BY Zenon, <1>1 DEF Control, FramingInv
  <2>2. ASSUME framing[b] # 0 PROVE framing[b] \in unanswered(b)'
    <3>1. framing[b] \in unanswered(b) /\ recipient[framing[b]] = b
      BY Zenon, <2>1, <2>2 DEF FramingOf, unanswered
    <3>2. framing[a] # 0 => recipient[framing[a]] = a
      BY Zenon, <2>1 DEF FramingOf, unanswered
    <3>3. framing[a] # framing[b]
      BY <2>2, <3>1, <3>2
    <3> QED
      BY Zenon, <1>2, <2>1, <3>1, <3>3
  <2> QED
    BY Zenon, <2>1, <2>2 DEF FramingOf
<1>4. FramingOf(a)'
  <2>1. FramingOf(a) /\ reaped' = reaped /\ wpc[a] # "exited"
    BY Zenon, <1>1 DEF Control, FramingInv
  <2>2. a \notin reaped'
    BY Zenon, <2>1 DEF FramingOf
  <2>3. ASSUME framing'[a] # 0
        PROVE  framing'[a] \in unanswered(a) /\ wpc'[a] \in {"parked", "exchange"}
    <3>1. /\ wpc'[a] = wpc[a]
          /\ \/ framing'[a] = framing[a]
             \/ wpc[a] \in servicing /\ framing'[a] \in unanswered(a)
      BY <1>1, <2>3 DEF Control
    <3> QED
      BY Zenon, <2>1, <2>3, <3>1 DEF FramingOf, servicing
  <2>4. framing'[a] # 0 => framing'[a] \in unanswered(a)'
    BY Zenon, <1>2, <2>3
  <2> QED
    BY Zenon, <2>2, <2>3, <2>4 DEF FramingOf
<1> QED
  BY Zenon, <1>3, <1>4 DEF FramingInv

LEMMA StepIsNatural ==
  ASSUME TypeInv
  PROVE  step \in Nat
BY PlanType DEF TypeInv

LEMMA OutboundByActor ==
  ASSUME IInv, NEW a \in Actors, ActorStep(a)
  PROVE  OutboundInv'
<1>1. /\ OutboundInv /\ Control(a) /\ WritesOutbound(a) /\ BusyInv
      /\ UNCHANGED <<hpc, at, phase, custody>>
  BY Zenon DEF IInv, ActorStep, Control
<1>2. step \in Nat /\ step' \in {step, step + 1}
  BY Zenon, PlaceByActor, StepIsNatural DEF IInv
<1>3. ASSUME NEW t \in Tokens, out[t].committed
      PROVE  /\ issueStep[t] <= step'
             /\ issueStep[t] = step' => \A b \in Actors : wpc'[b] \notin {"acting", "publishing"}
  <2>1. /\ issueStep[t] <= step /\ issueStep[t] \in Nat
        /\ issueStep[t] = step => \A b \in Actors : wpc[b] \notin {"acting", "publishing"}
    BY Zenon, <1>1, <1>3, IssueSteps, PlanType DEF OutboundInv, OutboundOf
  <2>2. CASE step' = step + 1
    BY <1>2, <2>1, <2>2
  <2>3. CASE step' = step
    <3>1. ASSUME issueStep[t] = step, NEW b \in Actors PROVE wpc'[b] \notin {"acting", "publishing"}
      <4>1. CASE b # a
        BY Zenon, <1>1, <2>1, <3>1, <4>1 DEF Control
      <4>2. CASE b = a
        <5>1. wpc[a] \notin {"acting", "publishing"} /\ step + 1 # step
          BY <1>2, <2>1, <3>1
        <5>2. \/ wpc'[a] \notin Busy \/ wpc'[a] = "exchange" \/ wpc'[a] = "exited"
              \/ wpc'[a] = wpc[a]
          BY <1>1, <2>3, <5>1 DEF Control
        <5> QED
          BY <4>2, <5>1, <5>2 DEF Busy
      <4> QED
        BY Zenon, <4>1, <4>2
    <3> QED
      BY Zenon, <2>1, <2>3, <3>1
  <2> QED
    BY Zenon, <1>2, <2>2, <2>3
<1>4. ASSUME NEW t \in Tokens, out'[t].committed # out[t].committed
      PROVE  /\ issueStep[t] = step' /\ Plan[issueStep[t]].phase = phase /\ hpc # "arrival"
             /\ out'[t].committed
             /\ \A b \in Actors : wpc'[b] \notin {"acting", "publishing"}
  <2>1. /\ wpc[a] = "publishing" /\ wpc'[a] = "exchange" /\ step' = step /\ t = Plan[step].of
        /\ out'[t].committed
    BY Zenon, <1>1, <1>4 DEF WritesOutbound
  <2>2. wpc[a] \in Busy
    BY <2>1 DEF Busy
  <2>3. step \in Steps /\ Plan[step].op = "issue" /\ Plan[step].phase = phase /\ hpc # "arrival"
    BY Zenon, <1>1, <2>1, <2>2 DEF BusyInv, BusyOf
  <2>4. issueStep[t] = step
    BY Zenon, <2>1, <2>3, IssueSteps
  <2>5. ASSUME NEW b \in Actors PROVE wpc'[b] \notin {"acting", "publishing"}
    <3>1. CASE b = a
      BY <2>1, <3>1
    <3>2. CASE b # a
      <4>1. wpc[b] \notin Busy /\ wpc'[b] = wpc[b]
        BY Zenon, <1>1, <2>2, <3>2, OneBusy DEF Control
      <4> QED
        BY <4>1 DEF Busy
    <3> QED
      BY Zenon, <3>1, <3>2
  <2> QED
    BY Zenon, <2>1, <2>3, <2>4, <2>5
<1>5. ASSUME NEW t \in Tokens PROVE OutboundOf(t)'
  <2>1. OutboundOf(t) /\ out'[t].acknowledged = out[t].acknowledged
    BY Zenon, <1>1 DEF OutboundInv, WritesOutbound
  <2>2. CASE out'[t].committed = out[t].committed
    <3>1. out[t].committed =>
            /\ issueStep[t] <= step'
            /\ issueStep[t] = step' => \A b \in Actors : wpc'[b] \notin {"acting", "publishing"}
      BY Zenon, <1>3
    <3> QED
      BY Zenon, <1>1, <2>1, <2>2, <3>1 DEF OutboundOf
  <2>3. CASE out'[t].committed # out[t].committed
    <3>1. /\ issueStep[t] = step' /\ Plan[issueStep[t]].phase = phase /\ hpc # "arrival"
          /\ out'[t].committed
          /\ \A b \in Actors : wpc'[b] \notin {"acting", "publishing"}
      BY Zenon, <1>4, <2>3
    <3>2. step' <= step' /\ phase <= phase
      BY <1>2 DEF IInv, TypeInv
    <3> QED
      BY Zenon, <1>1, <2>1, <3>1, <3>2 DEF OutboundOf
  <2> QED
    BY Zenon, <2>2, <2>3
<1>6. hpc' = "copy" => at' \in Tokens /\ out'[at'].committed /\ out'[at'].acknowledged = "none"
  BY Zenon, <1>1, <1>4 DEF OutboundInv, WritesOutbound
<1> QED
  BY Zenon, <1>5, <1>6 DEF OutboundInv

LEMMA InboundByActor ==
  ASSUME IInv, NEW a \in Actors, ActorStep(a)
  PROVE  InboundInv'
<1>1. /\ InboundInv /\ WritesOutbound(a) /\ WritesInbound(a) /\ FramingOf(a)
      /\ UNCHANGED <<hpc, at, custody>>
  BY Zenon DEF IInv, ActorStep, Control, FramingInv
<1>2. ASSUME NEW d \in Deliveries PROVE InboundOf(d)'
  <2>1. /\ InboundOf(d) /\ cell'[d].acknowledged = cell[d].acknowledged
        /\ inb'[d].committed = inb[d].committed /\ inb'[d].settled = inb[d].settled
    BY Zenon, <1>1 DEF InboundInv, WritesInbound
  <2>2. out'[Delivery[d].token].acknowledged = out[Delivery[d].token].acknowledged
    BY Zenon, <1>1, DeliveryType DEF WritesOutbound
  <2>3. \/ inb'[d].acknowledged = inb[d].acknowledged
        \/ inb[d].committed /\ inb[d].acknowledged = "none"
    <3>1. d # 0
      BY DeliveryType
    <3> QED
      BY Zenon, <1>1, <3>1 DEF WritesInbound, FramingOf, unanswered
  <2>4. ~inb[d].committed => inb'[d].acknowledged = "none"
    BY Zenon, <2>1, <2>3 DEF InboundOf
  <2>5. Serving(d) /\ hpc = "compare" => inb'[d].acknowledged = "accepted"
    <3>1. Serving(d) /\ hpc = "compare" => inb[d].acknowledged = "accepted"
      BY Zenon, <2>1 DEF InboundOf
    <3> QED
      BY <2>3, <3>1
  <2>6. Serving(d)' <=> Serving(d)
    BY Zenon, <1>1 DEF Serving
  <2> QED
    BY Zenon, <1>1, <2>1, <2>2, <2>4, <2>5, <2>6 DEF InboundOf
<1> QED
  BY Zenon, <1>1, <1>2 DEF InboundInv

LEMMA BytesByActor ==
  ASSUME IInv, NEW a \in Actors, ActorStep(a)
  PROVE  BytesInv'
<1>1. /\ BytesInv /\ Control(a) /\ WritesInbound(a) /\ step \in Nat /\ step' \in {step, step + 1}
  BY Zenon, PlaceByActor, StepIsNatural DEF IInv, ActorStep
<1>2. SUFFICES ASSUME NEW d \in Deliveries, inb'[d].settled = "usable", inb'[d].bytes # "token"
               PROVE  \/ wpc'[recipient[d]] = "exited"
                      \/ \A j \in Steps : Plan[j].op = "consume" /\ Plan[j].of = d => j < step'
  BY Zenon DEF BytesInv, BytesOf
<1>3. inb[d].settled = "usable"
  BY Zenon, <1>1, <1>2 DEF WritesInbound
<1>4. CASE inb'[d].bytes = inb[d].bytes
  <2>1. \/ wpc[recipient[d]] = "exited"
        \/ \A j \in Steps : Plan[j].op = "consume" /\ Plan[j].of = d => j < step
    BY Zenon, <1>1, <1>2, <1>3, <1>4 DEF BytesInv, BytesOf
  <2>2. wpc[recipient[d]] = "exited" => wpc'[recipient[d]] = "exited"
    BY Zenon, <1>1, DeliveryType DEF Control
  <2>3. \A j \in Steps : j < step => j < step'
    BY <1>1, PlanType
  <2> QED
    BY Zenon, <2>1, <2>2, <2>3
<1>5. CASE inb'[d].bytes # inb[d].bytes
  <2>1. \/ wpc'[recipient[d]] = "exited"
        \/ Plan[step].of = d /\ last_use[step] /\ step' = step + 1 /\ step \in Steps
    <3>1. "host" # "usable"
      OBVIOUS
    <3>2. wpc[a] = "consuming" => step \in Steps
      BY DEF IInv, BusyInv, BusyOf, Busy
    <3> QED
      BY Zenon, <1>1, <1>3, <1>5, <3>1, <3>2 DEF WritesInbound
  <2>2. ASSUME Plan[step].of = d, last_use[step], step' = step + 1, step \in Steps,
               NEW j \in Steps, Plan[j].op = "consume", Plan[j].of = d
        PROVE  j < step'
    <3>1. j <= step
      BY Zenon, <2>2 DEF last_use
    <3> QED
      BY <2>2, <3>1, PlanType
  <2> QED
    BY Zenon, <2>1, <2>2
<1> QED
  BY Zenon, <1>4, <1>5

LEMMA ErasedByActor ==
  ASSUME IInv, NEW a \in Actors, ActorStep(a)
  PROVE  ErasedInv'
<1>1. /\ ErasedInv /\ WritesOutbound(a) /\ WritesInbound(a) /\ FramingOf(a) /\ BusyOf(a)
      /\ UNCHANGED <<hpc, custody, reaped>> /\ wpc[a] # "exited"
  BY Zenon DEF IInv, ActorStep, Control, FramingInv, BusyInv
<1>2. a \notin reaped
  BY Zenon, <1>1 DEF FramingOf
<1>3. ASSUME NEW t \in Tokens, issuer[t] \in reaped PROVE out'[t].bytes = out[t].bytes
  <2>1. \A i \in Steps : Plan[i].op = "issue" /\ Plan[i].of = t => issuer[t] = Plan[i].actor
    BY Zenon, IssueSteps
  <2> QED
    BY Zenon, <1>1, <1>2, <1>3, <2>1 DEF WritesOutbound
<1>4. ASSUME NEW d \in Deliveries, recipient[d] \in reaped
      PROVE  inb'[d].bytes = inb[d].bytes
  <2>1. framing[a] = d => recipient[d] = a
    <3>1. d # 0
      BY DeliveryType
    <3> QED
      BY Zenon, <1>1, <3>1 DEF FramingOf, unanswered
  <2>2. wpc[a] = "consuming" /\ Plan[step].of = d => recipient[d] = a
    <3>1. wpc[a] = "consuming" =>
            step \in Steps /\ Plan[step].actor = a /\ Plan[step].op = "consume"
      BY <1>1 DEF BusyOf, Busy
    <3> QED
      BY Zenon, <3>1, DeliveryType
  <2> QED
    BY Zenon, <1>1, <1>2, <1>4, <2>1, <2>2 DEF WritesInbound
<1> QED
  BY Zenon, <1>1, <1>3, <1>4 DEF ErasedInv

LEMMA ActorKeeps ==
  ASSUME IInv, NEW a \in Actors, Worker(a)
  PROVE  IInv'
<1>1. ActorStep(a) /\ TypeInv'
  BY Zenon, ActorSteps
<1> QED
  BY Zenon, <1>1, PlaceByActor, BusyByActor, FramingByActor, OutboundByActor, InboundByActor,
     BytesByActor, ErasedByActor DEF IInv

-----------------------------------------------------------------------------
(* What a step of the host may do.                                          *)

\* The host goes on and writes nothing.
Turn ==
  /\ UNCHANGED <<out, inb, cell, wpc, framing, step, done, custody, stopped, reaped>>
  /\ \/ hpc = "next" /\ hpc' \in {"next", "arrival"} /\ phase' = phase + 1 /\ phase' \in Phases
     \/ hpc = "next" /\ hpc' = "finish" /\ phase' = phase
     \/ /\ hpc \in {"arrival", "outbound", "transfer", "completion"} /\ phase' = phase
        /\ hpc' \in {"outbound", "transfer", "completion", "stop"}
     \/ /\ hpc = "completion" /\ hpc' = "next" /\ phase' = phase
        /\ \A a \in Actors : wpc[a] \notin Busy
     \/ /\ hpc = "outbound" /\ hpc' = "copy" /\ phase' = phase
        /\ at' \in Tokens /\ out[at'].committed /\ out[at'].acknowledged = "none"
     \/ /\ hpc = "transfer" /\ hpc' = "deliver" /\ phase' = phase /\ at' \in Deliveries
        /\ cell[at'].acknowledged = "none" /\ custody[Delivery[at'].token] = "held"
     \/ /\ hpc \in {"wait", "usable"} /\ hpc' \in Waiting /\ at' = at /\ phase' = phase
        /\ hpc' = "compare" => inb[at].acknowledged = "accepted"

\* The host lets the active actor begin.
Releases ==
  /\ hpc = "arrival" /\ hpc' = "outbound"
  /\ step' = Min(stepsOf[phase])
  /\ wpc[actorOf[phase]] = "arrived" /\ wpc'[actorOf[phase]] = "acting"
  /\ \A b \in Actors : b # actorOf[phase] => wpc'[b] = wpc[b]
  /\ UNCHANGED <<out, inb, cell, framing, done, phase, custody, stopped, reaped>>

\* It takes a token into custody.
Takes ==
  /\ hpc = "copy" /\ hpc' = "outbound"
  /\ \E r \in {"accepted", "rejected"} :
       /\ out'[at].acknowledged = r
       /\ custody'[at] = custody[at] \/ (r = "accepted" /\ custody'[at] \in {"held", "erased"})
  /\ \A t \in Tokens : /\ out'[t].committed = out[t].committed
                       /\ t # at => /\ out'[t].acknowledged = out[t].acknowledged
                                    /\ custody'[t] = custody[t]
  /\ UNCHANGED <<inb, cell, wpc, framing, step, done, phase, stopped, reaped>>

\* It answers a request: refused, withdrawn or delivered.
Answering ==
  /\ hpc' = "completion" /\ at \in Deliveries /\ cell[at].acknowledged = "none"
  /\ cell'[at].acknowledged \in Answers \ {"none"}
  /\ \A d \in Deliveries : d # at => cell'[d].acknowledged = cell[d].acknowledged
  /\ \A t \in Tokens : custody'[t] \in {custody[t], "erased"}
  /\ lastUseSlot[Delivery[at].token] = transferStep[at] =>
       custody'[Delivery[at].token] = "erased"
  /\ \A d \in Deliveries : /\ inb'[d].bytes = inb[d].bytes
                           /\ inb'[d].committed = inb[d].committed
                           /\ inb'[d].acknowledged = inb[d].acknowledged
                           /\ d # at => inb'[d].settled = inb[d].settled
  /\ \/ /\ hpc = "transfer" /\ inb'[at].settled = inb[at].settled
        /\ \/ cell'[at].acknowledged \in {"custody_unavailable", "request_invalid"}
           \/ /\ cell'[at].acknowledged = "recipient_unavailable"
              /\ custody[Delivery[at].token] = "held"
     \/ /\ hpc \in Waiting /\ inb'[at].settled = "withdrawn"
        /\ cell'[at].acknowledged # "delivered"
     \/ /\ hpc = "settled" /\ inb'[at].settled = inb[at].settled
        /\ cell'[at].acknowledged = "delivered"
  /\ UNCHANGED <<out, wpc, framing, step, done, phase, stopped, reaped>>

\* It writes the recipient's copy, and gives it away once the copy is found equal.
Delivers ==
  /\ hpc = "deliver" /\ hpc' = "wait" /\ at' = at
  /\ inb'[at].committed /\ inb'[at].acknowledged = "none"
  /\ inb'[at].settled = inb[at].settled
  /\ \A d \in Deliveries : d # at => /\ inb'[d].bytes = inb[d].bytes
                                     /\ inb'[d].committed = inb[d].committed
                                     /\ inb'[d].acknowledged = inb[d].acknowledged
                                     /\ inb'[d].settled = inb[d].settled
  /\ UNCHANGED <<out, cell, wpc, framing, step, done, phase, custody, stopped, reaped>>
Settles ==
  /\ hpc = "compare" /\ hpc' = "settled" /\ at' = at
  /\ inb[at].bytes = "token" /\ inb'[at].settled = "usable"
  /\ \A d \in Deliveries : /\ inb'[d].bytes = inb[d].bytes
                           /\ inb'[d].committed = inb[d].committed
                           /\ inb'[d].acknowledged = inb[d].acknowledged
                           /\ d # at => inb'[d].settled = inb[d].settled
  /\ UNCHANGED <<out, cell, wpc, framing, step, done, phase, custody, stopped, reaped>>

\* It stops actors; those it could reap are gone.
Stops ==
  /\ hpc \in {"stop", "finish"} /\ hpc' \in {"next", "finish", "erase"}
  /\ \E G \in SUBSET Actors :
       /\ reaped' = reaped \cup G
       /\ \A b \in Actors : b \in G => wpc'[b] = "exited" /\ framing'[b] = 0
       /\ \A b \in Actors : b \notin G => wpc'[b] = wpc[b] /\ framing'[b] = framing[b]
  /\ hpc' = "next" => \A b \in Actors : wpc'[b] \notin Busy
  /\ UNCHANGED <<out, inb, cell, step, done, phase, custody>>

\* It erases what is left, where nobody can be writing.
Erases ==
  /\ hpc = "erase" /\ hpc' = "finished"
  /\ \A t \in Tokens : /\ custody'[t] = "erased"
                       /\ out'[t].committed = out[t].committed
                       /\ out'[t].acknowledged = out[t].acknowledged
                       /\ issuer[t] \in reaped => out'[t].bytes = "empty"
  /\ \A d \in Deliveries : /\ inb'[d].committed = inb[d].committed
                           /\ inb'[d].acknowledged = inb[d].acknowledged
                           /\ inb'[d].settled = inb[d].settled
                           /\ recipient[d] \in reaped => inb'[d].bytes = "empty"
                           /\ recipient[d] \notin reaped => inb'[d].bytes = inb[d].bytes
  /\ UNCHANGED <<cell, wpc, framing, step, done, phase, stopped, reaped>>

HostStep ==
  Turn \/ Releases \/ Takes \/ Answering \/ Delivers \/ Settles \/ Stops \/ Erases

LEMMA TurnSteps ==
  ASSUME IInv, \/ NextPhase \/ ScanOutbound \/ KeepWaiting \/ CheckCompletion \/ VisitFails
  PROVE  Turn /\ TypeInv'
<1>t. TypeInv /\ PlaceInv
  BY Zenon DEF IInv
<1>u. /\ at' \in Nat /\ hpc' \in HostPc /\ phase' \in Nat
      /\ UNCHANGED <<out, inb, cell, wpc, framing, step, done, custody, stopped, reaped>>
      => TypeInv'
  BY Zenon, <1>t DEF TypeInv
<1>1. CASE NextPhase
  <2>1. /\ hpc = "next" /\ at' = 1
        /\ UNCHANGED <<out, inb, cell, wpc, framing, step, done, custody, stopped, reaped>>
    BY <1>1 DEF NextPhase, Goto, slotVars, workerVars
  <2>2. \/ hpc' \in {"next", "arrival"} /\ phase' = phase + 1 /\ phase' \in Phases
        \/ hpc' = "finish" /\ phase' = phase
    BY <1>1 DEF NextPhase, Goto
  <2>3. phase' \in Nat /\ hpc' \in HostPc
    BY <1>t, <2>2 DEF TypeInv, HostPc
  <2>4. TypeInv'
    BY <1>u, <2>1, <2>3
  <2> QED
    BY Zenon, <2>1, <2>2, <2>4 DEF Turn
<1>2. CASE ScanOutbound
  <2>1. /\ hpc = "outbound" /\ phase' = phase
        /\ UNCHANGED <<out, inb, cell, wpc, framing, step, done, custody, stopped, reaped>>
    BY <1>2 DEF ScanOutbound, HostOnly, slotVars, workerVars
  <2>2. /\ at' \in Nat
        /\ \/ hpc' \in {"outbound", "transfer"}
           \/ /\ hpc' = "copy" /\ at' \in Tokens
              /\ out[at'].committed /\ out[at'].acknowledged = "none"
    BY <1>t, <1>2 DEF ScanOutbound, Goto, committedOutbound, TypeInv
  <2>3. phase' \in Nat /\ hpc' \in HostPc
    BY <1>t, <2>1, <2>2 DEF TypeInv, HostPc, Visiting
  <2>4. TypeInv'
    BY <1>u, <2>1, <2>2, <2>3
  <2> QED
    BY <2>1, <2>2, <2>4 DEF Turn
<1>3. CASE KeepWaiting
  <2>1. /\ hpc = "usable" /\ hpc' = "wait" /\ at' = at /\ phase' = phase
        /\ UNCHANGED <<out, inb, cell, wpc, framing, step, done, custody, stopped, reaped>>
    BY <1>3 DEF KeepWaiting, Goto, HostOnly, slotVars, workerVars
  <2>2. at' \in Nat /\ phase' \in Nat /\ hpc' \in HostPc /\ hpc' \in Waiting
    BY <1>t, <2>1 DEF TypeInv, HostPc, Visiting, Delivering, Waiting
  <2>3. TypeInv'
    BY <1>u, <2>1, <2>2
  <2> QED
    BY <2>1, <2>2, <2>3 DEF Turn
<1>4. CASE CheckCompletion
  <2>1. /\ hpc = "completion" /\ at' = 1 /\ phase' = phase
        /\ UNCHANGED <<out, inb, cell, wpc, framing, step, done, custody, stopped, reaped>>
    BY <1>4 DEF CheckCompletion, Goto, HostOnly, slotVars, workerVars
  <2>2. \/ hpc' = "outbound"
        \/ hpc' = "next" /\ step > Max(stepsOf[phase])
    BY <1>4 DEF CheckCompletion, Goto, completed
  <2>3. ASSUME step > Max(stepsOf[phase]), NEW a \in Actors PROVE wpc[a] \notin Busy
    <3>1. phase \in Phases
      BY <1>t, <2>1 DEF PlaceInv, Visiting
    <3>2. \A j \in Steps : Plan[j].phase = phase => j <= Max(stepsOf[phase])
      BY Zenon, <3>1, PhaseSteps
    <3>3. wpc[a] \in Busy => step \in Steps /\ Plan[step].phase = phase
      BY Zenon DEF IInv, BusyInv, BusyOf
    <3>4. Max(stepsOf[phase]) \in Nat
      <4>1. /\ stepsOf[phase] = {i \in Steps : Plan[i].phase = phase}
            /\ Min(stepsOf[phase]) \in Steps /\ Plan[Min(stepsOf[phase])].phase = phase
        BY Zenon, <3>1, PhaseSteps
      <4>2. stepsOf[phase] \in SUBSET Nat /\ stepsOf[phase] # {}
        BY <4>1, PlanType
      <4>3. Len(Plan) \in Nat /\ \A y \in stepsOf[phase] : y <= Len(Plan)
        BY <4>1, PlanType
      <4>4. Max(stepsOf[phase]) \in stepsOf[phase]
        BY Zenon, <4>2, <4>3, MaxIsGreatest
      <4> QED
        BY Zenon, <4>2, <4>4
    <3>5. step \in Nat
      BY Zenon, <1>t, StepIsNatural
    <3> QED
      BY <2>3, <3>2, <3>3, <3>4, <3>5
  <2>4. at' \in Nat /\ phase' \in Nat /\ hpc' \in HostPc
    BY <1>t, <2>1, <2>2 DEF TypeInv, HostPc, Visiting
  <2>5. TypeInv'
    BY <1>u, <2>1, <2>4
  <2> QED
    BY Zenon, <2>1, <2>2, <2>3, <2>5 DEF Turn
<1>5. CASE VisitFails
  <2>1. /\ hpc \in {"arrival", "completion"} /\ hpc' = "stop" /\ at' = 1 /\ phase' = phase
        /\ UNCHANGED <<out, inb, cell, wpc, framing, step, done, custody, stopped, reaped>>
    BY <1>5 DEF VisitFails, Goto, HostOnly, slotVars, workerVars
  <2>2. at' \in Nat /\ phase' \in Nat /\ hpc' \in HostPc
    BY <1>t, <2>1 DEF TypeInv, HostPc
  <2>3. TypeInv'
    BY <1>u, <2>1, <2>2
  <2> QED
    BY <2>1, <2>3 DEF Turn
<1> QED
  BY Zenon, <1>1, <1>2, <1>3, <1>4, <1>5

LEMMA ReleaseSteps ==
  ASSUME IInv, Release
  PROVE  Releases /\ TypeInv'
<1>1. TypeInv /\ PlaceInv
  BY Zenon DEF IInv
<1>2. /\ hpc = "arrival" /\ hpc' = "outbound" /\ at' = 1 /\ wpc[actorOf[phase]] = "arrived"
      /\ step' = Min(stepsOf[phase]) /\ wpc' = [wpc EXCEPT ![actorOf[phase]] = "acting"]
      /\ UNCHANGED <<out, inb, cell, framing, done, phase, custody, stopped, reaped>>
  BY DEF Release, active, Goto, slotVars
<1>3. phase \in Phases
  BY Zenon, <1>1, <1>2 DEF PlaceInv
<1>4. actorOf[phase] \in Actors /\ Min(stepsOf[phase]) \in Steps
  BY Zenon, <1>3, PhaseSteps
<1>5. step' \in 1..Len(Plan) + 1
  BY <1>2, <1>4, PlanType
<1>6. /\ wpc' \in [Actors -> WorkerPc] /\ wpc'[actorOf[phase]] = "acting"
      /\ \A b \in Actors : b # actorOf[phase] => wpc'[b] = wpc[b]
  BY <1>1, <1>2, <1>4 DEF TypeInv, WorkerPc, Busy
<1>7. at' \in Nat /\ hpc' \in HostPc
  BY Zenon, <1>2 DEF HostPc, Visiting
<1>8. TypeInv'
  BY Zenon, <1>1, <1>2, <1>5, <1>6, <1>7 DEF TypeInv
<1> QED
  BY Zenon, <1>2, <1>6, <1>8 DEF Releases

LEMMA AcceptSteps ==
  ASSUME IInv, AcceptOutbound
  PROVE  Takes /\ TypeInv'
<1>1. TypeInv
  BY Zenon DEF IInv
<1>2. /\ hpc = "copy" /\ hpc' = "outbound" /\ at' = at + 1
      /\ UNCHANGED <<inb, cell, wpc, framing, step, done, phase, stopped, reaped>>
  BY DEF AcceptOutbound, Goto, workerVars
<1>3. at \in Tokens
  BY Zenon, <1>2 DEF IInv, OutboundInv
<1>4. PICK r \in {"accepted", "rejected"} :
        /\ out' = [out EXCEPT ![at].bytes = "empty", ![at].acknowledged = r]
        /\ custody' = [custody EXCEPT ![at] =
             IF r = "rejected" THEN @
             ELSE IF lastUseSlot[at] = issueStep[at] THEN "erased" ELSE "held"]
  BY Zenon DEF AcceptOutbound
<1>5. /\ out' \in [Tokens -> Outbound]
      /\ \A t \in Tokens :
           /\ out'[t].bytes = IF t = at THEN "empty" ELSE out[t].bytes
           /\ out'[t].committed = out[t].committed
           /\ out'[t].acknowledged = IF t = at THEN r ELSE out[t].acknowledged
  <2>1. out \in [Tokens -> Outbound] /\ r \in Acknowledgements
    BY <1>1 DEF TypeInv, Acknowledgements
  <2>2. out' = [out EXCEPT ![at].bytes = "empty", ![at].acknowledged = r]
    BY ONLY <1>4
  <2> QED
    BY ONLY Zenon, <2>1, <2>2, OutboundAnswered
<1>6. /\ custody' \in [Tokens -> {"none", "held", "erased"}]
      /\ custody'[at] = custody[at] \/ (r = "accepted" /\ custody'[at] \in {"held", "erased"})
      /\ \A t \in Tokens : t # at => custody'[t] = custody[t]
  BY <1>1, <1>3, <1>4 DEF TypeInv
<1>7. at' \in Nat /\ hpc' \in HostPc
  BY <1>1, <1>2 DEF TypeInv, HostPc, Visiting
<1>8. TypeInv'
  BY Zenon, <1>1, <1>2, <1>5, <1>6, <1>7 DEF TypeInv
<1>9. out'[at].acknowledged = r
  BY Zenon, <1>3, <1>5
<1>10. \A t \in Tokens : /\ out'[t].committed = out[t].committed
                         /\ t # at => /\ out'[t].acknowledged = out[t].acknowledged
                                      /\ custody'[t] = custody[t]
  BY Zenon, <1>5, <1>6
<1>11. \E x \in {"accepted", "rejected"} :
         /\ out'[at].acknowledged = x
         /\ custody'[at] = custody[at] \/ (x = "accepted" /\ custody'[at] \in {"held", "erased"})
  BY Zenon, <1>6, <1>9
<1> QED
  BY Zenon, <1>2, <1>8, <1>10, <1>11 DEF Takes

\* An answer, and the custody it retires.
LEMMA AnswerForm ==
  ASSUME IInv, at \in Deliveries, NEW ack \in Answers \ {"none"}, Answer(at, ack)
  PROVE  /\ hpc' = "completion" /\ at' \in Nat
         /\ cell' \in [Deliveries -> Request]
         /\ cell'[at].acknowledged = ack
         /\ \A d \in Deliveries : d # at => cell'[d].acknowledged = cell[d].acknowledged
         /\ custody' \in [Tokens -> {"none", "held", "erased"}]
         /\ \A t \in Tokens : custody'[t] \in {custody[t], "erased"}
         /\ lastUseSlot[Delivery[at].token] = transferStep[at] =>
              custody'[Delivery[at].token] = "erased"
<1>1. TypeInv
  BY Zenon DEF IInv
<1>2. hpc' = "completion" /\ at' \in Nat
  BY DEF Answer, Goto
<1>3. /\ cell' \in [Deliveries -> Request]
      /\ \A d \in Deliveries :
           /\ cell'[d].requested = cell[d].requested
           /\ cell'[d].acknowledged = IF d = at THEN ack ELSE cell[d].acknowledged
  <2>1. cell \in [Deliveries -> Request] /\ ack \in Answers
    BY Zenon, <1>1 DEF TypeInv
  <2>2. cell' = [cell EXCEPT ![at].acknowledged = ack]
    BY ONLY Answer(at, ack) DEF Answer
  <2> QED
    BY ONLY Zenon, <2>1, <2>2, RequestAnswered
<1>4. Delivery[at].token \in Tokens
  BY Zenon, DeliveryType
<1>5. custody' = IF lastUseSlot[Delivery[at].token] = transferStep[at]
                 THEN [custody EXCEPT ![Delivery[at].token] = "erased"] ELSE custody
  BY DEF Answer, retire
<1>6. /\ custody' \in [Tokens -> {"none", "held", "erased"}]
      /\ \A t \in Tokens : custody'[t] \in {custody[t], "erased"}
      /\ lastUseSlot[Delivery[at].token] = transferStep[at] =>
           custody'[Delivery[at].token] = "erased"
  BY Zenon, <1>1, <1>4, <1>5 DEF TypeInv
<1>7. /\ cell'[at].acknowledged = ack
      /\ \A d \in Deliveries : d # at => cell'[d].acknowledged = cell[d].acknowledged
  BY Zenon, <1>3
<1> QED
  BY Zenon, <1>2, <1>3, <1>6, <1>7

\* An answer that leaves the copy as it is.
LEMMA RefusalForm ==
  ASSUME IInv, at \in Deliveries, cell[at].acknowledged = "none",
         NEW ack \in Answers \ {"none"}, Answer(at, ack),
         \/ /\ hpc = "transfer"
            /\ \/ ack \in {"custody_unavailable", "request_invalid"}
               \/ ack = "recipient_unavailable" /\ custody[Delivery[at].token] = "held"
         \/ hpc = "settled" /\ ack = "delivered",
         UNCHANGED <<out, inb, wpc, framing, step, done, phase, stopped, reaped>>
  PROVE  Answering /\ TypeInv'
<1>1. TypeInv
  BY Zenon DEF IInv
<1>2. /\ hpc' = "completion" /\ at' \in Nat
      /\ cell' \in [Deliveries -> Request]
      /\ cell'[at].acknowledged = ack
      /\ \A d \in Deliveries : d # at => cell'[d].acknowledged = cell[d].acknowledged
      /\ custody' \in [Tokens -> {"none", "held", "erased"}]
      /\ \A t \in Tokens : custody'[t] \in {custody[t], "erased"}
      /\ lastUseSlot[Delivery[at].token] = transferStep[at] =>
           custody'[Delivery[at].token] = "erased"
  BY Zenon, AnswerForm
<1>3. hpc' \in HostPc
  BY <1>2 DEF HostPc, Visiting
<1>4. TypeInv'
  BY Zenon, <1>1, <1>2, <1>3 DEF TypeInv
<1>5. Answering
  BY Zenon, <1>2 DEF Answering
<1> QED
  BY Zenon, <1>4, <1>5

\* An answer that withdraws the copy first.
LEMMA WithdrawalForm ==
  ASSUME IInv, at \in Deliveries, cell[at].acknowledged = "none", hpc \in Waiting,
         NEW ack \in Answers \ {"none", "delivered"}, Answer(at, ack), Settle(at, "withdrawn"),
         UNCHANGED <<out, wpc, framing, step, done, phase, stopped, reaped>>
  PROVE  Answering /\ TypeInv'
<1>1. TypeInv
  BY Zenon DEF IInv
<1>2. /\ hpc' = "completion" /\ at' \in Nat
      /\ cell' \in [Deliveries -> Request]
      /\ cell'[at].acknowledged = ack
      /\ \A d \in Deliveries : d # at => cell'[d].acknowledged = cell[d].acknowledged
      /\ custody' \in [Tokens -> {"none", "held", "erased"}]
      /\ \A t \in Tokens : custody'[t] \in {custody[t], "erased"}
      /\ lastUseSlot[Delivery[at].token] = transferStep[at] =>
           custody'[Delivery[at].token] = "erased"
  BY Zenon, AnswerForm
<1>3. /\ inb' \in [Deliveries -> Inbound]
      /\ \A d \in Deliveries :
           /\ inb'[d].bytes = inb[d].bytes
           /\ inb'[d].committed = inb[d].committed
           /\ inb'[d].acknowledged = inb[d].acknowledged
           /\ inb'[d].settled = IF d = at THEN "withdrawn" ELSE inb[d].settled
  <2>1. inb \in [Deliveries -> Inbound] /\ "withdrawn" \in {"host", "usable", "withdrawn"}
    BY <1>1 DEF TypeInv
  <2>2. inb' = [inb EXCEPT ![at].settled = "withdrawn"]
    BY ONLY Settle(at, "withdrawn") DEF Settle
  <2> QED
    BY ONLY Zenon, <2>1, <2>2, InboundSettled
<1>4. hpc' \in HostPc
  BY <1>2 DEF HostPc, Visiting
<1>5. TypeInv'
  BY Zenon, <1>1, <1>2, <1>3, <1>4 DEF TypeInv
<1>6. \A d \in Deliveries : /\ inb'[d].bytes = inb[d].bytes
                            /\ inb'[d].committed = inb[d].committed
                            /\ inb'[d].acknowledged = inb[d].acknowledged
                            /\ d # at => inb'[d].settled = inb[d].settled
  BY Zenon, <1>3
<1>7. inb'[at].settled = "withdrawn"
  BY Zenon, <1>3
<1>8. cell'[at].acknowledged # "delivered" /\ cell'[at].acknowledged \in Answers \ {"none"}
  BY Zenon, <1>2
<1> QED
  BY Zenon, <1>2, <1>5, <1>6, <1>7, <1>8 DEF Answering

LEMMA ScanSteps ==
  ASSUME IInv, ScanTransfer \/ RefuseRequest
  PROVE  (Turn \/ Answering) /\ TypeInv'
<1>t. TypeInv
  BY Zenon DEF IInv
<1>1. /\ hpc = "transfer"
      /\ UNCHANGED <<out, inb, wpc, framing, step, done, phase, stopped, reaped>>
  BY DEF ScanTransfer, RefuseRequest, workerVars
<1>2. CASE /\ at \in Deliveries /\ pendingTransfer(at)
           /\ \/ Answer(at, "custody_unavailable") \/ Answer(at, "request_invalid")
              \/ /\ custody[Delivery[at].token] = "held"
                 /\ Answer(at, "recipient_unavailable")
  <2>1. cell[at].acknowledged = "none"
    BY Zenon, <1>2 DEF pendingTransfer
  <2>2. PICK ack \in {"custody_unavailable", "request_invalid", "recipient_unavailable"} :
          /\ Answer(at, ack)
          /\ ack = "recipient_unavailable" => custody[Delivery[at].token] = "held"
    BY Zenon, <1>2
  <2>3. /\ ack \in Answers \ {"none"}
        /\ \/ ack \in {"custody_unavailable", "request_invalid"}
           \/ ack = "recipient_unavailable" /\ custody[Delivery[at].token] = "held"
    BY Zenon, <2>2 DEF Answers
  <2> QED
    BY Zenon, <1>1, <1>2, <2>1, <2>2, <2>3, RefusalForm
<1>3. CASE /\ UNCHANGED <<cell, custody>> /\ at' \in Nat
           /\ \/ hpc' \in {"transfer", "completion"}
              \/ /\ hpc' = "deliver" /\ at' \in Deliveries
                 /\ cell[at'].acknowledged = "none" /\ custody[Delivery[at'].token] = "held"
  <2>1. hpc' \in HostPc
    BY <1>3 DEF HostPc, Visiting, Delivering
  <2>2. TypeInv'
    BY Zenon, <1>t, <1>1, <1>3, <2>1 DEF TypeInv
  <2>3. Turn
    BY <1>1, <1>3 DEF Turn
  <2> QED
    BY Zenon, <2>2, <2>3
<1>4. CASE ScanTransfer
  <2>1. CASE at \in Deliveries /\ pendingTransfer(at)
    <3>1. \/ Answer(at, "custody_unavailable")
          \/ custody[Delivery[at].token] = "held" /\ Answer(at, "recipient_unavailable")
          \/ /\ custody[Delivery[at].token] = "held" /\ UNCHANGED <<cell, custody>>
             /\ hpc' = "deliver" /\ at' = at
      BY Zenon, <1>4, <2>1 DEF ScanTransfer, Goto
    <3>2. cell[at].acknowledged = "none" /\ at \in Nat
      BY Zenon, <1>t, <2>1 DEF pendingTransfer, TypeInv
    <3> QED
      BY Zenon, <1>2, <1>3, <2>1, <3>1, <3>2
  <2>2. CASE ~(at \in Deliveries /\ pendingTransfer(at))
    <3>1. /\ UNCHANGED <<cell, custody>>
          /\ hpc' \in {"transfer", "completion"} /\ at' \in {1, at + 1}
      BY <1>4, <2>2 DEF ScanTransfer, Goto
    <3>2. at' \in Nat
      BY <1>t, <3>1 DEF TypeInv
    <3> QED
      BY Zenon, <1>3, <3>1, <3>2
  <2> QED
    BY Zenon, <2>1, <2>2
<1>5. CASE RefuseRequest
  BY Zenon, <1>2, <1>5 DEF RefuseRequest
<1> QED
  BY Zenon, <1>4, <1>5

LEMMA WaitSteps ==
  ASSUME IInv, AwaitRecipient \/ Withdraw \/ CompareCopy
  PROVE  (Turn \/ Answering \/ Settles) /\ TypeInv'
<1>t. TypeInv
  BY Zenon DEF IInv
<1>1. /\ hpc \in Waiting
      /\ UNCHANGED <<out, wpc, framing, step, done, phase, stopped, reaped>>
  BY DEF AwaitRecipient, Withdraw, CompareCopy, workerVars, Waiting
<1>2. hpc \in Delivering
  BY Zenon, <1>1 DEF Delivering
<1>3. at \in Deliveries /\ cell[at].acknowledged = "none"
  BY Zenon, <1>2 DEF IInv, InboundInv, InboundOf, Serving
<1>4. ASSUME NEW ack \in {"recipient_rejected", "recipient_timeout", "recipient_unavailable",
                          "copy_mismatch"},
             Answer(at, ack), Settle(at, "withdrawn")
      PROVE  Answering /\ TypeInv'
  <2>1. ack \in Answers \ {"none", "delivered"}
    BY DEF Answers
  <2> QED
    BY Zenon, <1>1, <1>3, <1>4, <2>1, WithdrawalForm
<1>5. CASE AwaitRecipient
  <2>1. CASE inb[at].acknowledged = "rejected"
    BY Zenon, <1>4, <1>5, <2>1 DEF AwaitRecipient
  <2>2. CASE inb[at].acknowledged # "rejected"
    <3>1. /\ hpc = "wait" /\ hpc' \in {"compare", "usable"} /\ at' = at
          /\ hpc' = "compare" => inb[at].acknowledged = "accepted"
          /\ UNCHANGED <<inb, cell, custody>>
      BY <1>5, <2>2 DEF AwaitRecipient, Goto
    <3>2. hpc' \in HostPc /\ hpc' \in Waiting
      BY <3>1 DEF HostPc, Visiting, Delivering, Waiting
    <3>3. TypeInv'
      BY Zenon, <1>t, <1>1, <3>1, <3>2 DEF TypeInv
    <3>4. Turn
      BY Zenon, <1>1, <3>1, <3>2 DEF Turn
    <3> QED
      BY Zenon, <3>3, <3>4
  <2> QED
    BY Zenon, <2>1, <2>2
<1>6. CASE Withdraw
  <2>1. /\ Settle(at, "withdrawn")
        /\ \E ack \in {"recipient_timeout", "recipient_unavailable"} : Answer(at, ack)
    BY Zenon, <1>6 DEF Withdraw
  <2> QED
    BY Zenon, <1>4, <2>1
<1>7. CASE CompareCopy
  <2>1. CASE inb[at].bytes # "token"
    BY Zenon, <1>4, <1>7, <2>1 DEF CompareCopy
  <2>2. CASE inb[at].bytes = "token"
    <3>1. /\ hpc = "compare" /\ hpc' = "settled" /\ at' = at /\ UNCHANGED <<cell, custody>>
      BY Zenon, <1>7, <2>2 DEF CompareCopy, Goto
    <3>2. /\ inb' \in [Deliveries -> Inbound]
          /\ \A d \in Deliveries :
               /\ inb'[d].bytes = inb[d].bytes
               /\ inb'[d].committed = inb[d].committed
               /\ inb'[d].acknowledged = inb[d].acknowledged
               /\ inb'[d].settled = IF d = at THEN "usable" ELSE inb[d].settled
      <4>1. inb \in [Deliveries -> Inbound] /\ "usable" \in {"host", "usable", "withdrawn"}
        BY <1>t DEF TypeInv
      <4>2. inb' = [inb EXCEPT ![at].settled = "usable"]
        BY ONLY <1>7, <2>2 DEF CompareCopy, Settle
      <4> QED
        BY ONLY Zenon, <4>1, <4>2, InboundSettled
    <3>3. hpc' \in HostPc
      BY <3>1 DEF HostPc, Visiting, Delivering
    <3>4. TypeInv'
      BY Zenon, <1>t, <1>1, <3>1, <3>2, <3>3 DEF TypeInv
    <3>5. inb'[at].settled = "usable"
      BY Zenon, <1>3, <3>2
    <3>6. \A d \in Deliveries : /\ inb'[d].bytes = inb[d].bytes
                                /\ inb'[d].committed = inb[d].committed
                                /\ inb'[d].acknowledged = inb[d].acknowledged
                                /\ d # at => inb'[d].settled = inb[d].settled
      BY Zenon, <3>2
    <3>7. Settles
      BY Zenon, <1>1, <2>2, <3>1, <3>5, <3>6 DEF Settles
    <3> QED
      BY Zenon, <3>4, <3>7
  <2> QED
    BY Zenon, <2>1, <2>2
<1> QED
  BY Zenon, <1>5, <1>6, <1>7

LEMMA DeliverSteps ==
  ASSUME IInv, Deliver
  PROVE  Delivers /\ TypeInv'
<1>t. TypeInv
  BY Zenon DEF IInv
<1>1. /\ hpc = "deliver" /\ hpc' = "wait" /\ at' = at
      /\ UNCHANGED <<out, cell, wpc, framing, step, done, phase, custody, stopped, reaped>>
  BY DEF Deliver, Goto, HostOnly, workerVars
<1>2. hpc \in Delivering
  BY <1>1 DEF Delivering
<1>3. at \in Deliveries
  BY Zenon, <1>2 DEF IInv, InboundInv
<1>4. /\ inb' \in [Deliveries -> Inbound]
      /\ \A d \in Deliveries :
           /\ inb'[d].bytes = IF d = at THEN "token" ELSE inb[d].bytes
           /\ inb'[d].committed = IF d = at THEN TRUE ELSE inb[d].committed
           /\ inb'[d].acknowledged = IF d = at THEN "none" ELSE inb[d].acknowledged
           /\ inb'[d].settled = inb[d].settled
  <2>1. inb \in [Deliveries -> Inbound]
    BY Zenon, <1>t DEF TypeInv
  <2>2. inb' = [inb EXCEPT ![at].bytes = "token", ![at].committed = TRUE,
                           ![at].acknowledged = "none"]
    BY ONLY Deliver DEF Deliver
  <2> QED
    BY ONLY Zenon, <2>1, <2>2, InboundDelivered
<1>5. hpc' \in HostPc
  BY <1>1 DEF HostPc, Visiting, Delivering, Waiting
<1>6. TypeInv'
  BY Zenon, <1>t, <1>1, <1>4, <1>5 DEF TypeInv
<1>7. inb'[at].committed /\ inb'[at].acknowledged = "none" /\ inb'[at].settled = inb[at].settled
  BY Zenon, <1>3, <1>4
<1>8. \A d \in Deliveries : d # at => /\ inb'[d].bytes = inb[d].bytes
                                      /\ inb'[d].committed = inb[d].committed
                                      /\ inb'[d].acknowledged = inb[d].acknowledged
                                      /\ inb'[d].settled = inb[d].settled
  BY Zenon, <1>4
<1> QED
  BY Zenon, <1>1, <1>6, <1>7, <1>8 DEF Delivers

LEMMA StopSteps ==
  ASSUME IInv, StopActive \/ Finish
  PROVE  Stops /\ TypeInv'
<1>t. TypeInv
  BY Zenon DEF IInv
<1>1. /\ hpc \in {"stop", "finish"} /\ at' = 1
      /\ UNCHANGED <<out, inb, cell, step, done, phase, custody>>
  BY DEF StopActive, Finish, Goto, slotVars
<1>2. ASSUME NEW G \in SUBSET Actors, Gone(G), reaped' = reaped \cup G,
             stopped' \subseteq Actors, hpc' \in {"next", "finish", "erase"},
             hpc' = "next" => \A b \in Actors : wpc'[b] \notin Busy
      PROVE  Stops /\ TypeInv'
  <2>1. /\ wpc' \in [Actors -> WorkerPc] /\ framing' \in [Actors -> Nat]
        /\ \A b \in Actors : b \in G => wpc'[b] = "exited" /\ framing'[b] = 0
        /\ \A b \in Actors : b \notin G => wpc'[b] = wpc[b] /\ framing'[b] = framing[b]
    BY Zenon, <1>t, <1>2, GoneForm
  <2>2. at' \in Nat /\ hpc' \in HostPc /\ reaped' \subseteq Actors
    BY <1>t, <1>1, <1>2 DEF TypeInv, HostPc
  <2>3. TypeInv'
    BY Zenon, <1>t, <1>1, <1>2, <2>1, <2>2 DEF TypeInv
  <2>4. Stops
    BY Zenon, <1>1, <1>2, <2>1 DEF Stops
  <2> QED
    BY Zenon, <2>3, <2>4
<1>3. CASE StopActive
  <2>1. hpc = "stop" /\ phase \in Phases
    BY Zenon, <1>3 DEF StopActive, IInv, PlaceInv
  <2>2. active \in Actors
    BY Zenon, <2>1, PhaseSteps DEF active
  <2>3. PICK U : /\ StopActors({active}, U) /\ hpc' \in {"next", "finish"}
                 /\ hpc' = "next" => U = {}
    BY Zenon, <1>3 DEF StopActive, Goto
  <2> DEFINE G == {active} \ U
  <2>4. Gone(G) /\ reaped' = reaped \cup G /\ stopped' = stopped \cup {active}
    BY Zenon, <2>3 DEF StopActors
  <2>5. G \in SUBSET Actors /\ stopped' \subseteq Actors
    BY <1>t, <2>2, <2>4 DEF TypeInv
  <2>6. hpc' = "next" => active \in G
    BY <2>3
  <2> HIDE DEF G
  <2>7. /\ \A b \in Actors : b \in G => wpc'[b] = "exited"
        /\ \A b \in Actors : b \notin G => wpc'[b] = wpc[b]
    BY Zenon, <1>t, <2>4, <2>5, GoneForm
  <2>8. ASSUME hpc' = "next", NEW b \in Actors PROVE wpc'[b] \notin Busy
    <3>1. CASE b \in G
      BY <2>7, <3>1 DEF Busy
    <3>2. CASE b \notin G
      <4>1. b # active /\ wpc'[b] = wpc[b]
        BY Zenon, <2>6, <2>7, <2>8, <3>2
      <4>2. wpc[b] \in Busy => step \in Steps /\ Plan[step].actor = b /\ Plan[step].phase = phase
        BY Zenon DEF IInv, BusyInv, BusyOf
      <4>3. step \in Steps /\ Plan[step].phase = phase => Plan[step].actor = active
        BY Zenon, <2>1, PhaseSteps DEF active
      <4> QED
        BY Zenon, <4>1, <4>2, <4>3
    <3> QED
      BY Zenon, <3>1, <3>2
  <2>9. hpc' \in {"next", "finish", "erase"}
    BY <2>3
  <2> QED
    BY Zenon, <1>2, <2>4, <2>5, <2>8, <2>9
<1>4. CASE Finish
  <2>1. PICK U : StopActors(Actors \ stopped, U)
    BY Zenon, <1>4 DEF Finish
  <2> DEFINE G == (Actors \ stopped) \ U
  <2>2. Gone(G) /\ reaped' = reaped \cup G /\ stopped' = stopped \cup (Actors \ stopped)
    BY Zenon, <2>1 DEF StopActors
  <2>3. G \in SUBSET Actors /\ stopped' \subseteq Actors
    BY <1>t, <2>2 DEF TypeInv
  <2> HIDE DEF G
  <2>4. hpc' = "erase"
    BY Zenon, <1>4 DEF Finish, Goto
  <2>5. hpc' \in {"next", "finish", "erase"} /\ hpc' # "next"
    BY <2>4
  <2> QED
    BY Zenon, <1>2, <2>2, <2>3, <2>5
<1> QED
  BY Zenon, <1>3, <1>4

LEMMA EraseSteps ==
  ASSUME IInv, EraseAll
  PROVE  Erases /\ TypeInv'
<1>t. TypeInv
  BY Zenon DEF IInv
<1>1. /\ hpc = "erase" /\ hpc' = "finished" /\ at' = 1
      /\ custody' = [t \in Tokens |-> "erased"]
      /\ UNCHANGED <<cell, wpc, framing, step, done, phase, stopped, reaped>>
  BY DEF EraseAll, Goto, workerVars
<1>2. /\ out' = [t \in Tokens |-> IF issuer[t] \in reaped
                                   THEN [out[t] EXCEPT !.bytes = "empty"] ELSE out[t]]
      /\ inb' = [d \in Deliveries |-> IF recipient[d] \in reaped
                                       THEN [inb[d] EXCEPT !.bytes = "empty"] ELSE inb[d]]
  BY DEF EraseAll, erasedAtFinish
<1>3. ASSUME NEW t \in Tokens
      PROVE  /\ out'[t] \in Outbound
             /\ out'[t].committed = out[t].committed
             /\ out'[t].acknowledged = out[t].acknowledged
             /\ issuer[t] \in reaped => out'[t].bytes = "empty"
  <2>1. out[t] \in Outbound
    BY <1>t DEF TypeInv
  <2>2. out'[t] = IF issuer[t] \in reaped THEN [out[t] EXCEPT !.bytes = "empty"] ELSE out[t]
    BY <1>2
  <2> QED
    BY ONLY <2>1, <2>2 DEF Outbound, Bytes
<1>4. ASSUME NEW d \in Deliveries
      PROVE  /\ inb'[d] \in Inbound
             /\ inb'[d].committed = inb[d].committed
             /\ inb'[d].acknowledged = inb[d].acknowledged
             /\ inb'[d].settled = inb[d].settled
             /\ recipient[d] \in reaped => inb'[d].bytes = "empty"
             /\ recipient[d] \notin reaped => inb'[d].bytes = inb[d].bytes
  <2>1. inb[d] \in Inbound
    BY <1>t DEF TypeInv
  <2>2. inb'[d] = IF recipient[d] \in reaped THEN [inb[d] EXCEPT !.bytes = "empty"] ELSE inb[d]
    BY <1>2
  <2> QED
    BY ONLY <2>1, <2>2 DEF Inbound, Bytes
<1>5. out' \in [Tokens -> Outbound] /\ inb' \in [Deliveries -> Inbound]
  <2>1. out' = [t \in Tokens |-> out'[t]] /\ inb' = [d \in Deliveries |-> inb'[d]]
    BY <1>2
  <2> QED
    BY <1>3, <1>4, <2>1
<1>6. /\ custody' \in [Tokens -> {"none", "held", "erased"}]
      /\ \A t \in Tokens : custody'[t] = "erased"
      /\ at' \in Nat /\ hpc' \in HostPc
  BY <1>1 DEF HostPc
<1>7. TypeInv'
  BY Zenon, <1>t, <1>1, <1>5, <1>6 DEF TypeInv
<1> QED
  BY Zenon, <1>1, <1>3, <1>4, <1>6, <1>7 DEF Erases

\* Every step of the host is one of these.
LEMMA HostSteps ==
  ASSUME IInv, Host
  PROVE  HostStep /\ TypeInv'
<1>1. CASE AnswerDelivered
  <2>1. /\ hpc = "settled" /\ Answer(at, "delivered")
        /\ UNCHANGED <<out, inb, wpc, framing, step, done, phase, stopped, reaped>>
    BY <1>1 DEF AnswerDelivered, workerVars
  <2>2. hpc \in Delivering /\ "delivered" \in Answers \ {"none"}
    BY <2>1 DEF Delivering, Answers
  <2>3. at \in Deliveries /\ cell[at].acknowledged = "none"
    BY Zenon, <2>2 DEF IInv, InboundInv, InboundOf, Serving
  <2> QED
    BY Zenon, <2>1, <2>2, <2>3, RefusalForm DEF HostStep
<1>2. \/ NextPhase \/ ScanOutbound \/ KeepWaiting \/ CheckCompletion \/ VisitFails \/ Release
      \/ AcceptOutbound \/ ScanTransfer \/ RefuseRequest \/ AwaitRecipient \/ Withdraw
      \/ CompareCopy \/ Deliver \/ StopActive \/ Finish \/ EraseAll \/ AnswerDelivered
  BY Zenon DEF Host
<1> QED
  BY Zenon, <1>1, <1>2, TurnSteps, ReleaseSteps, AcceptSteps, ScanSteps, WaitSteps,
     DeliverSteps, StopSteps, EraseSteps DEF HostStep

-----------------------------------------------------------------------------
(* The host keeps the invariant.                                            *)

\* The host goes to the next phase, releases an operation, or moves within a phase, where
\* it can only end what actors do.
Advances ==
  /\ hpc = "next" /\ hpc' \in {"next", "arrival"} /\ phase' = phase + 1 /\ phase' \in Phases
  /\ UNCHANGED <<wpc, framing, step>>
Moves ==
  /\ phase' = phase /\ step' = step /\ hpc' # "arrival"
  /\ hpc' \in Visiting \cup {"stop"} => hpc \in Visiting \cup {"arrival"}
  /\ hpc' = "next" => \A b \in Actors : wpc'[b] \notin Busy
  /\ \A b \in Actors : \/ wpc'[b] = wpc[b] /\ framing'[b] = framing[b]
                       \/ wpc'[b] = "exited" /\ framing'[b] = 0

LEMMA HostMoves ==
  ASSUME HostStep
  PROVE  Advances \/ Releases \/ Moves
<1>1. CASE Turn
  <2>1. UNCHANGED <<wpc, framing, step>>
    BY Zenon, <1>1 DEF Turn
  <2>2. \/ hpc = "next" /\ hpc' \in {"next", "arrival"} /\ phase' = phase + 1 /\ phase' \in Phases
        \/ /\ phase' = phase /\ hpc' # "arrival"
           /\ hpc' \in Visiting \cup {"stop"} => hpc \in Visiting \cup {"arrival"}
           /\ hpc' = "next" => \A b \in Actors : wpc[b] \notin Busy
    BY <1>1 DEF Turn, Visiting, Delivering, Waiting
  <2> QED
    BY Zenon, <2>1, <2>2 DEF Advances, Moves
<1>2. CASE Takes \/ Answering \/ Delivers \/ Settles
  <2>1. UNCHANGED <<wpc, framing, step, phase>>
    BY Zenon, <1>2 DEF Takes, Answering, Delivers, Settles
  <2>2. hpc \in Visiting /\ hpc' \notin {"arrival", "next"}
    BY Zenon, <1>2 DEF Takes, Answering, Delivers, Settles, Visiting, Delivering, Waiting
  <2> QED
    BY Zenon, <2>1, <2>2 DEF Moves
<1>3. CASE Stops \/ Erases
  <2>1. UNCHANGED <<step, phase>>
    BY Zenon, <1>3 DEF Stops, Erases
  <2>2. hpc' \notin Visiting \cup {"arrival", "stop"}
    BY Zenon, <1>3 DEF Stops, Erases, Visiting, Delivering, Waiting
  <2>3. hpc' = "next" => \A b \in Actors : wpc'[b] \notin Busy
    BY <1>3 DEF Stops, Erases
  <2>4. \A b \in Actors : \/ wpc'[b] = wpc[b] /\ framing'[b] = framing[b]
                          \/ wpc'[b] = "exited" /\ framing'[b] = 0
    BY Zenon, <1>3 DEF Stops, Erases
  <2> QED
    BY Zenon, <2>1, <2>2, <2>3, <2>4 DEF Moves
<1> QED
  BY Zenon, <1>1, <1>2, <1>3 DEF HostStep

LEMMA PlaceByHost ==
  ASSUME IInv, HostStep
  PROVE  PlaceInv'
<1>1. PlaceInv /\ phase \in Nat
  BY Zenon DEF IInv, TypeInv
<1>2. CASE Advances
  <2>1. /\ hpc' \in {"next", "arrival"} /\ phase' = phase + 1 /\ phase' \in Phases /\ step' = step
    BY Zenon, <1>2 DEF Advances
  <2>2. \A j \in Steps : Plan[j].phase > phase' \/ Plan[j].phase = phase' => step <= j
    <3> TAKE j \in Steps
    <3>1. Plan[j].phase \in Nat /\ (Plan[j].phase > phase => step <= j)
      BY Zenon, <1>1, PlanType DEF PlaceInv
    <3> QED
      BY <1>1, <2>1, <3>1
  <2> QED
    BY Zenon, <2>1, <2>2 DEF PlaceInv
<1>3. CASE Releases
  <2>1. hpc' = "outbound" /\ phase' = phase /\ step' = Min(stepsOf[phase]) /\ phase \in Phases
    BY Zenon, <1>1, <1>3 DEF Releases, PlaceInv
  <2>2. \A j \in Steps : Plan[j].phase > phase => Min(stepsOf[phase]) <= j
    BY Zenon, <2>1, PhaseSteps
  <2>3. hpc' # "arrival"
    BY <2>1
  <2> QED
    BY Zenon, <2>1, <2>2, <2>3 DEF PlaceInv
<1>4. CASE Moves
  <2>1. /\ phase' = phase /\ step' = step /\ hpc' # "arrival"
        /\ hpc' \in Visiting \cup {"stop"} => hpc \in Visiting \cup {"arrival"}
    BY Zenon, <1>4 DEF Moves
  <2>2. hpc' \in Visiting \cup {"arrival", "stop"} => phase \in Phases
    BY Zenon, <1>1, <2>1 DEF PlaceInv
  <2> QED
    BY Zenon, <1>1, <2>1, <2>2 DEF PlaceInv
<1> QED
  BY Zenon, <1>2, <1>3, <1>4, HostMoves

LEMMA ConsumableByHost ==
  ASSUME IInv, HostStep, NEW d \in Deliveries, consumable(d)
  PROVE  consumable(d)'
<1>1. /\ inb[d].settled = "usable" /\ inb[d].committed /\ inb[d].acknowledged = "accepted"
      /\ InboundOf(d)
  BY Zenon DEF consumable, IInv, InboundInv
<1>2. CASE Turn \/ Releases \/ Takes \/ Stops
  BY Zenon, <1>1, <1>2 DEF Turn, Releases, Takes, Stops, consumable
<1>3. CASE Answering \/ Settles
  <2>1. at = d /\ hpc \in Waiting => inb[d].settled = "host"
    BY Zenon, <1>1 DEF InboundOf, Serving, Delivering
  <2>2. hpc = "compare" => hpc \in Waiting
    BY DEF Waiting
  <2>3. inb'[d].settled = inb[d].settled
    <3>1. ~(at = d /\ hpc \in Waiting)
      BY <1>1, <2>1
    <3> QED
      BY Zenon, <1>3, <2>2, <3>1 DEF Answering, Settles
  <2>4. inb'[d].committed = inb[d].committed /\ inb'[d].acknowledged = inb[d].acknowledged
    BY Zenon, <1>3 DEF Answering, Settles
  <2> QED
    BY Zenon, <1>1, <2>3, <2>4 DEF consumable
<1>4. CASE Delivers
  <2>1. hpc = "deliver" /\ hpc \in Delivering
    BY <1>4 DEF Delivers, Delivering
  <2>2. d # at
    BY Zenon, <1>1, <2>1 DEF InboundOf, Serving
  <2> QED
    BY Zenon, <1>1, <1>4, <2>2 DEF Delivers, consumable
<1>5. CASE Erases
  BY Zenon, <1>1, <1>5 DEF Erases, consumable
<1> QED
  BY Zenon, <1>2, <1>3, <1>4, <1>5 DEF HostStep

LEMMA BusyByHost ==
  ASSUME IInv, HostStep
  PROVE  BusyInv'
<1> SUFFICES ASSUME NEW a \in Actors
             PROVE  BusyOf(a)'
  BY Zenon DEF BusyInv
<1>1. BusyOf(a)
  BY Zenon DEF IInv, BusyInv
<1>2. wpc'[a] \notin Busy => BusyOf(a)'
  BY DEF BusyOf, Busy
<1>3. CASE Advances
  <2>1. wpc[a] \notin Busy
    BY Zenon, <1>1, <1>3 DEF Advances, BusyOf
  <2> QED
    BY Zenon, <1>2, <1>3, <2>1 DEF Advances
<1>4. CASE Releases
  <2>1. /\ hpc = "arrival" /\ hpc' = "outbound" /\ phase' = phase
        /\ step' = Min(stepsOf[phase]) /\ phase \in Phases
    BY Zenon, <1>4 DEF Releases, IInv, PlaceInv
  <2>2. CASE a # actorOf[phase]
    <3>1. wpc'[a] = wpc[a] /\ wpc[a] \notin Busy
      BY Zenon, <1>1, <1>4, <2>1, <2>2 DEF Releases, BusyOf
    <3> QED
      BY Zenon, <1>2, <3>1
  <2>3. CASE a = actorOf[phase]
    <3>1. wpc'[a] = "acting"
      BY Zenon, <1>4, <2>3 DEF Releases
    <3>2. step' \in Steps /\ Plan[step'].phase = phase /\ Plan[step'].actor = a
      BY Zenon, <2>1, <2>3, PhaseSteps
    <3> QED
      BY <2>1, <3>1, <3>2 DEF BusyOf
  <2> QED
    BY Zenon, <2>2, <2>3
<1>5. CASE Moves /\ wpc'[a] \in Busy
  <2>1. /\ phase' = phase /\ step' = step /\ hpc' \notin {"next", "arrival"}
        /\ wpc'[a] = wpc[a] \/ wpc'[a] = "exited"
    BY Zenon, <1>5 DEF Moves
  <2>2. wpc'[a] = wpc[a]
    BY <1>5, <2>1 DEF Busy
  <2>3. step \in Steps
    BY Zenon, <1>1, <1>5, <2>2 DEF BusyOf
  <2>4. wpc[a] = "consuming" => consumable(Plan[step].of)'
    <3>1. wpc[a] = "consuming" => Plan[step].op = "consume" /\ consumable(Plan[step].of)
      BY Zenon, <1>1 DEF BusyOf
    <3>2. Plan[step].op = "consume" => Plan[step].of \in Deliveries
      BY Zenon, <2>3, DeliveryType
    <3> QED
      BY Zenon, <2>1, <3>1, <3>2, ConsumableByHost
  <2> QED
    BY Zenon, <1>1, <1>5, <2>1, <2>2, <2>4 DEF BusyOf
<1> QED
  BY Zenon, <1>2, <1>3, <1>4, <1>5, HostMoves

LEMMA FramingByHost ==
  ASSUME IInv, HostStep
  PROVE  FramingInv'
<1> SUFFICES ASSUME NEW a \in Actors
             PROVE  FramingOf(a)'
  BY Zenon DEF FramingInv
<1>1. FramingOf(a) /\ InboundInv
  BY Zenon DEF IInv, FramingInv
<1>2. ASSUME NEW d \in unanswered(a) PROVE d \in unanswered(a)'
  <2>1. d \in Deliveries /\ recipient[d] = a /\ inb[d].committed /\ inb[d].acknowledged = "none"
    BY Zenon DEF unanswered
  <2>2. inb'[d].committed /\ inb'[d].acknowledged = "none"
    BY Zenon, <2>1 DEF HostStep, Turn, Releases, Takes, Answering, Delivers, Settles, Stops, Erases
  <2> QED
    BY Zenon, <2>1, <2>2 DEF unanswered
<1>3. CASE Stops
  <2>1. PICK G \in SUBSET Actors :
          /\ reaped' = reaped \cup G
          /\ a \in G => wpc'[a] = "exited" /\ framing'[a] = 0
          /\ a \notin G => wpc'[a] = wpc[a] /\ framing'[a] = framing[a]
    BY Zenon, <1>3 DEF Stops
  <2> QED
    BY Zenon, <1>1, <1>2, <2>1 DEF FramingOf
<1>4. CASE Releases
  <2>1. /\ framing' = framing /\ reaped' = reaped
        /\ \/ wpc'[a] = wpc[a]
           \/ wpc[a] = "arrived"
    BY Zenon, <1>4 DEF Releases
  <2>2. wpc[a] = "arrived" => framing[a] = 0 /\ a \notin reaped
    BY <1>1 DEF FramingOf
  <2> QED
    BY Zenon, <1>1, <1>2, <2>1, <2>2 DEF FramingOf
<1>5. CASE wpc' = wpc /\ framing' = framing /\ reaped' = reaped
  BY Zenon, <1>1, <1>2, <1>5 DEF FramingOf
<1> QED
  BY Zenon, <1>3, <1>4, <1>5 DEF HostStep, Turn, Takes, Answering, Delivers, Settles, Erases

LEMMA OutboundByHost ==
  ASSUME IInv, HostStep
  PROVE  OutboundInv'
<1>0. OutboundInv /\ phase \in Nat
  BY Zenon DEF IInv, TypeInv
<1>1. ASSUME NEW t \in Tokens
      PROVE  /\ out'[t].committed = out[t].committed
             /\ out'[t].acknowledged # "none" => out[t].committed
             /\ custody'[t] = "held" => out'[t].acknowledged = "accepted"
  <2>0. OutboundOf(t)
    BY Zenon, <1>0 DEF OutboundInv
  <2>1. CASE Takes
    <3>1. /\ out'[t].committed = out[t].committed
          /\ t # at => /\ out'[t].acknowledged = out[t].acknowledged
                       /\ custody'[t] = custody[t]
      BY Zenon, <2>1 DEF Takes
    <3>2. CASE t # at
      BY Zenon, <2>0, <3>1, <3>2 DEF OutboundOf
    <3>3. CASE t = at
      <4>1. out[t].committed /\ out[t].acknowledged = "none"
        BY Zenon, <1>0, <2>1, <3>3 DEF OutboundInv, Takes
      <4>2. custody[t] # "held"
        BY Zenon, <2>0, <4>1 DEF OutboundOf
      <4>3. \E r : /\ out'[t].acknowledged = r
                   /\ custody'[t] = custody[t] \/ r = "accepted"
        BY Zenon, <2>1, <3>3 DEF Takes
      <4> QED
        BY Zenon, <3>1, <4>1, <4>2, <4>3
    <3> QED
      BY Zenon, <3>2, <3>3
  <2>2. CASE ~Takes
    <3>1. /\ out'[t].committed = out[t].committed
          /\ out'[t].acknowledged = out[t].acknowledged
          /\ custody'[t] \in {custody[t], "erased"}
      BY Zenon, <2>2 DEF HostStep, Turn, Releases, Answering, Delivers, Settles, Stops, Erases
    <3>2. custody'[t] = "held" => custody[t] = "held"
      BY <3>1
    <3> QED
      BY Zenon, <2>0, <3>1, <3>2 DEF OutboundOf
  <2> QED
    BY Zenon, <2>1, <2>2
<1>2. ASSUME NEW t \in Tokens, out[t].committed
      PROVE  /\ issueStep[t] <= step'
             /\ issueStep[t] = step' => \A b \in Actors : wpc'[b] \notin {"acting", "publishing"}
             /\ Plan[issueStep[t]].phase <= phase'
             /\ hpc' = "arrival" => Plan[issueStep[t]].phase < phase'
  <2>0. /\ issueStep[t] <= step
        /\ issueStep[t] = step => \A b \in Actors : wpc[b] \notin {"acting", "publishing"}
        /\ Plan[issueStep[t]].phase <= phase
        /\ hpc = "arrival" => Plan[issueStep[t]].phase < phase
        /\ issueStep[t] \in Steps /\ Plan[issueStep[t]].phase \in Nat
    BY Zenon, <1>0, <1>2, IssueSteps, PlanType DEF OutboundInv, OutboundOf
  <2>1. CASE Advances
    <3>1. phase' = phase + 1 /\ step' = step /\ wpc' = wpc
      BY Zenon, <2>1 DEF Advances
    <3>0. phase \in Nat /\ Plan[issueStep[t]].phase \in Nat /\ Plan[issueStep[t]].phase <= phase
      BY Zenon, <1>0, <2>0
    <3>2. Plan[issueStep[t]].phase <= phase' /\ Plan[issueStep[t]].phase < phase'
      BY ONLY <3>0, <3>1
    <3> QED
      BY Zenon, <2>0, <3>1, <3>2
  <2>2. CASE Releases
    <3>1. /\ hpc = "arrival" /\ hpc' = "outbound" /\ phase' = phase
          /\ step' = Min(stepsOf[phase]) /\ phase \in Phases
      BY Zenon, <2>2 DEF Releases, IInv, PlaceInv
    <3>2. step' \in Steps /\ Plan[step'].phase = phase
      BY Zenon, <3>1, PhaseSteps
    <3>3. step' <= issueStep[t] => Plan[step'].phase <= Plan[issueStep[t]].phase
      BY Zenon, <2>0, <3>2, PlanAssumption
    <3>4. issueStep[t] \in Nat /\ step' \in Nat
      BY Zenon, <2>0, <3>2, PlanType
    <3>5. /\ phase \in Nat /\ Plan[issueStep[t]].phase \in Nat
          /\ Plan[issueStep[t]].phase < phase /\ Plan[step'].phase = phase
      BY Zenon, <1>0, <2>0, <3>1, <3>2
    <3>6. issueStep[t] < step'
      BY ONLY <3>3, <3>4, <3>5
    <3>7. /\ issueStep[t] <= step' /\ issueStep[t] # step'
          /\ Plan[issueStep[t]].phase <= phase
      BY ONLY <3>4, <3>5, <3>6
    <3>8. hpc' # "arrival"
      BY ONLY <3>1
    <3> QED
      BY Zenon, <3>1, <3>7, <3>8
  <2>3. CASE Moves
    <3>1. phase' = phase /\ step' = step /\ hpc' # "arrival"
      BY Zenon, <2>3 DEF Moves
    <3>2. ASSUME NEW b \in Actors, wpc[b] \notin {"acting", "publishing"}
          PROVE  wpc'[b] \notin {"acting", "publishing"}
      <4>1. wpc'[b] = wpc[b] \/ wpc'[b] = "exited"
        BY Zenon, <2>3 DEF Moves
      <4> QED
        BY <3>2, <4>1
    <3> QED
      BY Zenon, <2>0, <3>1, <3>2
  <2> QED
    BY Zenon, <2>1, <2>2, <2>3, HostMoves
<1>3. ASSUME NEW t \in Tokens PROVE OutboundOf(t)'
  BY Zenon, <1>1, <1>2 DEF OutboundOf
<1>4. hpc' = "copy" => at' \in Tokens /\ out'[at'].committed /\ out'[at'].acknowledged = "none"
  <2>1. CASE Turn
    <3>1. hpc' = "copy" => at' \in Tokens /\ out[at'].committed /\ out[at'].acknowledged = "none"
      BY <2>1 DEF Turn, Waiting
    <3> QED
      BY Zenon, <2>1, <3>1 DEF Turn
  <2>2. CASE ~Turn
    BY Zenon, <2>2 DEF HostStep, Releases, Takes, Answering, Delivers, Settles, Stops, Erases
  <2> QED
    BY Zenon, <2>1, <2>2
<1> QED
  BY Zenon, <1>3, <1>4 DEF OutboundInv

\* Outside the delivery of d, the host disturbs what is known of d only by losing custody.
LEMMA Untouched ==
  ASSUME NEW d \in Deliveries, InboundOf(d), ~Serving(d), ~Serving(d)',
         inb'[d].committed = inb[d].committed, inb'[d].acknowledged = inb[d].acknowledged,
         inb'[d].settled = inb[d].settled, cell'[d].acknowledged = cell[d].acknowledged,
         out[Delivery[d].token].acknowledged = "accepted" =>
           /\ out'[Delivery[d].token].acknowledged = "accepted"
           /\ custody'[Delivery[d].token] \in {custody[Delivery[d].token], "erased"}
  PROVE  InboundOf(d)'
<1>1. /\ inb'[d].committed => cell'[d].acknowledged # "none"
      /\ inb'[d].settled # "host" => cell'[d].acknowledged # "none"
  BY Zenon DEF InboundOf
<1>2. /\ ~inb'[d].committed => inb'[d].settled = "host" /\ inb'[d].acknowledged = "none"
      /\ cell'[d].acknowledged = "delivered" => inb'[d].settled = "usable"
      /\ cell'[d].acknowledged \notin {"none", "delivered"} =>
           inb'[d].settled = "withdrawn" \/ ~inb'[d].committed
  BY Zenon DEF InboundOf
<1>3. ASSUME \/ cell[d].acknowledged \notin {"none", "custody_unavailable", "request_invalid"}
             \/ inb[d].settled # "host"
      PROVE  /\ out'[Delivery[d].token].acknowledged = "accepted"
             /\ custody[Delivery[d].token] # "held" => custody'[Delivery[d].token] # "held"
  <2>1. out[Delivery[d].token].acknowledged = "accepted"
    BY Zenon, <1>3 DEF InboundOf
  <2> QED
    BY Zenon, <2>1
<1>4. /\ cell'[d].acknowledged \notin {"none", "custody_unavailable", "request_invalid"}
      /\ lastUseSlot[Delivery[d].token] = transferStep[d]
      => custody'[Delivery[d].token] # "held"
  BY Zenon, <1>3 DEF InboundOf
<1>5. \/ cell'[d].acknowledged \notin {"none", "custody_unavailable", "request_invalid"}
      \/ inb'[d].settled # "host"
      => out'[Delivery[d].token].acknowledged = "accepted"
  BY Zenon, <1>3
<1> QED
  BY Zenon, <1>1, <1>2, <1>4, <1>5 DEF InboundOf

\* The answer to delivery d.
LEMMA InboundAnswered ==
  ASSUME IInv, Answering, NEW d, d = at
  PROVE  InboundOf(d)'
<1>1. /\ d \in Deliveries /\ InboundOf(d) /\ cell[d].acknowledged = "none"
      /\ hpc' = "completion" /\ out' = out
      /\ Delivery[d].token \in Tokens
  BY Zenon, DeliveryType DEF IInv, InboundInv, Answering
<1>2. hpc' \notin Delivering
  BY <1>1 DEF Delivering, Waiting
<1>3. custody[Delivery[d].token] = "held" => out[Delivery[d].token].acknowledged = "accepted"
  BY Zenon, <1>1 DEF IInv, OutboundInv, OutboundOf
<1>4. lastUseSlot[Delivery[d].token] = transferStep[d] => custody'[Delivery[d].token] # "held"
  <2>1. lastUseSlot[Delivery[d].token] = transferStep[d] => custody'[Delivery[d].token] = "erased"
    BY Zenon DEF Answering
  <2> QED
    BY <2>1
<1>5. cell'[d].acknowledged # "none" /\ inb'[d].committed = inb[d].committed
      /\ inb'[d].acknowledged = inb[d].acknowledged
  BY Zenon, <1>1 DEF Answering
<1>6. CASE hpc = "transfer"
  <2>1. ~Serving(d)
    BY <1>6 DEF Serving, Delivering, Waiting
  <2>2. ~inb[d].committed /\ inb[d].settled = "host" /\ inb[d].acknowledged = "none"
    BY Zenon, <1>1, <2>1 DEF InboundOf
  <2>3. /\ inb'[d].settled = "host" /\ cell'[d].acknowledged # "delivered"
        /\ cell'[d].acknowledged \notin {"none", "custody_unavailable", "request_invalid"} =>
             out[Delivery[d].token].acknowledged = "accepted"
    BY Zenon, <1>3, <1>6, <2>2 DEF Answering, Waiting
  <2> QED
    BY Zenon, <1>1, <1>2, <1>4, <1>5, <2>2, <2>3 DEF InboundOf, Serving
<1>7. CASE hpc \in Waiting
  <2>1. Serving(d) /\ inb'[d].settled = "withdrawn" /\ cell'[d].acknowledged # "delivered"
    BY Zenon, <1>7 DEF Serving, Delivering, Answering, Waiting
  <2>2. inb[d].committed /\ out[Delivery[d].token].acknowledged = "accepted"
    BY Zenon, <1>1, <1>3, <1>7, <2>1 DEF InboundOf
  <2> QED
    BY Zenon, <1>1, <1>2, <1>4, <1>5, <2>1, <2>2 DEF InboundOf, Serving
<1>8. CASE hpc = "settled"
  <2>1. Serving(d) /\ inb'[d].settled = inb[d].settled /\ cell'[d].acknowledged = "delivered"
    BY Zenon, <1>8 DEF Serving, Delivering, Answering, Waiting
  <2>2. inb[d].settled = "usable" /\ out[Delivery[d].token].acknowledged = "accepted"
    BY Zenon, <1>1, <1>3, <1>8, <2>1 DEF InboundOf
  <2>3. inb[d].committed
    BY Zenon, <1>1, <2>2 DEF InboundOf
  <2> QED
    BY Zenon, <1>1, <1>2, <1>4, <1>5, <2>1, <2>2, <2>3 DEF InboundOf, Serving
<1> QED
  BY Zenon, <1>6, <1>7, <1>8 DEF Answering

LEMMA InboundByHost ==
  ASSUME IInv, HostStep
  PROVE  InboundInv'
<1>0. InboundInv /\ OutboundInv
  BY Zenon DEF IInv
<1>1. CASE Answering
  <2>1. hpc' \notin Delivering /\ at \in Deliveries
    BY Zenon, <1>1 DEF Answering, Delivering, Waiting
  <2>2. ASSUME NEW d \in Deliveries, d # at PROVE InboundOf(d)'
    <3>1. /\ InboundOf(d) /\ ~Serving(d) /\ ~Serving(d)' /\ Delivery[d].token \in Tokens
      BY Zenon, <1>0, <2>1, <2>2, DeliveryType DEF InboundInv, Serving
    <3>2. /\ inb'[d].committed = inb[d].committed /\ inb'[d].acknowledged = inb[d].acknowledged
          /\ inb'[d].settled = inb[d].settled /\ cell'[d].acknowledged = cell[d].acknowledged
          /\ out' = out
          /\ custody'[Delivery[d].token] \in {custody[Delivery[d].token], "erased"}
      BY Zenon, <1>1, <2>2, <3>1 DEF Answering
    <3> QED
      BY Zenon, <3>1, <3>2, Untouched
  <2> QED
    BY Zenon, <1>1, <2>1, <2>2, InboundAnswered DEF InboundInv
<1>2. CASE hpc \notin Delivering /\ hpc' \notin Delivering /\ ~Answering
  <2>1. ASSUME NEW d \in Deliveries PROVE InboundOf(d)'
    <3>1. /\ InboundOf(d) /\ ~Serving(d) /\ ~Serving(d)' /\ Delivery[d].token \in Tokens
      BY Zenon, <1>0, <1>2, DeliveryType DEF InboundInv, Serving
    <3>2. Turn \/ Releases \/ Takes \/ Stops \/ Erases
      BY Zenon, <1>2 DEF HostStep, Delivers, Settles, Delivering, Waiting
    <3>3. /\ inb'[d].committed = inb[d].committed /\ inb'[d].acknowledged = inb[d].acknowledged
          /\ inb'[d].settled = inb[d].settled /\ cell'[d].acknowledged = cell[d].acknowledged
      BY Zenon, <3>2 DEF Turn, Releases, Takes, Stops, Erases
    <3>4. ASSUME out[Delivery[d].token].acknowledged = "accepted"
          PROVE  /\ out'[Delivery[d].token].acknowledged = "accepted"
                 /\ custody'[Delivery[d].token] \in {custody[Delivery[d].token], "erased"}
      <4>1. CASE Takes
        <5>1. out[at].acknowledged = "none"
          BY Zenon, <1>0, <4>1 DEF Takes, OutboundInv
        <5>2. Delivery[d].token # at
          BY <3>4, <5>1
        <5> QED
          BY Zenon, <3>1, <3>4, <4>1, <5>2 DEF Takes
      <4>2. CASE Turn \/ Releases \/ Stops \/ Erases
        BY Zenon, <3>1, <3>4, <4>2 DEF Turn, Releases, Stops, Erases
      <4> QED
        BY Zenon, <3>2, <4>1, <4>2
    <3> QED
      BY Zenon, <3>1, <3>3, <3>4, Untouched
  <2> QED
    BY Zenon, <1>2, <2>1 DEF InboundInv
<1>3. ASSUME NEW d \in Deliveries, d # at', at' = at \/ hpc \notin Delivering,
             UNCHANGED <<out, cell, custody>>,
             inb'[d].committed = inb[d].committed, inb'[d].acknowledged = inb[d].acknowledged,
             inb'[d].settled = inb[d].settled
      PROVE  InboundOf(d)'
  <2>1. InboundOf(d) /\ ~Serving(d) /\ ~Serving(d)'
    BY Zenon, <1>0, <1>3 DEF InboundInv, Serving
  <2> QED
    BY Zenon, <1>3, <2>1, Untouched
<1>4. CASE Turn /\ (hpc \in Delivering \/ hpc' \in Delivering)
  <2>1. \/ /\ hpc = "transfer" /\ hpc' = "deliver" /\ at' \in Deliveries
           /\ cell[at'].acknowledged = "none" /\ custody[Delivery[at'].token] = "held"
        \/ /\ hpc \in {"wait", "usable"} /\ hpc' \in Waiting /\ at' = at
           /\ hpc' = "compare" => inb[at].acknowledged = "accepted"
    BY <1>4 DEF Turn, Delivering, Waiting
  <2>2. UNCHANGED <<out, inb, cell, custody>>
    BY Zenon, <1>4 DEF Turn
  <2>3. CASE hpc = "transfer"
    <3>1. /\ hpc' = "deliver" /\ at' \in Deliveries /\ hpc \notin Delivering
          /\ hpc' \notin Waiting \cup {"compare", "settled"}
      BY <2>1, <2>3 DEF Delivering, Waiting
    <3>2. ASSUME NEW d \in Deliveries, d = at' PROVE InboundOf(d)'
      <4>1. InboundOf(d) /\ ~Serving(d) /\ cell[d].acknowledged = "none"
            /\ custody[Delivery[d].token] = "held"
        BY Zenon, <1>0, <2>1, <2>3, <3>1, <3>2 DEF InboundInv, Serving
      <4>2. ~inb[d].committed /\ inb[d].settled = "host" /\ inb[d].acknowledged = "none"
        BY Zenon, <4>1 DEF InboundOf
      <4> QED
        BY Zenon, <2>2, <3>1, <4>1, <4>2 DEF InboundOf
    <3> QED
      BY Zenon, <1>3, <2>2, <3>1, <3>2 DEF InboundInv
  <2>4. CASE hpc # "transfer"
    <3>1. /\ hpc \in Waiting /\ hpc' \in Waiting /\ at' = at /\ hpc \in Delivering
          /\ hpc' # "deliver" /\ hpc' # "settled" /\ hpc' \in Delivering
          /\ hpc # "deliver" /\ hpc # "settled"
          /\ hpc' = "compare" => inb[at].acknowledged = "accepted"
      BY <2>1, <2>4 DEF Delivering, Waiting
    <3>2. ASSUME NEW d \in Deliveries, d = at' PROVE InboundOf(d)'
      <4>1. InboundOf(d) /\ Serving(d) /\ Serving(d)'
        BY Zenon, <1>0, <3>1, <3>2 DEF InboundInv, Serving
      <4>2. /\ inb[d].committed /\ inb[d].settled = "host"
            /\ cell[d].acknowledged = "none" /\ custody[Delivery[d].token] = "held"
        BY Zenon, <3>1, <4>1 DEF InboundOf
      <4> QED
        BY Zenon, <2>2, <3>1, <3>2, <4>1, <4>2 DEF InboundOf
    <3> QED
      BY Zenon, <1>0, <1>3, <2>2, <3>1, <3>2 DEF InboundInv
  <2> QED
    BY Zenon, <2>3, <2>4
<1>5. CASE Delivers
  <2>1. /\ hpc = "deliver" /\ hpc' = "wait" /\ at' = at /\ UNCHANGED <<out, cell, custody>>
        /\ inb'[at].committed /\ inb'[at].acknowledged = "none"
        /\ inb'[at].settled = inb[at].settled
    BY Zenon, <1>5 DEF Delivers
  <2>2. hpc \in Delivering /\ hpc' \in Delivering /\ hpc' \in Waiting
        /\ hpc' \notin {"deliver", "compare", "settled"}
    BY Zenon, <2>1 DEF Delivering, Waiting
  <2>3. ASSUME NEW d \in Deliveries, d = at' PROVE InboundOf(d)'
    <3>1. InboundOf(d) /\ Serving(d) /\ Serving(d)'
      BY Zenon, <1>0, <2>1, <2>2, <2>3 DEF InboundInv, Serving
    <3>2. /\ ~inb[d].committed /\ inb[d].settled = "host"
          /\ cell[d].acknowledged = "none" /\ custody[Delivery[d].token] = "held"
      BY Zenon, <2>1, <3>1 DEF InboundOf
    <3>3. /\ inb'[d].committed /\ inb'[d].settled = "host" /\ cell'[d].acknowledged = "none"
          /\ custody'[Delivery[d].token] = "held"
      BY Zenon, <2>1, <2>3, <3>2
    <3> QED
      BY Zenon, <2>2, <3>1, <3>3 DEF InboundOf
  <2>4. ASSUME NEW d \in Deliveries, d # at' PROVE InboundOf(d)'
    BY Zenon, <1>3, <1>5, <2>1, <2>4 DEF Delivers
  <2> QED
    BY Zenon, <1>0, <2>1, <2>2, <2>3, <2>4 DEF InboundInv
<1>6. CASE Settles
  <2>1. /\ hpc = "compare" /\ hpc' = "settled" /\ at' = at /\ UNCHANGED <<out, cell, custody>>
        /\ inb'[at].settled = "usable"
    BY Zenon, <1>6 DEF Settles
  <2>2. /\ hpc \in Delivering /\ hpc' \in Delivering /\ hpc \in Waiting
        /\ hpc' \notin Waiting /\ hpc' \notin {"deliver", "compare"}
    BY <2>1 DEF Delivering, Waiting
  <2>3. ASSUME NEW d \in Deliveries, d = at' PROVE InboundOf(d)'
    <3>1. InboundOf(d) /\ Serving(d) /\ Serving(d)' /\ Delivery[d].token \in Tokens
      BY Zenon, <1>0, <2>1, <2>2, <2>3, DeliveryType DEF InboundInv, Serving
    <3>2. /\ inb[d].committed
          /\ cell[d].acknowledged = "none" /\ custody[Delivery[d].token] = "held"
      BY Zenon, <2>2, <3>1 DEF InboundOf
    <3>3. out[Delivery[d].token].acknowledged = "accepted"
      BY Zenon, <1>0, <3>1, <3>2 DEF OutboundInv, OutboundOf
    <3>4. /\ inb'[d].committed /\ inb'[d].settled = "usable" /\ cell'[d].acknowledged = "none"
          /\ custody'[Delivery[d].token] = "held"
          /\ out'[Delivery[d].token].acknowledged = "accepted"
      BY Zenon, <1>6, <2>1, <2>3, <3>2, <3>3 DEF Settles
    <3> QED
      BY Zenon, <2>1, <2>2, <3>1, <3>4 DEF InboundOf
  <2>4. ASSUME NEW d \in Deliveries, d # at' PROVE InboundOf(d)'
    BY Zenon, <1>3, <1>6, <2>1, <2>4 DEF Settles
  <2> QED
    BY Zenon, <1>0, <2>1, <2>2, <2>3, <2>4 DEF InboundInv
<1>7. Releases \/ Takes \/ Stops \/ Erases => hpc \notin Delivering /\ hpc' \notin Delivering
  BY Zenon DEF Releases, Takes, Stops, Erases, Delivering, Waiting
<1> QED
  BY Zenon, <1>1, <1>2, <1>4, <1>5, <1>6, <1>7 DEF HostStep

LEMMA BytesByHost ==
  ASSUME IInv, HostStep
  PROVE  BytesInv'
<1> SUFFICES ASSUME NEW d \in Deliveries, inb'[d].settled = "usable", inb'[d].bytes # "token",
                    wpc'[recipient[d]] # "exited"
             PROVE  \A j \in Steps : Plan[j].op = "consume" /\ Plan[j].of = d => j < step'
  BY Zenon DEF BytesInv, BytesOf
<1>1. BytesOf(d) /\ InboundOf(d) /\ FramingInv /\ PlaceInv /\ recipient[d] \in Actors
  BY Zenon, DeliveryType DEF IInv, BytesInv, InboundInv
<1>2. inb[d].settled = "usable" /\ inb[d].bytes # "token"
  <2>1. CASE Answering
    <3>1. inb'[d].settled = inb[d].settled
      BY Zenon, <2>1 DEF Answering
    <3> QED
      BY Zenon, <2>1, <3>1 DEF Answering
  <2>2. CASE Delivers
    <3>1. hpc = "deliver" /\ hpc \in Delivering
      BY Zenon, <2>2 DEF Delivers, Delivering
    <3>2. Serving(d) => inb[d].settled = "host"
      BY Zenon, <1>1, <3>1 DEF InboundOf
    <3>3. d = at => inb[d].settled = "host" /\ inb'[d].settled = inb[d].settled
      BY Zenon, <2>2, <3>1, <3>2 DEF Serving, Delivers
    <3>4. d # at
      BY Zenon, <3>3
    <3> QED
      BY Zenon, <2>2, <3>4 DEF Delivers
  <2>3. CASE Settles
    <3>1. d # at
      BY Zenon, <2>3 DEF Settles
    <3> QED
      BY Zenon, <2>3, <3>1 DEF Settles
  <2>4. CASE Erases
    <3>1. recipient[d] \notin reaped
      BY Zenon, <1>1, <2>4 DEF Erases, FramingInv, FramingOf
    <3> QED
      BY Zenon, <2>4, <3>1 DEF Erases
  <2>5. CASE Turn \/ Releases \/ Takes \/ Stops
    BY Zenon, <2>5 DEF Turn, Releases, Takes, Stops
  <2> QED
    BY Zenon, <2>1, <2>2, <2>3, <2>4, <2>5 DEF HostStep
<1>3. wpc[recipient[d]] # "exited"
  <2>1. CASE Releases
    BY Zenon, <1>1, <2>1 DEF Releases
  <2>2. CASE Advances \/ Moves
    BY Zenon, <1>1, <2>2 DEF Advances, Moves
  <2> QED
    BY Zenon, <2>1, <2>2, HostMoves
<1>4. \A j \in Steps : Plan[j].op = "consume" /\ Plan[j].of = d => j < step
  BY Zenon, <1>1, <1>2, <1>3 DEF BytesOf
<1>5. CASE Releases
  <2>1. step' = Min(stepsOf[phase]) /\ hpc = "arrival" /\ phase \in Phases
    BY Zenon, <1>1, <1>5 DEF Releases, PlaceInv
  <2>2. step' \in Steps /\ Plan[step'].phase = phase
    BY Zenon, <2>1, PhaseSteps
  <2>3. step <= step'
    BY Zenon, <1>1, <2>1, <2>2 DEF PlaceInv
  <2>4. step \in Nat /\ step' \in Nat /\ Steps \in SUBSET Nat
    BY Zenon, <2>2, PlanType, StepIsNatural DEF IInv
  <2> QED
    BY <1>4, <2>3, <2>4
<1>6. CASE Advances \/ Moves
  BY Zenon, <1>4, <1>6 DEF Advances, Moves
<1> QED
  BY Zenon, <1>5, <1>6, HostMoves

LEMMA ErasedByHost ==
  ASSUME IInv, HostStep
  PROVE  ErasedInv'
<1>1. CASE Erases
  <2>1. \A t \in Tokens : /\ custody'[t] = "erased"
                          /\ issuer[t] \in reaped' => out'[t].bytes = "empty"
    BY Zenon, <1>1 DEF Erases
  <2>2. \A d \in Deliveries : recipient[d] \in reaped' => inb'[d].bytes = "empty"
    BY Zenon, <1>1 DEF Erases
  <2>3. "erased" # "held"
    OBVIOUS
  <2> QED
    BY Zenon, <2>1, <2>2, <2>3 DEF ErasedInv
<1>2. CASE ~Erases
  <2>1. hpc' # "finished"
    BY Zenon, <1>2 DEF HostStep, Turn, Releases, Takes, Answering, Delivers, Settles, Stops, Waiting
  <2> QED
    BY Zenon, <2>1 DEF ErasedInv
<1> QED
  BY Zenon, <1>1, <1>2

\* The host, for all of it.
LEMMA HostKeeps ==
  ASSUME IInv, Host
  PROVE  IInv'
BY Zenon, HostSteps, PlaceByHost, BusyByHost, FramingByHost, OutboundByHost, InboundByHost,
   BytesByHost, ErasedByHost DEF IInv

-----------------------------------------------------------------------------
(* The theorems.                                                            *)

LEMMA InitInv ==
  ASSUME Init
  PROVE  IInv
<1>1. TypeInv
  <2>1. /\ out \in [Tokens -> Outbound] /\ inb \in [Deliveries -> Inbound]
        /\ cell \in [Deliveries -> Request]
    BY Zenon DEF Init, Outbound, Inbound, Request, Bytes, Acknowledgements, Answers
  <2>2. wpc \in [Actors -> WorkerPc] /\ framing \in [Actors -> Nat]
    BY DEF Init, WorkerPc
  <2>3. step \in 1..Len(Plan) + 1
    <3>1. step = 1 /\ Len(Plan) \in Nat
      BY Zenon, PlanType DEF Init
    <3> QED
      BY ONLY <3>1
  <2>4. hpc \in HostPc /\ at \in Nat /\ phase \in Nat
    BY Zenon DEF Init, HostPc
  <2>5. custody \in [Tokens -> {"none", "held", "erased"}]
    BY Zenon DEF Init
  <2>6. done \subseteq Actors /\ stopped \subseteq Actors /\ reaped \subseteq Actors
    BY DEF Init
  <2> QED
    BY Zenon, <2>1, <2>2, <2>3, <2>4, <2>5, <2>6 DEF TypeInv
<1>2. hpc \notin Visiting \cup {"arrival", "stop", "finished", "copy"} /\ hpc \notin Delivering
  BY Zenon DEF Init, Visiting, Delivering, Waiting
<1>3. PlaceInv
  <2>1. \A j \in Steps : step <= j
    <3>1. step = 1 /\ Steps = 1..Len(Plan) /\ Len(Plan) \in Nat
      BY Zenon, PlanType DEF Init
    <3> QED
      BY ONLY <3>1
  <2> QED
    BY Zenon, <1>2, <2>1 DEF PlaceInv
<1>4. \A a \in Actors : wpc[a] = "parked" /\ framing[a] = 0 /\ a \notin reaped
  BY DEF Init
<1>5. BusyInv /\ FramingInv
  BY <1>4 DEF BusyInv, BusyOf, Busy, FramingInv, FramingOf
<1>6. \A t \in Tokens : /\ ~out[t].committed /\ out[t].acknowledged = "none"
                        /\ custody[t] = "none"
  BY DEF Init
<1>7. OutboundInv
  BY Zenon, <1>2, <1>6 DEF OutboundInv, OutboundOf
<1>8. \A d \in Deliveries : /\ ~inb[d].committed /\ inb[d].acknowledged = "none"
                            /\ inb[d].settled = "host" /\ cell[d].acknowledged = "none"
  BY DEF Init
<1>9. InboundInv
  BY Zenon, <1>2, <1>8 DEF InboundInv, InboundOf, Serving
<1>10. BytesInv /\ ErasedInv
  BY Zenon, <1>2, <1>8 DEF BytesInv, BytesOf, ErasedInv
<1> QED
  BY Zenon, <1>1, <1>3, <1>5, <1>7, <1>9, <1>10 DEF IInv

LEMMA StepInv ==
  ASSUME IInv, [Next]_vars
  PROVE  IInv'
<1>1. CASE UNCHANGED <<out, inb, cell, wpc, framing, step, done, hpc, at, phase, custody,
                       stopped, reaped>>
  <2>1. TypeInv' /\ PlaceInv' /\ ErasedInv'
    BY Zenon, <1>1 DEF IInv, TypeInv, PlaceInv, ErasedInv
  <2>2. BusyInv'
    BY Zenon, <1>1 DEF IInv, BusyInv, BusyOf, consumable
  <2>3. FramingInv'
    BY Zenon, <1>1 DEF IInv, FramingInv, FramingOf, unanswered
  <2>4. OutboundInv'
    BY Zenon, <1>1 DEF IInv, OutboundInv, OutboundOf
  <2>5. InboundInv'
    <3>1. ASSUME NEW d \in Deliveries, InboundOf(d) PROVE InboundOf(d)'
      BY ONLY Zenon, <1>1, <3>1 DEF InboundOf, Serving
    <3> QED
      BY Zenon, <1>1, <3>1 DEF IInv, InboundInv
  <2>6. BytesInv'
    BY Zenon, <1>1 DEF IInv, BytesInv, BytesOf
  <2> QED
    BY Zenon, <2>1, <2>2, <2>3, <2>4, <2>5, <2>6 DEF IInv
<1>2. CASE TimePasses \/ Finished \/ UNCHANGED vars
  BY Zenon, <1>1, <1>2 DEF TimePasses, Finished, vars, slotVars, workerVars, hostVars
<1>3. CASE Host
  BY Zenon, <1>3, HostKeeps
<1>4. ASSUME NEW a \in Actors, Worker(a) PROVE IInv'
  BY Zenon, <1>4, ActorKeeps
<1> QED
  BY Zenon, <1>2, <1>3, <1>4 DEF Next

\* The protocol of the slots: the host releases operations in the order of the plan, an
\* outbound slot is committed and answered once, a delivery goes from request to answer
\* without a second commit, and a usable copy keeps its bytes as long as they are needed.
THEOREM Invariant == Spec => []IInv
<1>1. Init => IInv
  BY InitInv
<1>2. IInv /\ [Next]_vars => IInv'
  BY StepInv
<1> QED
  BY <1>1, <1>2, PTL DEF Spec

\* What an actor has in hand, and why.
LEMMA InHand ==
  ASSUME IInv, NEW a \in Actors
  PROVE  /\ \A x : x \in ActorWrites(a) =>
              \/ \E t \in Tokens : x = <<"out", t>> /\ wpc[a] = "publishing"
                                   /\ issueStep[t] = step /\ issuer[t] = a
              \/ \E d \in Deliveries : /\ x = <<"in", d>> /\ inb[d].settled # "host"
                                       /\ inb[d].committed
                                       /\ recipient[d] = a /\ wpc[a] # "exited"
         /\ \A x : x \in ActorReads(a) =>
              \E d \in Deliveries : /\ x = <<"in", d>> /\ inb[d].committed
                                    /\ recipient[d] = a /\ wpc[a] # "exited"
<1>0. BusyOf(a) /\ FramingOf(a) /\ InboundInv
  BY Zenon DEF IInv, BusyInv, FramingInv
<1>1. ASSUME wpc[a] = "consuming"
      PROVE  /\ Plan[step].of \in Deliveries /\ inb[Plan[step].of].settled = "usable"
             /\ inb[Plan[step].of].committed /\ recipient[Plan[step].of] = a
  <2>1. wpc[a] \in Busy
    BY <1>1 DEF Busy
  <2>2. /\ step \in Steps /\ Plan[step].actor = a /\ Plan[step].op = "consume"
        /\ consumable(Plan[step].of)
    BY Zenon, <1>0, <1>1, <2>1 DEF BusyOf
  <2> QED
    BY Zenon, <2>2, DeliveryType DEF consumable
<1>2. ASSUME wpc[a] = "publishing"
      PROVE  /\ Plan[step].of \in Tokens /\ issueStep[Plan[step].of] = step
             /\ issuer[Plan[step].of] = a
  <2>1. wpc[a] \in Busy
    BY <1>2 DEF Busy
  <2>2. step \in Steps /\ Plan[step].actor = a /\ Plan[step].op = "issue"
    BY Zenon, <1>0, <1>2, <2>1 DEF BusyOf
  <2> QED
    BY Zenon, <2>2, IssueSteps
<1>3. ASSUME NEW x, x \in ActorWrites(a)
      PROVE  \/ \E t \in Tokens : x = <<"out", t>> /\ wpc[a] = "publishing"
                                  /\ issueStep[t] = step /\ issuer[t] = a
             \/ \E d \in Deliveries : /\ x = <<"in", d>> /\ inb[d].settled # "host"
                                      /\ inb[d].committed
                                      /\ recipient[d] = a /\ wpc[a] # "exited"
  <2>1. \/ wpc[a] = "publishing" /\ x = <<"out", Plan[step].of>>
        \/ wpc[a] = "consuming" /\ x = <<"in", Plan[step].of>>
        \/ /\ wpc[a] \in {"leaving", "cancelled"}
           /\ \E d \in erasable(a) : x = <<"in", d>>
    BY <1>3 DEF ActorWrites
  <2>2. CASE wpc[a] = "publishing"
    BY Zenon, <1>2, <2>1, <2>2
  <2>3. CASE wpc[a] = "consuming"
    BY Zenon, <1>1, <2>1, <2>3
  <2>4. CASE wpc[a] \in {"leaving", "cancelled"}
    <3>1. PICK d \in erasable(a) : x = <<"in", d>>
      BY <2>1, <2>4
    <3>2. d \in Deliveries /\ recipient[d] = a /\ inb[d].settled # "host"
      BY Zenon DEF erasable
    <3>3. inb[d].committed
      BY Zenon, <1>0, <3>2 DEF InboundInv, InboundOf
    <3>4. wpc[a] # "exited"
      BY <2>4
    <3> QED
      BY Zenon, <3>1, <3>2, <3>3, <3>4
  <2> QED
    BY Zenon, <2>1, <2>2, <2>3, <2>4
<1>4. ASSUME NEW x, x \in ActorReads(a)
      PROVE  \E d \in Deliveries : /\ x = <<"in", d>> /\ inb[d].committed
                                   /\ recipient[d] = a /\ wpc[a] # "exited"
  <2>1. \/ framing[a] # 0 /\ x = <<"in", framing[a]>>
        \/ wpc[a] = "consuming" /\ x = <<"in", Plan[step].of>>
    BY <1>4 DEF ActorReads
  <2>2. CASE framing[a] # 0 /\ x = <<"in", framing[a]>>
    <3>1. framing[a] \in unanswered(a) /\ wpc[a] \in {"parked", "exchange"}
      BY Zenon, <1>0, <2>2 DEF FramingOf
    <3>2. framing[a] \in Deliveries /\ recipient[framing[a]] = a /\ inb[framing[a]].committed
      BY Zenon, <3>1 DEF unanswered
    <3>3. wpc[a] # "exited"
      BY <3>1
    <3> QED
      BY Zenon, <2>2, <3>2, <3>3
  <2>3. CASE wpc[a] = "consuming" /\ x = <<"in", Plan[step].of>>
    <3>1. wpc[a] # "exited"
      BY <2>3
    <3> QED
      BY Zenon, <1>1, <2>3, <3>1
  <2> QED
    BY Zenon, <2>1, <2>2, <2>3
<1> QED
  BY Zenon, <1>3, <1>4

\* Host and actor never have a payload in hand together when one of them writes it.
THEOREM PayloadsExclusive == Spec => []ExclusivePayload
<1>1. IInv => ExclusivePayload
  <2> SUFFICES ASSUME IInv, NEW a \in Actors
               PROVE  /\ HostWrites \cap (ActorWrites(a) \cup ActorReads(a)) = {}
                      /\ HostReads \cap ActorWrites(a) = {}
    BY Zenon DEF ExclusivePayload
  <2>0. OutboundInv /\ InboundInv /\ FramingInv
    BY Zenon DEF IInv
  <2>t. \A x, y : <<"out", x>> # <<"in", y>> /\ (<<"out", x>> = <<"out", y>> => x = y)
                  /\ (<<"in", x>> = <<"in", y>> => x = y)
    OBVIOUS
  <2>h. /\ \A x : x \in ActorWrites(a) =>
             \/ \E t \in Tokens : x = <<"out", t>> /\ wpc[a] = "publishing"
                                  /\ issueStep[t] = step /\ issuer[t] = a
             \/ \E d \in Deliveries : /\ x = <<"in", d>> /\ inb[d].settled # "host"
                                      /\ inb[d].committed
                                      /\ recipient[d] = a /\ wpc[a] # "exited"
        /\ \A x : x \in ActorReads(a) =>
             \E d \in Deliveries : /\ x = <<"in", d>> /\ inb[d].committed
                                   /\ recipient[d] = a /\ wpc[a] # "exited"
    BY Zenon, InHand
  <2>1. ASSUME NEW x \in HostWrites
        PROVE  \/ hpc = "copy" /\ x = <<"out", at>>
               \/ hpc = "deliver" /\ x = <<"in", at>>
               \/ /\ hpc = "erase"
                  /\ \/ \E t \in Tokens : x = <<"out", t>> /\ issuer[t] \in reaped
                     \/ \E d \in Deliveries : x = <<"in", d>> /\ recipient[d] \in reaped
    BY <2>1 DEF HostWrites, erasedAtFinish
  <2>2. ASSUME NEW x \in HostWrites, x \in ActorWrites(a) \cup ActorReads(a) PROVE FALSE
    <3>1. \/ \E t \in Tokens : x = <<"out", t>> /\ wpc[a] = "publishing"
                               /\ issueStep[t] = step /\ issuer[t] = a
          \/ \E d \in Deliveries : /\ x = <<"in", d>> /\ inb[d].committed
                                   /\ recipient[d] = a /\ wpc[a] # "exited"
      BY ONLY Zenon, <2>2, <2>h
    <3>2. CASE hpc = "copy" /\ x = <<"out", at>>
      <4>1. wpc[a] = "publishing" /\ issueStep[at] = step
        BY Zenon, <2>t, <3>1, <3>2
      <4>2. at \in Tokens /\ out[at].committed
        BY Zenon, <2>0, <3>2 DEF OutboundInv
      <4>3. wpc[a] \notin {"acting", "publishing"}
        BY Zenon, <2>0, <4>1, <4>2 DEF OutboundInv, OutboundOf
      <4> QED
        BY <4>1, <4>3
    <3>3. CASE hpc = "deliver" /\ x = <<"in", at>>
      <4>1. at \in Deliveries /\ inb[at].committed
        BY Zenon, <2>t, <3>1, <3>3
      <4>2. Serving(at)
        BY <3>3 DEF Serving, Delivering
      <4>3. InboundOf(at)
        BY Zenon, <2>0, <4>1 DEF InboundInv
      <4> QED
        BY Zenon, <3>3, <4>1, <4>2, <4>3 DEF InboundOf
    <3>4. ASSUME NEW t \in Tokens, x = <<"out", t>>, issuer[t] \in reaped PROVE FALSE
      <4>1. wpc[a] = "publishing" /\ issuer[t] = a
        BY Zenon, <2>t, <3>1, <3>4
      <4>2. wpc[a] = "exited"
        BY Zenon, <2>0, <3>4, <4>1 DEF FramingInv, FramingOf
      <4> QED
        BY <4>1, <4>2
    <3>5. ASSUME NEW d \in Deliveries, x = <<"in", d>>, recipient[d] \in reaped PROVE FALSE
      <4>1. recipient[d] = a /\ wpc[a] # "exited"
        BY Zenon, <2>t, <3>1, <3>5
      <4> QED
        BY Zenon, <2>0, <3>5, <4>1 DEF FramingInv, FramingOf
    <3> QED
      BY Zenon, <2>1, <3>2, <3>3, <3>4, <3>5
  <2>3. ASSUME NEW x \in HostReads, x \in ActorWrites(a) PROVE FALSE
    <3>1. hpc = "compare" /\ x = <<"in", at>>
      BY <2>3 DEF HostReads
    <3>2. at \in Deliveries /\ inb[at].settled # "host"
      <4>1. \/ \E t \in Tokens : x = <<"out", t>>
            \/ \E d \in Deliveries : x = <<"in", d>> /\ inb[d].settled # "host"
        BY ONLY Zenon, <2>3, <2>h
      <4> QED
        BY Zenon, <2>t, <3>1, <4>1
    <3>3. Serving(at) /\ hpc \in Waiting
      BY <3>1 DEF Serving, Delivering, Waiting
    <3>4. InboundOf(at)
      BY Zenon, <2>0, <3>2 DEF InboundInv
    <3> QED
      BY Zenon, <3>2, <3>3, <3>4 DEF InboundOf
  <2> QED
    BY Zenon, <2>2, <2>3
<1> QED
  BY <1>1, Invariant, PTL

\* The native consume call is given bytes the host took into custody, copied and found equal.
THEOREM ConsumesIssued == Spec => []ConsumesWhatWasIssued
<1>1. IInv => ConsumesWhatWasIssued
  <2> SUFFICES ASSUME IInv, NEW a \in Actors, wpc[a] = "consuming"
               PROVE  /\ inb[Plan[step].of].bytes = "token"
                      /\ out[Delivery[Plan[step].of].token].acknowledged = "accepted"
                      /\ cell[Plan[step].of].acknowledged \in {"none", "delivered"}
    BY Zenon DEF ConsumesWhatWasIssued
  <2> DEFINE d == Plan[step].of
  <2>1. wpc[a] \in Busy /\ wpc[a] # "exited"
    BY DEF Busy
  <2>2. /\ step \in Steps /\ Plan[step].op = "consume" /\ Plan[step].actor = a
        /\ consumable(d)
    BY Zenon, <2>1 DEF IInv, BusyInv, BusyOf
  <2>3. d \in Deliveries /\ recipient[d] = a
    BY Zenon, <2>2, DeliveryType
  <2>4. inb[d].settled = "usable" /\ inb[d].committed
    BY Zenon, <2>2 DEF consumable
  <2>5. InboundOf(d) /\ BytesOf(d)
    BY Zenon, <2>3 DEF IInv, InboundInv, BytesInv
  <2>6. inb[d].bytes = "token"
    <3>1. ~(step < step)
      BY StepIsNatural DEF IInv
    <3> QED
      BY Zenon, <2>1, <2>2, <2>3, <2>4, <2>5, <3>1 DEF BytesOf
  <2>7. out[Delivery[d].token].acknowledged = "accepted"
    BY Zenon, <2>4, <2>5 DEF InboundOf
  <2>8. cell[d].acknowledged \in {"none", "delivered"}
    BY Zenon, <2>4, <2>5 DEF InboundOf
  <2> QED
    BY Zenon, <2>6, <2>7, <2>8
<1> QED
  BY <1>1, Invariant, PTL

\* No custody past the last declared use, and nothing in host or reaped regions at the end.
THEOREM NothingLeft == Spec => []NothingLeftBehind
<1>1. IInv => NothingLeftBehind
  <2> SUFFICES ASSUME IInv
               PROVE  NothingLeftBehind
    OBVIOUS
  <2>1. \A d \in Deliveries :
          /\ cell[d].acknowledged \notin {"none", "custody_unavailable", "request_invalid"}
          /\ lastUseSlot[Delivery[d].token] = transferStep[d]
          => custody[Delivery[d].token] # "held"
    BY Zenon DEF IInv, InboundInv, InboundOf
  <2>2. ErasedInv
    BY Zenon DEF IInv
  <2> QED
    BY Zenon, <2>1, <2>2 DEF NothingLeftBehind, ErasedInv
<1> QED
  BY <1>1, Invariant, PTL

\* The source is told what the recipient can act on, and a recipient that the host waits
\* for, parked or in an exchange of its own, has that answer to give.
THEOREM AnswersSettle == Spec => []DeliveriesSettle
<1>1. IInv => DeliveriesSettle
  <2> SUFFICES ASSUME IInv
               PROVE  DeliveriesSettle
    OBVIOUS
  <2>1. ASSUME NEW d \in Deliveries, cell[d].acknowledged # "none"
        PROVE  IF cell[d].acknowledged = "delivered" THEN inb[d].settled = "usable"
               ELSE inb[d].settled = "withdrawn" \/ ~inb[d].committed
    <3>1. InboundOf(d)
      BY Zenon DEF IInv, InboundInv
    <3> QED
      BY Zenon, <2>1, <3>1 DEF InboundOf
  <2>2. ASSUME hpc \in {"wait", "usable"}, inb[at].acknowledged = "none",
               wpc[recipient[at]] \in {"parked", "exchange"}
        PROVE  wpc[recipient[at]] \in servicing /\ unanswered(recipient[at]) # {}
    <3>1. hpc \in Waiting /\ hpc \in Delivering
      BY Zenon, <2>2 DEF Waiting, Delivering
    <3>2. at \in Deliveries /\ InboundOf(at) /\ Serving(at)
      BY Zenon, <3>1 DEF IInv, InboundInv, Serving
    <3>3. inb[at].committed
      BY Zenon, <3>1, <3>2 DEF InboundOf
    <3>4. at \in unanswered(recipient[at])
      BY Zenon, <2>2, <3>2, <3>3 DEF unanswered
    <3> QED
      BY Zenon, <2>2, <3>4 DEF servicing
  <2> QED
    BY Zenon, <2>1, <2>2 DEF DeliveriesSettle
<1> QED
  BY <1>1, Invariant, PTL
=============================================================================
