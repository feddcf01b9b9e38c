--------------------------- MODULE SerialSchedule ---------------------------
(***************************************************************************)
(* What the actor form of a specimen promises, without processes: the      *)
(* phases of the global schedule execute one at a time and in order.  A    *)
(* phase may be skipped; an execution may end at any point.                *)
(***************************************************************************)
EXTENDS Naturals

CONSTANT Phases        \* the global schedule, as a set of ordinals

VARIABLES executing,   \* the phases being executed now
          executed     \* the phases whose execution has begun so far

Init == executing = {} /\ executed = {}

Begin(p) ==
  /\ executing = {}
  /\ \A q \in executed : q < p
  /\ executing' = {p} /\ executed' = executed \cup {p}

End ==
  /\ executing # {}
  /\ executing' = {} /\ UNCHANGED executed

Next == (\E p \in Phases : Begin(p)) \/ End

Spec == Init /\ [][Next]_<<executing, executed>>
=============================================================================
