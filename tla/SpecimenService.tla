-------------------------- MODULE SpecimenService --------------------------
(***************************************************************************)
(* What the runner promises its callers, with no host, connection or       *)
(* message in it: a specimen is executed at most once, and what a client   *)
(* reports about its specimen stays true whatever happens afterwards.  In  *)
(* particular a client that reports "not invoked" or "refused" will never  *)
(* have its specimen executed later.                                       *)
(***************************************************************************)
CONSTANT Client

VARIABLES executed,   \* the specimens whose execution has begun
          report      \* what each client has said about its specimen

Report == {"open", "result", "refused", "not_invoked", "unknown"}

ServiceInit == executed = {} /\ report = [c \in Client |-> "open"]

Execute(c) ==
  /\ c \notin executed
  /\ report[c] \in {"open", "unknown"}
  /\ executed' = executed \cup {c}
  /\ UNCHANGED report

Close(c, r) ==
  /\ report[c] = "open" /\ r # "open"
  /\ r = "result" => c \in executed
  /\ r \in {"refused", "not_invoked"} => c \notin executed
  /\ report' = [report EXCEPT ![c] = r]
  /\ UNCHANGED executed

ServiceNext == \E c \in Client : Execute(c) \/ \E r \in Report : Close(c, r)

ServiceSpec == ServiceInit /\ [][ServiceNext]_<<executed, report>>
=============================================================================
