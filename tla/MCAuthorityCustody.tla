------------------------ MODULE MCAuthorityCustody ------------------------
(***************************************************************************)
(* Actor 1 issues a token, transfers it to actor 2 and then to itself (the *)
(* last use of custody), actor 2 consumes its copy twice, and actor 1 is   *)
(* visited again to issue a token that is never transferred and to consume *)
(* its own copy.  The second plan, for the account and for liveness, has   *)
(* one delivery whose copy is consumed twice, and a handle that is         *)
(* released.                                                               *)
(***************************************************************************)
EXTENDS ExtensionAccount

op(a, p, name, x) == [actor |-> a, phase |-> p, op |-> name, of |-> x]

MCPlan == <<op(1, 1, "issue", 1), op(1, 1, "transfer", 1), op(1, 1, "transfer", 2),
            op(2, 2, "consume", 1), op(2, 2, "consume", 1),
            op(1, 3, "issue", 2), op(1, 3, "consume", 2)>>
MCDelivery == <<[token |-> 1, recipient |-> 2], [token |-> 1, recipient |-> 1]>>

MCAccountPlan == <<op(1, 1, "issue", 1), op(1, 1, "transfer", 1),
                   op(2, 2, "consume", 1), op(2, 2, "consume", 1), op(2, 2, "release", 3)>>
MCAccountDelivery == <<[token |-> 1, recipient |-> 2]>>
=============================================================================
