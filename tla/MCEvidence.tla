----------------------------- MODULE MCEvidence -----------------------------
(* The evidence of a run, produced by the host and read by the controller,   *)
(* one part of it in each behaviour.                                         *)
EXTENDS WorkerDisposition, ExecAttempt, ValidatorCollection, AuthoritySetup, EquipmentBinding

VARIABLE part

evidenceVars == <<part, wd, ex, vc, su, eq>>

MCPlan == <<[step_id |-> "s1", operation |-> "issue", supported |-> TRUE],
            [step_id |-> "s2", operation |-> Null, supported |-> TRUE],
            [step_id |-> "s3", operation |-> "transfer", supported |-> TRUE]>>
MCPhaseSlots == <<<<0, 2>>, <<2, 3>>>>
MCPhaseSteps == <<<<"s1", "s2">>, <<"s3">>>>
MCActorRoles == <<"selected", "unentitled">>
MCRequired == <<{"e"}, {}>>

startsOf(p, starts) == IF part = p THEN starts ELSE {CHOOSE s \in starts : TRUE}

Init ==
  /\ part \in {"disposition", "exec", "collection", "setup", "equipment"}
  /\ wd \in startsOf("disposition", DispositionStarts)
  /\ ex \in startsOf("exec", ExecStarts)
  /\ vc \in startsOf("collection", CollectionStarts)
  /\ su \in startsOf("setup", SetupStarts)
  /\ eq \in startsOf("equipment", EquipmentStarts)

Next ==
  \/ part = "disposition" /\ NextDisposition /\ UNCHANGED <<part, ex, vc, su, eq>>
  \/ part = "exec" /\ NextExec /\ UNCHANGED <<part, wd, vc, su, eq>>
  \/ part = "collection" /\ NextCollection /\ UNCHANGED <<part, wd, ex, su, eq>>
  \/ part = "setup" /\ NextSetup /\ UNCHANGED <<part, wd, ex, vc, eq>>
  \/ part = "equipment" /\ NextEquipment /\ UNCHANGED <<part, wd, ex, vc, su>>

Spec == Init /\ [][Next]_evidenceVars
=============================================================================
