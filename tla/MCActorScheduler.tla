-------------------------- MODULE MCActorScheduler --------------------------
EXTENDS ActorEvidence

\* Actor 2 is visited twice; its second visit waits for the end of actor 1.
MCSchedule == <<2, 1, 2>>
MCDependency == <<0, 0, 2>>
\* The same schedule without the termination gate.
MCNoDependency == <<0, 0, 0>>

MCFaults == {"authority", "launch", "transfer", "setup", "inspection", "expiry", "death",
             "wait_error", "unresolved"}
\* An actor that may also leave its gate without a release.
MCRogue == {"gate_jump", "launch", "transfer", "setup", "expiry", "death", "wait_error",
            "unresolved"}
=============================================================================
