-------------------------- MODULE MCPhaseHandshake --------------------------
(* An instance of PhaseHandshake for TLC.                                    *)
EXTENDS PhaseHandshake

MCFaults == {"transfer", "setup", "worker_clock", "worker_death", "gate_jump", "wait_error",
             "echild", "kill_error", "host_crash"}
=============================================================================
