---------------------------- MODULE MCAdmission ----------------------------
(* Instances of Admission for TLC: which faults each run admits.             *)
EXTENDS Admission

\* What can end a session from outside while two clients contend.
ContentionFaults == {"host_crash", "client_crash", "xpc_error"}

\* Everything that can go wrong with one session.
SessionFaults == {"host_clock", "host_crash", "client_clock", "client_crash", "input",
                  "encoding", "xpc_error", "proxy_type_mismatch", "bad_control"}
=============================================================================
