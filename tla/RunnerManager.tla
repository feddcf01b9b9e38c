---------------------------- MODULE RunnerManager ----------------------------
(***************************************************************************)
(* External runners: `runner install`, `runner remove` and                 *)
(* `runner validate`, each a process of its own, over four pieces of state *)
(* that no transaction spans: the registry file, its lock, the launchd     *)
(* plist and the launchd job of a service name.  A command can fail or be  *)
(* killed between any two steps; somebody else may take a service name     *)
(* that is free.                                                           *)
(*                                                                         *)
(* A runner is its bundle: service name, executable, plist content and     *)
(* digest are functions of it.  Names contend only through Service.        *)
(***************************************************************************)
EXTENDS Naturals

CONSTANTS Procs,          \* the command processes
          Bundles,        \* the runner bundles, a set of strings
          Service,        \* the service name (CFBundleIdentifier) of each bundle
          TeardownReads,  \* re-reads of a job after bootout
          MaxCrashes,     \* how often a command may be killed
          Faults          \* what else may go wrong

Services == {Service[b] : b \in Bundles}

ASSUME ServiceAssumption == Service \in [Bundles -> STRING]
ASSUME BundlesAssumption == Bundles \cap {"absent", "foreign", "unknown"} = {}
ASSUME BoundsAssumption == TeardownReads \in Nat /\ MaxCrashes \in Nat
ASSUME FaultsAssumption ==
  Faults \subseteq {"save", "tools", "location", "unreadable", "login", "foreign"}

VARIABLES
  registry,      \* runners.json: the runners and the pending cleanups
  lock,          \* the holders of the registry lock
  plist, torn,   \* whose plist a name has; the names whose plist is half written
  job, tearing,  \* whose job a name has; the names whose job is being torn down
  pc, cmd,       \* per process: program counter and command
  mem,           \* per process: the registry it loaded
  seen,          \* per process: what it observed, whether it warned or booted out
  report,        \* per process: what the last command reported
  crashes

world == <<plist, torn, job, tearing>>
proc == <<pc, cmd, mem, seen, report>>
vars == <<registry, lock, world, proc, crashes>>

State == {"pending", "installed"}
Record == [bundle : Bundles, state : State]
Registry == [runners : SUBSET Record, pending_cleanup : SUBSET Bundles]
EmptyRegistry == [runners |-> {}, pending_cleanup |-> {}]
Command == [op : {"install"}, bundle : Bundles, skip : BOOLEAN]
             \cup [op : {"remove"}, name : Services, skip : BOOLEAN]
             \cup [op : {"validate"}]
NothingSeen == [service |-> "absent", plist |-> "absent", warned |-> FALSE,
                booted_out |-> FALSE, reads |-> 0, complete |-> FALSE]

recorded(r) == {x.bundle : x \in r.runners} \cup r.pending_cleanup

Init ==
  /\ registry = EmptyRegistry /\ lock = {}
  /\ plist = [s \in Services |-> "absent"] /\ torn = {}
  /\ job = [s \in Services |-> "absent"] /\ tearing = {}
  /\ pc = [p \in Procs |-> "idle"] /\ cmd = [p \in Procs |-> [op |-> "validate"]]
  /\ mem = [p \in Procs |-> EmptyRegistry]
  /\ seen = [p \in Procs |-> NothingSeen]
  /\ report = [p \in Procs |-> "none"] /\ crashes = 0

-----------------------------------------------------------------------------
At(p, l) == pc[p] = l
Goto(p, l) == pc' = [pc EXCEPT ![p] = l]
name(p) == IF cmd[p].op = "install" THEN Service[cmd[p].bundle] ELSE cmd[p].name

\* The command goes on, with the registry r in memory.
ProceedWith(p, l, r) ==
  /\ Goto(p, l)
  /\ mem' = [mem EXCEPT ![p] = r]
  /\ UNCHANGED <<lock, report, cmd, seen>>
Proceed(p, l) == ProceedWith(p, l, mem[p])

\* The command is over: its lock is released and its memory gone.
Exit(p, r) ==
  /\ Goto(p, "idle")
  /\ lock' = lock \ {p}
  /\ report' = [report EXCEPT ![p] = r]
  /\ cmd' = [cmd EXCEPT ![p] = [op |-> "validate"]]
  /\ mem' = [mem EXCEPT ![p] = EmptyRegistry]
  /\ seen' = [seen EXCEPT ![p] = NothingSeen]

\* save_registry replaces the file by rename, or fails and changes nothing.
Saved(r) == registry' = r
SaveFails == "save" \in Faults /\ UNCHANGED registry

Start(p, c) ==
  /\ At(p, "idle")
  /\ cmd' = [cmd EXCEPT ![p] = c]
  /\ report' = [report EXCEPT ![p] = "none"]
  /\ Goto(p, "lock")
  /\ UNCHANGED <<registry, lock, world, mem, seen, crashes>>

lockFree == lock = {}

\* load_registry_locked: the file is read under the lock, or the command fails.
LockAndLoad(p) ==
  /\ At(p, "lock")
  /\ IF lockFree
     THEN /\ lock' = lock \cup {p}
          /\ mem' = [mem EXCEPT ![p] = registry]
          /\ Goto(p, cmd[p].op) /\ UNCHANGED <<report, cmd, seen>>
     ELSE Exit(p, "failed")
  /\ UNCHANGED <<registry, world, crashes>>

-----------------------------------------------------------------------------
(* runner validate                                                          *)

\* The records are read back from their binaries and saved again.
Validate(p) ==
  /\ At(p, "validate")
  /\ \/ Saved(mem[p]) /\ Exit(p, "validated")
     \/ SaveFails /\ Exit(p, "failed")
  /\ UNCHANGED <<world, crashes>>

-----------------------------------------------------------------------------
(* runner install                                                           *)

\* conflicting_record, by service name, bundle or executable.
conflicting(r, b) == \E x \in recorded(r) : Service[x] = Service[b]

CheckInstall(p) ==
  /\ At(p, "install")
  /\ IF conflicting(mem[p], cmd[p].bundle) \/ plist[name(p)] # "absent"
     THEN Exit(p, "refused") ELSE Proceed(p, "sign")
  /\ UNCHANGED <<registry, world, crashes>>

\* sign_install_tree and the read-backs: external tools.
Sign(p) ==
  /\ At(p, "sign")
  /\ Proceed(p, "pend") \/ ("tools" \in Faults /\ Exit(p, "failed"))
  /\ UNCHANGED <<registry, world, crashes>>

with(r, b, state) ==
  [r EXCEPT !.runners = {x \in @ : x.bundle # b} \cup {[bundle |-> b, state |-> state]}]

\* Mutant of Pend: the record is saved when the installation is done.
Pend_Later(p) ==
  /\ At(p, "pend")
  /\ ProceedWith(p, "write", with(mem[p], cmd[p].bundle, "pending"))
  /\ UNCHANGED <<registry, world, crashes>>

\* install_record: recovery identity is saved before anything is installed,
Pend(p) ==
  /\ At(p, "pend")
  /\ LET r == with(mem[p], cmd[p].bundle, "pending")
     IN \/ Saved(r) /\ ProceedWith(p, "write", r)
        \/ SaveFails /\ Exit(p, "failed")
  /\ UNCHANGED <<world, crashes>>

\* the plist is created, if the name is still free,
CreatePlist(p) ==
  /\ At(p, "write")
  /\ IF plist[name(p)] = "absent"
     THEN /\ plist' = [plist EXCEPT ![name(p)] = cmd[p].bundle]
          /\ torn' = torn \cup {name(p)}
          /\ Proceed(p, "writing")
     ELSE Exit(p, "failed") /\ UNCHANGED <<plist, torn>>
  /\ UNCHANGED <<registry, job, tearing, crashes>>

\* and written,
WritePlist(p) ==
  /\ At(p, "writing")
  /\ \/ torn' = torn \ {name(p)} /\ Proceed(p, "bootstrap")
     \/ "tools" \in Faults /\ Exit(p, "failed") /\ UNCHANGED torn
  /\ UNCHANGED <<registry, plist, job, tearing, crashes>>

\* launchd loads a job from the plist at the path, if there is one and the name is
\* free.
loadable(s) == plist[s] # "absent" /\ s \notin torn /\ job[s] = "absent"
Load(s) == job' = [job EXCEPT ![s] = plist[s]]

\* the job is loaded, unless that was not asked for; a failing launchctl may have
\* loaded it all the same,
Bootstrap(p) ==
  /\ At(p, "bootstrap")
  /\ \/ cmd[p].skip /\ Proceed(p, "settle") /\ UNCHANGED job
     \/ /\ ~cmd[p].skip /\ loadable(name(p)) /\ Load(name(p))
        /\ Proceed(p, "settle") \/ ("tools" \in Faults /\ Exit(p, "failed"))
     \/ /\ ~cmd[p].skip /\ (~loadable(name(p)) \/ "tools" \in Faults)
        /\ Exit(p, "failed") /\ UNCHANGED job
  /\ UNCHANGED <<registry, plist, torn, tearing, crashes>>

\* and the record says so.
Settle(p) ==
  /\ At(p, "settle")
  /\ \/ Saved(with(mem[p], cmd[p].bundle, "installed")) /\ Exit(p, "installed")
     \/ SaveFails /\ Exit(p, "failed")
  /\ UNCHANGED <<world, crashes>>

-----------------------------------------------------------------------------
(* runner remove                                                            *)

named(S, s) == {b \in S : Service[b] = s}
toRemove(p) == CHOOSE b \in named(mem[p].pending_cleanup, cmd[p].name) : TRUE

Warn(p) == seen' = [seen EXCEPT ![p].warned = TRUE]

\* Mutant of Mark: only a runner can be removed.
Mark_NoRetry(p) ==
  /\ At(p, "remove")
  /\ LET R == named({x.bundle : x \in mem[p].runners}, cmd[p].name)
         b == CHOOSE x \in R : TRUE
         r == [runners |-> {x \in mem[p].runners : x.bundle # b},
               pending_cleanup |-> mem[p].pending_cleanup \cup {b}]
     IN \/ R # {} /\ Saved(r) /\ ProceedWith(p, "service", r)
        \/ R = {} /\ Exit(p, "not_found") /\ UNCHANGED registry
  /\ UNCHANGED <<world, crashes>>

\* remove_record: the runner becomes a pending cleanup, saved before any action; a
\* cleanup left by an earlier command is taken up again.
Mark(p) ==
  /\ At(p, "remove")
  /\ LET R == named({x.bundle : x \in mem[p].runners}, cmd[p].name)
         b == CHOOSE x \in R : TRUE
         r == [runners |-> {x \in mem[p].runners : x.bundle # b},
               pending_cleanup |-> mem[p].pending_cleanup \cup {b}]
     IN \/ R # {} /\ Saved(r) /\ ProceedWith(p, "service", r)
        \/ R # {} /\ SaveFails /\ Exit(p, "failed")
        \/ /\ R = {} /\ UNCHANGED registry
           /\ IF named(mem[p].pending_cleanup, cmd[p].name) = {} THEN Exit(p, "not_found")
              ELSE Proceed(p, "service")
  /\ UNCHANGED <<world, crashes>>

\* record_location does not vouch for the recorded paths: nothing is touched.
LocationRefused(p) ==
  /\ At(p, "service") /\ "location" \in Faults
  /\ Warn(p) /\ Goto(p, "persist")
  /\ UNCHANGED <<registry, lock, world, cmd, mem, report, crashes>>

\* inspect_service and inspect_plist: who has the name, if that can be told.  A
\* half-written plist cannot be parsed.
Inspect(x) == {x} \cup {u \in {"unknown"} : "unreadable" \in Faults}
inspectPlist(s) == IF s \in torn THEN {"unknown"} ELSE Inspect(plist[s])

ObserveService(p) ==
  /\ At(p, "service")
  /\ \E o \in Inspect(job[name(p)]) : seen' = [seen EXCEPT ![p].service = o]
  /\ Goto(p, "plist")
  /\ UNCHANGED <<registry, lock, world, cmd, mem, report, crashes>>

ObservePlist(p) ==
  /\ At(p, "plist")
  /\ \E o \in inspectPlist(name(p)) : seen' = [seen EXCEPT ![p].plist = o]
  /\ Goto(p, "bootout")
  /\ UNCHANGED <<registry, lock, world, cmd, mem, report, crashes>>

\* service_ownership and plist_ownership: the name is held by this very runner.
owned(p, holder) == holder = toRemove(p)

\* No bootout: there is no job, it is not asked for, the job is not known to be the
\* runner's, or launchctl fails.
Bootout(p) ==
  /\ At(p, "bootout")
  /\ \/ seen[p].service = "absent" \/ cmd[p].skip
     \/ /\ seen[p].service # "absent" /\ ~cmd[p].skip
        /\ ~owned(p, seen[p].service) \/ "tools" \in Faults
  /\ IF seen[p].service = "absent" \/ cmd[p].skip THEN UNCHANGED seen ELSE Warn(p)
  /\ Goto(p, "recheck")
  /\ UNCHANGED <<registry, lock, world, cmd, mem, report, crashes>>

\* Only a job that was seen to be the runner's is booted out; launchd tears it down
\* later, and a failing launchctl may have begun that all the same.
BootoutOwned(p) ==
  /\ At(p, "bootout") /\ ~cmd[p].skip
  /\ seen[p].service # "absent" /\ owned(p, seen[p].service)
  /\ IF job[name(p)] = "absent" THEN Warn(p) /\ UNCHANGED tearing
     ELSE /\ tearing' = tearing \cup {name(p)}
          /\ \/ seen' = [seen EXCEPT ![p].booted_out = TRUE]
             \/ "tools" \in Faults /\ Warn(p)
  /\ Goto(p, "recheck")
  /\ UNCHANGED <<registry, lock, plist, torn, job, cmd, mem, report, crashes>>

\* Mutant of Recheck: the earlier observation is relied on.
Recheck_Stale(p) ==
  /\ At(p, "recheck")
  /\ Goto(p, IF owned(p, seen[p].plist) THEN "unlink" ELSE "after")
  /\ IF seen[p].plist = "absent" \/ owned(p, seen[p].plist) THEN UNCHANGED seen
     ELSE Warn(p)
  /\ UNCHANGED <<registry, lock, world, cmd, mem, report, crashes>>

\* The plist is inspected once more right before it is removed.
Recheck(p) ==
  /\ At(p, "recheck")
  /\ \E o \in inspectPlist(name(p)) :
       LET remove == owned(p, seen[p].plist) /\ owned(p, o) IN
       /\ Goto(p, IF seen[p].plist # "absent" /\ remove THEN "unlink" ELSE "after")
       /\ IF seen[p].plist = "absent" \/ remove THEN UNCHANGED seen ELSE Warn(p)
  /\ UNCHANGED <<registry, lock, world, cmd, mem, report, crashes>>

Unlink(p) ==
  /\ At(p, "unlink")
  /\ \/ /\ plist[name(p)] # "absent"
        /\ plist' = [plist EXCEPT ![name(p)] = "absent"] /\ torn' = torn \ {name(p)}
        /\ UNCHANGED seen
     \/ /\ plist[name(p)] = "absent" \/ "tools" \in Faults
        /\ Warn(p) /\ UNCHANGED <<plist, torn>>
  /\ Goto(p, "after")
  /\ UNCHANGED <<registry, lock, job, tearing, cmd, mem, report, crashes>>

\* service_after_bootout: read the job until it is gone or the reads are spent.
ServiceAfter(p) ==
  /\ At(p, "after")
  /\ \E o \in Inspect(job[name(p)]) :
       IF seen[p].booted_out /\ o \notin {"absent", "unknown"} /\ seen[p].reads < TeardownReads
       THEN seen' = [seen EXCEPT ![p].reads = @ + 1] /\ UNCHANGED pc
       ELSE seen' = [seen EXCEPT ![p].service = o] /\ Goto(p, "judge")
  /\ UNCHANGED <<registry, lock, world, cmd, mem, report, crashes>>

\* cleanup_complete, and nothing went wrong on the way.
complete(p, o) == seen[p].service = "absent" /\ o = "absent" /\ ~seen[p].warned

PlistAfter(p) ==
  /\ At(p, "judge")
  /\ \E o \in inspectPlist(name(p)) : seen' = [seen EXCEPT ![p].complete = complete(p, o)]
  /\ Goto(p, "persist")
  /\ UNCHANGED <<registry, lock, world, cmd, mem, report, crashes>>

\* Mutant of reported: the outcome does not wait for the save.
reported_Optimistic(p, saved) == IF seen[p].complete THEN "retired" ELSE "retained"

reported(p, saved) == IF seen[p].complete /\ saved THEN "retired" ELSE "retained"

\* A complete cleanup is retired; otherwise, or if that cannot be saved, the
\* record stays.
Persist(p) ==
  /\ At(p, "persist")
  /\ \/ /\ Saved([mem[p] EXCEPT !.pending_cleanup =
                    IF seen[p].complete THEN @ \ {toRemove(p)} ELSE @])
        /\ Exit(p, reported(p, TRUE))
     \/ SaveFails /\ Exit(p, reported(p, FALSE))
  /\ UNCHANGED <<world, crashes>>

-----------------------------------------------------------------------------
(* The environment.                                                         *)

\* A command is killed; the kernel releases its lock.
Crash(p) ==
  /\ ~At(p, "idle") /\ crashes < MaxCrashes
  /\ crashes' = crashes + 1
  /\ Exit(p, "none")
  /\ UNCHANGED <<registry, world>>

TeardownEnds(s) ==
  /\ s \in tearing
  /\ tearing' = tearing \ {s} /\ job' = [job EXCEPT ![s] = "absent"]
  /\ UNCHANGED <<registry, lock, plist, torn, proc, crashes>>

\* launchd loads the plists it finds when a session begins.
Login(s) ==
  /\ "login" \in Faults
  /\ loadable(s) /\ Load(s)
  /\ UNCHANGED <<registry, lock, plist, torn, tearing, proc, crashes>>

\* Somebody else deletes a runner's plist, or takes a free name.
PlistDeleted(s) ==
  /\ "foreign" \in Faults /\ plist[s] \in Bundles
  /\ plist' = [plist EXCEPT ![s] = "absent"] /\ torn' = torn \ {s}
  /\ UNCHANGED <<registry, lock, job, tearing, proc, crashes>>

ForeignPlist(s) ==
  /\ "foreign" \in Faults /\ plist[s] = "absent"
  /\ plist' = [plist EXCEPT ![s] = "foreign"]
  /\ UNCHANGED <<registry, lock, torn, job, tearing, proc, crashes>>

ForeignJob(s) ==
  /\ "foreign" \in Faults /\ job[s] = "absent"
  /\ job' = [job EXCEPT ![s] = "foreign"]
  /\ UNCHANGED <<registry, lock, plist, torn, tearing, proc, crashes>>

Run(p) ==
  \/ LockAndLoad(p) \/ Validate(p)
  \/ CheckInstall(p) \/ Sign(p) \/ Pend(p) \/ CreatePlist(p) \/ WritePlist(p)
  \/ Bootstrap(p) \/ Settle(p)
  \/ Mark(p) \/ LocationRefused(p) \/ ObserveService(p) \/ ObservePlist(p) \/ Bootout(p)
  \/ BootoutOwned(p) \/ Recheck(p) \/ Unlink(p) \/ ServiceAfter(p) \/ PlistAfter(p)
  \/ Persist(p)

Next ==
  \/ \E p \in Procs : (\E c \in Command : Start(p, c)) \/ Run(p) \/ Crash(p)
  \/ \E s \in Services : \/ TeardownEnds(s) \/ Login(s)
                       \/ PlistDeleted(s) \/ ForeignPlist(s) \/ ForeignJob(s)

Spec == Init /\ [][Next]_vars

RemoveNamed(s) == \E p \in Procs : Start(p, [op |-> "remove", name |-> s, skip |-> FALSE])

\* Fairness: commands go on, launchd finishes a teardown, and an operator who is
\* told that a cleanup was retained runs the removal again.
RecoverySpec ==
  /\ Spec
  /\ \A p \in Procs : WF_vars(Run(p))
  /\ \A s \in Services : WF_vars(TeardownEnds(s)) /\ SF_vars(RemoveNamed(s))

-----------------------------------------------------------------------------
(* Properties.                                                              *)

\* Whatever a runner has on the system, plist or job, the registry file knows the
\* runner, at every point where a command can be killed or fail: install_record
\* saves before it acts, remove_record retires after it has seen both gone.  A
\* service name belongs to one runner, and a bundle is signed for installation
\* only while no record, pending cleanups included, has its name.
RegistryIsTrue ==
  /\ \A s \in Services : {plist[s], job[s]} \cap Bundles \subseteq recorded(registry)
  /\ \A b, c \in recorded(registry) : Service[b] = Service[c] => b = c
  /\ \A p \in Procs : pc[p] \in {"sign", "pend"} => named(recorded(registry), name(p)) = {}

\* A removal leaves alone what is not the runner's, although names change hands while
\* it runs: it goes on to unlink only a plist that is the runner's at that moment, a
\* plist of somebody else disappears only in the window between that look and the
\* unlinking, and only a name it has seen held by the runner is booted out.  (The job
\* itself is not inspected again: a name that changed hands since is booted out.)
ForeignSpared ==
  [][/\ \A p \in Procs : pc[p] = "recheck" /\ pc'[p] = "unlink" =>
          plist[name(p)] = toRemove(p)
     /\ \A s \in Services :
          /\ plist[s] = "foreign" /\ plist'[s] # "foreign" =>
               \E p \in Procs : pc[p] = "unlink" /\ cmd[p].name = s
          /\ job[s] = "foreign" /\ s \in tearing' \ tearing =>
               \E p \in Procs : /\ pc[p] = "bootout" /\ cmd[p].name = s
                                /\ seen[p].service \in Bundles]_vars

\* What a command reports is what the registry file says when it exits, save
\* failures included: a cleanup reported retired is off the file, one reported
\* retained is on it, and a runner reported installed is on it as installed, with
\* no half-written plist.
ReportsAreTrue ==
  [][\A p \in Procs : report'[p] # report[p] =>
       CASE report'[p] = "retired" ->
              named(recorded(registry'), cmd[p].name) = {}
         [] report'[p] = "retained" ->
              named(registry'.pending_cleanup, cmd[p].name) # {}
         [] report'[p] = "installed" ->
              /\ [bundle |-> cmd[p].bundle, state |-> "installed"] \in registry'.runners
              /\ name(p) \notin torn
         [] OTHER -> TRUE]_vars

\* A cleanup that was interrupted or retained is finished by removing the runner
\* again, unless its plist was left half written.
RecoveryCompletes ==
  \A b \in Bundles :
    (b \in registry.pending_cleanup /\ Service[b] \notin torn)
      ~> (b \notin registry.pending_cleanup)
=============================================================================
