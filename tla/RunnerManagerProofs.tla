------------------------- MODULE RunnerManagerProofs -------------------------
(***************************************************************************)
(* The invariant and the action properties of RunnerManager, for any       *)
(* number of commands, bundles, names and kills and for any faults.        *)
(***************************************************************************)
EXTENDS RunnerManager, TLAPS

-----------------------------------------------------------------------------
(* The inductive invariant.                                                 *)

Holder == Bundles \cup {"absent", "foreign"}
Observation == Holder \cup {"unknown"}
Seen == [service : Observation, plist : Observation, warned : BOOLEAN, booted_out : BOOLEAN,
         reads : Nat, complete : BOOLEAN]
Signing == {"sign", "pend"}
Installing == {"write", "writing", "bootstrap", "settle"}
Removing == {"service", "plist", "bootout", "recheck", "unlink", "after", "judge", "persist"}
Held == Signing \cup Installing \cup Removing \cup {"validate", "install", "remove"}

TypeInv ==
  /\ registry \in Registry /\ lock \subseteq Procs
  /\ plist \in [Services -> Holder] /\ torn \subseteq Services
  /\ job \in [Services -> Holder] /\ tearing \subseteq Services
  /\ pc \in [Procs -> Held \cup {"idle", "lock"}] /\ cmd \in [Procs -> Command]
  /\ mem \in [Procs -> Registry] /\ seen \in [Procs -> Seen]

\* One command at a time has the lock, from its load to its exit, and what it has in
\* memory is the file.
LockInv ==
  /\ \A p \in Procs : p \in lock <=> pc[p] \in Held
  /\ \A p, q \in lock : p = q
  /\ \A p \in lock : mem[p] = registry

\* Plists and jobs of runners are under their own names and on the file, which has a name
\* once.
FileInv ==
  /\ \A s \in Services : /\ plist[s] \in Bundles => plist[s] \in recorded(registry)
                                                    /\ Service[plist[s]] = s
                         /\ job[s] \in Bundles => job[s] \in recorded(registry)
                                                  /\ Service[job[s]] = s
  /\ \A b, c \in recorded(registry) : Service[b] = Service[c] => b = c
  /\ \A x \in registry.runners : x.bundle \notin registry.pending_cleanup

\* What an installation and a removal know on their way.
InstallOf(p) ==
  /\ pc[p] \in {"install"} \cup Signing \cup Installing => cmd[p].op = "install"
  /\ pc[p] \in Signing => named(recorded(registry), name(p)) = {}
  /\ pc[p] \in Installing =>
       [bundle |-> cmd[p].bundle, state |-> "pending"] \in registry.runners
  /\ pc[p] \in {"bootstrap", "settle"} => name(p) \notin torn
RemoveOf(p) ==
  /\ pc[p] \in {"remove"} \cup Removing => cmd[p].op = "remove"
  /\ pc[p] \in Removing => named(registry.pending_cleanup, name(p)) # {}
  /\ pc[p] # "persist" => ~seen[p].complete
  /\ \/ pc[p] \in {"bootout", "recheck"} /\ seen[p].plist = "absent"
     \/ pc[p] \in {"after", "judge"} /\ ~seen[p].warned
     \/ pc[p] = "persist" /\ seen[p].complete
     => plist[name(p)] \notin Bundles
  /\ \/ pc[p] = "judge" /\ ~seen[p].warned /\ seen[p].service = "absent"
     \/ pc[p] = "persist" /\ seen[p].complete
     => job[name(p)] \notin Bundles
ProcInv == \A p \in Procs : InstallOf(p) /\ RemoveOf(p)

IInv == TypeInv /\ LockInv /\ FileInv /\ ProcInv

-----------------------------------------------------------------------------
(* Types, and writing one field of an observation.                          *)

LEMMA RegistryType ==
  ASSUME NEW r \in Registry
  PROVE  /\ r.runners \in SUBSET Record /\ r.pending_cleanup \in SUBSET Bundles
         /\ recorded(r) \in SUBSET Bundles
         /\ \A b : b \in recorded(r) <=>
              (\E x \in r.runners : x.bundle = b) \/ b \in r.pending_cleanup
<1>1. r.runners \in SUBSET Record /\ r.pending_cleanup \in SUBSET Bundles
  BY DEF Registry
<1>2. \A x \in r.runners : x.bundle \in Bundles
  BY <1>1 DEF Record
<1>3. \A b : b \in recorded(r) <=>
        (\E x \in r.runners : x.bundle = b) \/ b \in r.pending_cleanup
  BY Zenon DEF recorded
<1> QED
  BY Zenon, <1>1, <1>2, <1>3

\* Replacing the record of a bundle.
LEMMA WithForm ==
  ASSUME NEW r \in Registry, NEW b \in Bundles, NEW st \in State
  PROVE  /\ with(r, b, st) \in Registry
         /\ with(r, b, st).pending_cleanup = r.pending_cleanup
         /\ [bundle |-> b, state |-> st] \in with(r, b, st).runners
         /\ \A x \in with(r, b, st).runners : x.bundle = b \/ x \in r.runners
         /\ \A c : c \in recorded(with(r, b, st)) <=> c \in recorded(r) \/ c = b
<1> DEFINE e == [bundle |-> b, state |-> st]
           R == {x \in r.runners : x.bundle # b} \cup {e}
           w == with(r, b, st)
<1>1. r.runners \in SUBSET Record /\ r.pending_cleanup \in SUBSET Bundles
  BY Zenon, RegistryType
<1>2. e \in Record /\ e.bundle = b
  BY DEF Record
<1> HIDE DEF e
<1>3. R \in SUBSET Record /\ e \in R /\ \A x \in R : x.bundle = b \/ x \in r.runners
  BY Zenon, <1>1, <1>2
<1>4. w = [r EXCEPT !.runners = R]
  BY Zenon DEF with, e
<1>5. \A x \in r.runners : x.bundle # b => x \in R
  BY Zenon
<1> HIDE DEF R
<1>6. w \in Registry /\ w.pending_cleanup = r.pending_cleanup /\ w.runners = R
  BY ONLY <1>3, <1>4, r \in Registry DEF Registry
<1>7. ASSUME NEW c PROVE c \in recorded(w) <=> c \in recorded(r) \/ c = b
  <2>1. c \in recorded(w) <=> (\E x \in R : x.bundle = c) \/ c \in r.pending_cleanup
    BY Zenon, <1>6, RegistryType
  <2>2. c \in recorded(r) <=> (\E x \in r.runners : x.bundle = c) \/ c \in r.pending_cleanup
    BY Zenon, RegistryType
  <2>3. (\E x \in R : x.bundle = c) <=> (\E x \in r.runners : x.bundle = c) \/ c = b
    BY Zenon, <1>2, <1>3, <1>5
  <2> QED
    BY Zenon, <2>1, <2>2, <2>3
<1> QED
  BY Zenon, <1>3, <1>6, <1>7 DEF e

LEMMA CommandType ==
  ASSUME NEW c \in Command
  PROVE  /\ c.op \in {"install", "remove", "validate"}
         /\ c.op = "install" => c.bundle \in Bundles /\ Service[c.bundle] \in Services
         /\ c.op = "remove" => c.name \in Services
<1>1. \A b \in Bundles : Service[b] \in Services
  BY Zenon DEF Services
<1>2. CASE c \in [op : {"install"}, bundle : Bundles, skip : BOOLEAN]
  BY <1>1, <1>2
<1>3. CASE c \in [op : {"remove"}, name : Services, skip : BOOLEAN]
  BY <1>3
<1>4. CASE c \in [op : {"validate"}]
  BY <1>4
<1> QED
  BY Zenon, <1>2, <1>3, <1>4 DEF Command

LEMMA SeenService ==
  ASSUME seen \in [Procs -> Seen], NEW p \in Procs, NEW v \in Observation,
         seen' = [seen EXCEPT ![p].service = v]
  PROVE  /\ seen' \in [Procs -> Seen]
         /\ \A q \in Procs \ {p} : seen'[q] = seen[q]
         /\ seen'[p].service = v
         /\ seen'[p].plist = seen[p].plist
         /\ seen'[p].warned = seen[p].warned
         /\ seen'[p].booted_out = seen[p].booted_out
         /\ seen'[p].reads = seen[p].reads
         /\ seen'[p].complete = seen[p].complete
<1> DEFINE e == [seen[p] EXCEPT !.service = v]
<1>1. seen[p] \in Seen
  OBVIOUS
<1>2. /\ e \in Seen
      /\ e.service = v
      /\ e.plist = seen[p].plist
      /\ e.warned = seen[p].warned
      /\ e.booted_out = seen[p].booted_out
      /\ e.reads = seen[p].reads
      /\ e.complete = seen[p].complete
  BY ONLY <1>1, v \in Observation DEF Seen
<1>3. seen' = [seen EXCEPT ![p] = e]
  OBVIOUS
<1> HIDE DEF e
<1> QED
  BY <1>2, <1>3

LEMMA SeenPlist ==
  ASSUME seen \in [Procs -> Seen], NEW p \in Procs, NEW v \in Observation,
         seen' = [seen EXCEPT ![p].plist = v]
  PROVE  /\ seen' \in [Procs -> Seen]
         /\ \A q \in Procs \ {p} : seen'[q] = seen[q]
         /\ seen'[p].service = seen[p].service
         /\ seen'[p].plist = v
         /\ seen'[p].warned = seen[p].warned
         /\ seen'[p].booted_out = seen[p].booted_out
         /\ seen'[p].reads = seen[p].reads
         /\ seen'[p].complete = seen[p].complete
<1> DEFINE e == [seen[p] EXCEPT !.plist = v]
<1>1. seen[p] \in Seen
  OBVIOUS
<1>2. /\ e \in Seen
      /\ e.service = seen[p].service
      /\ e.plist = v
      /\ e.warned = seen[p].warned
      /\ e.booted_out = seen[p].booted_out
      /\ e.reads = seen[p].reads
      /\ e.complete = seen[p].complete
  BY ONLY <1>1, v \in Observation DEF Seen
<1>3. seen' = [seen EXCEPT ![p] = e]
  OBVIOUS
<1> HIDE DEF e
<1> QED
  BY <1>2, <1>3

LEMMA SeenWarned ==
  ASSUME seen \in [Procs -> Seen], NEW p \in Procs, NEW v \in BOOLEAN,
         seen' = [seen EXCEPT ![p].warned = v]
  PROVE  /\ seen' \in [Procs -> Seen]
         /\ \A q \in Procs \ {p} : seen'[q] = seen[q]
         /\ seen'[p].service = seen[p].service
         /\ seen'[p].plist = seen[p].plist
         /\ seen'[p].warned = v
         /\ seen'[p].booted_out = seen[p].booted_out
         /\ seen'[p].reads = seen[p].reads
         /\ seen'[p].complete = seen[p].complete
<1> DEFINE e == [seen[p] EXCEPT !.warned = v]
<1>1. seen[p] \in Seen
  OBVIOUS
<1>2. /\ e \in Seen
      /\ e.service = seen[p].service
      /\ e.plist = seen[p].plist
      /\ e.warned = v
      /\ e.booted_out = seen[p].booted_out
      /\ e.reads = seen[p].reads
      /\ e.complete = seen[p].complete
  BY ONLY <1>1, v \in BOOLEAN DEF Seen
<1>3. seen' = [seen EXCEPT ![p] = e]
  OBVIOUS
<1> HIDE DEF e
<1> QED
  BY <1>2, <1>3

LEMMA SeenBootedOut ==
  ASSUME seen \in [Procs -> Seen], NEW p \in Procs, NEW v \in BOOLEAN,
         seen' = [seen EXCEPT ![p].booted_out = v]
  PROVE  /\ seen' \in [Procs -> Seen]
         /\ \A q \in Procs \ {p} : seen'[q] = seen[q]
         /\ seen'[p].service = seen[p].service
         /\ seen'[p].plist = seen[p].plist
         /\ seen'[p].warned = seen[p].warned
         /\ seen'[p].booted_out = v
         /\ seen'[p].reads = seen[p].reads
         /\ seen'[p].complete = seen[p].complete
<1> DEFINE e == [seen[p] EXCEPT !.booted_out = v]
<1>1. seen[p] \in Seen
  OBVIOUS
<1>2. /\ e \in Seen
      /\ e.service = seen[p].service
      /\ e.plist = seen[p].plist
      /\ e.warned = seen[p].warned
      /\ e.booted_out = v
      /\ e.reads = seen[p].reads
      /\ e.complete = seen[p].complete
  BY ONLY <1>1, v \in BOOLEAN DEF Seen
<1>3. seen' = [seen EXCEPT ![p] = e]
  OBVIOUS
<1> HIDE DEF e
<1> QED
  BY <1>2, <1>3

LEMMA SeenReads ==
  ASSUME seen \in [Procs -> Seen], NEW p \in Procs, NEW v \in Nat,
         seen' = [seen EXCEPT ![p].reads = v]
  PROVE  /\ seen' \in [Procs -> Seen]
         /\ \A q \in Procs \ {p} : seen'[q] = seen[q]
         /\ seen'[p].service = seen[p].service
         /\ seen'[p].plist = seen[p].plist
         /\ seen'[p].warned = seen[p].warned
         /\ seen'[p].booted_out = seen[p].booted_out
         /\ seen'[p].reads = v
         /\ seen'[p].complete = seen[p].complete
<1> DEFINE e == [seen[p] EXCEPT !.reads = v]
<1>1. seen[p] \in Seen
  OBVIOUS
<1>2. /\ e \in Seen
      /\ e.service = seen[p].service
      /\ e.plist = seen[p].plist
      /\ e.warned = seen[p].warned
      /\ e.booted_out = seen[p].booted_out
      /\ e.reads = v
      /\ e.complete = seen[p].complete
  BY ONLY <1>1, v \in Nat DEF Seen
<1>3. seen' = [seen EXCEPT ![p] = e]
  OBVIOUS
<1> HIDE DEF e
<1> QED
  BY <1>2, <1>3

LEMMA SeenComplete ==
  ASSUME seen \in [Procs -> Seen], NEW p \in Procs, NEW v \in BOOLEAN,
         seen' = [seen EXCEPT ![p].complete = v]
  PROVE  /\ seen' \in [Procs -> Seen]
         /\ \A q \in Procs \ {p} : seen'[q] = seen[q]
         /\ seen'[p].service = seen[p].service
         /\ seen'[p].plist = seen[p].plist
         /\ seen'[p].warned = seen[p].warned
         /\ seen'[p].booted_out = seen[p].booted_out
         /\ seen'[p].reads = seen[p].reads
         /\ seen'[p].complete = v
<1> DEFINE e == [seen[p] EXCEPT !.complete = v]
<1>1. seen[p] \in Seen
  OBVIOUS
<1>2. /\ e \in Seen
      /\ e.service = seen[p].service
      /\ e.plist = seen[p].plist
      /\ e.warned = seen[p].warned
      /\ e.booted_out = seen[p].booted_out
      /\ e.reads = seen[p].reads
      /\ e.complete = v
  BY ONLY <1>1, v \in BOOLEAN DEF Seen
<1>3. seen' = [seen EXCEPT ![p] = e]
  OBVIOUS
<1> HIDE DEF e
<1> QED
  BY <1>2, <1>3

-----------------------------------------------------------------------------
(* What a step of a command may do.                                         *)

Others(p) ==
  \A q \in Procs \ {p} : /\ pc'[q] = pc[q] /\ cmd'[q] = cmd[q] /\ mem'[q] = mem[q]
                         /\ seen'[q] = seen[q]
ProcTypes ==
  /\ pc \in [Procs -> Held \cup {"idle", "lock"}] /\ cmd \in [Procs -> Command]
  /\ mem \in [Procs -> Registry] /\ seen \in [Procs -> Seen] /\ lock \subseteq Procs
WorldTypes ==
  /\ plist \in [Services -> Holder] /\ torn \subseteq Services
  /\ job \in [Services -> Holder] /\ tearing \subseteq Services

\* The command ends.
Ends(p) ==
  /\ Others(p) /\ ProcTypes'
  /\ pc'[p] = "idle" /\ lock' = lock \ {p} /\ ~seen'[p].complete

\* It goes on, with the file in memory.
Goes(p) ==
  /\ Others(p) /\ ProcTypes'
  /\ pc[p] \in Held /\ pc'[p] \in Held /\ lock' = lock /\ cmd'[p] = cmd[p]
  /\ mem'[p] = registry' /\ registry' \in Registry

LEMMA NothingSeenType == NothingSeen \in Seen /\ ~NothingSeen.complete
BY DEF NothingSeen, Seen, Observation, Holder

LEMMA ExitForm ==
  ASSUME TypeInv, NEW p \in Procs, NEW r, Exit(p, r)
  PROVE  Ends(p)
<1>1. EmptyRegistry \in Registry /\ [op |-> "validate"] \in Command
  BY DEF EmptyRegistry, Registry, Command
<1> DEFINE v == [op |-> "validate"]
<1>2. /\ pc' = [pc EXCEPT ![p] = "idle"] /\ cmd' = [cmd EXCEPT ![p] = v]
      /\ mem' = [mem EXCEPT ![p] = EmptyRegistry] /\ seen' = [seen EXCEPT ![p] = NothingSeen]
      /\ lock' = lock \ {p}
  BY Zenon DEF Exit, Goto
<1>3. v \in Command
  BY Zenon, <1>1
<1> HIDE DEF v
<1>4. /\ pc \in [Procs -> Held \cup {"idle", "lock"}] /\ cmd \in [Procs -> Command]
      /\ mem \in [Procs -> Registry] /\ seen \in [Procs -> Seen] /\ lock \subseteq Procs
  BY Zenon DEF TypeInv
<1>5. ProcTypes'
  BY ONLY <1>1, <1>2, <1>3, <1>4, NothingSeenType, p \in Procs DEF ProcTypes
<1>6. Others(p) /\ pc'[p] = "idle" /\ seen'[p] = NothingSeen
  BY ONLY <1>2, <1>4, p \in Procs DEF Others
<1> QED
  BY Zenon, <1>2, <1>5, <1>6, NothingSeenType DEF Ends

LEMMA ProceedForm ==
  ASSUME TypeInv, NEW p \in Procs, NEW l \in Held, NEW r \in Registry, pc[p] \in Held,
         ProceedWith(p, l, r), registry' = r
  PROVE  Goes(p) /\ pc'[p] = l /\ seen' = seen
<1>1. /\ pc' = [pc EXCEPT ![p] = l] /\ mem' = [mem EXCEPT ![p] = r]
      /\ cmd' = cmd /\ seen' = seen /\ lock' = lock
  BY Zenon DEF ProceedWith, Goto
<1>2. /\ pc \in [Procs -> Held \cup {"idle", "lock"}] /\ cmd \in [Procs -> Command]
      /\ mem \in [Procs -> Registry] /\ seen \in [Procs -> Seen] /\ lock \subseteq Procs
  BY Zenon DEF TypeInv
<1>3. ProcTypes'
  BY ONLY <1>1, <1>2, p \in Procs, l \in Held, r \in Registry DEF ProcTypes
<1>4. Others(p) /\ pc'[p] = l /\ mem'[p] = r
  BY ONLY <1>1, <1>2, p \in Procs DEF Others
<1> QED
  BY Zenon, <1>1, <1>3, <1>4 DEF Goes

-----------------------------------------------------------------------------
(* Steps that concern one command.                                          *)

\* The lock is passed on with the file.
LEMMA LockByProc ==
  ASSUME LockInv, TypeInv, NEW p \in Procs,
         Goes(p) \/ (Ends(p) /\ (registry' = registry \/ p \in lock))
  PROVE  LockInv'
<1>1. /\ \A q \in Procs : q \in lock <=> pc[q] \in Held
      /\ \A q \in lock : q = p \/ p \notin lock
      /\ \A q, r \in lock : q = r
      /\ \A q \in lock : mem[q] = registry
      /\ lock \subseteq Procs
  BY Zenon DEF LockInv, TypeInv
<1>2. \A q \in Procs \ {p} : pc'[q] = pc[q] /\ mem'[q] = mem[q]
  BY Zenon DEF Goes, Ends, Others
<1>3. CASE Goes(p)
  <2>1. pc[p] \in Held /\ pc'[p] \in Held /\ lock' = lock /\ mem'[p] = registry'
    BY Zenon, <1>3 DEF Goes
  <2>2. p \in lock /\ \A q \in lock : q = p
    BY Zenon, <1>1, <2>1
  <2>3. \A q \in Procs : q \in lock' <=> pc'[q] \in Held
    BY Zenon, <1>1, <1>2, <2>1, <2>2
  <2>4. \A q \in lock' : mem'[q] = registry'
    BY Zenon, <2>1, <2>2
  <2>5. \A q, r \in lock' : q = r
    BY Zenon, <1>1, <2>1
  <2> QED
    BY Zenon, <2>3, <2>4, <2>5 DEF LockInv
<1>4. CASE Ends(p) /\ (registry' = registry \/ p \in lock)
  <2>1. pc'[p] = "idle" /\ lock' = lock \ {p}
    BY Zenon, <1>4 DEF Ends
  <2>2. "idle" \notin Held
    BY DEF Held, Signing, Installing, Removing
  <2>3. \A q \in Procs : q \in lock' <=> pc'[q] \in Held
    BY Zenon, <1>1, <1>2, <2>1, <2>2
  <2>4. ASSUME NEW q \in lock' PROVE mem'[q] = registry'
    BY Zenon, <1>1, <1>2, <1>4, <2>1
  <2>5. \A q, r \in lock' : q = r
    BY Zenon, <1>1, <2>1
  <2> QED
    BY Zenon, <2>3, <2>4, <2>5 DEF LockInv
<1> QED
  BY Zenon, <1>3, <1>4

\* A command knows nothing of the file and the names unless it has the lock.
LEMMA OthersKeep ==
  ASSUME IInv, NEW p \in Procs, Others(p), p \in lock \/ UNCHANGED <<registry, world>>,
         NEW q \in Procs \ {p}
  PROVE  InstallOf(q)' /\ RemoveOf(q)'
<1>1. /\ pc'[q] = pc[q] /\ cmd'[q] = cmd[q] /\ seen'[q] = seen[q]
      /\ InstallOf(q) /\ RemoveOf(q) /\ name(q)' = name(q)
  BY Zenon DEF Others, IInv, ProcInv, name
<1>2. CASE UNCHANGED <<registry, world>>
  <2>1. registry' = registry /\ plist' = plist /\ torn' = torn /\ job' = job
    BY <1>2 DEF world
  <2>2. InstallOf(q)'
    BY Zenon, <1>1, <2>1 DEF InstallOf
  <2>3. RemoveOf(q)'
    BY Zenon, <1>1, <2>1 DEF RemoveOf
  <2> QED
    BY Zenon, <2>2, <2>3
<1>3. CASE p \in lock
  <2>1. pc[q] \notin Held
    BY Zenon, <1>3 DEF IInv, LockInv
  <2>2. pc[q] \notin {"install", "remove"} \cup Signing \cup Installing \cup Removing
    BY Zenon, <2>1 DEF Held
  <2>3. pc[q] \notin {"bootstrap", "settle", "bootout", "recheck", "after", "judge", "persist"}
    BY <2>2 DEF Installing, Removing
  <2>4. InstallOf(q)'
    BY Zenon, <1>1, <2>2, <2>3 DEF InstallOf
  <2>5. ~seen[q].complete
    BY Zenon, <1>1, <2>3 DEF RemoveOf
  <2>6. RemoveOf(q)'
    BY Zenon, <1>1, <2>2, <2>3, <2>5 DEF RemoveOf
  <2> QED
    BY Zenon, <2>4, <2>6
<1> QED
  BY Zenon, <1>2, <1>3

\* A command that is over knows nothing.
LEMMA IdleKnows ==
  ASSUME NEW p \in Procs, pc'[p] \in {"idle", "lock", "validate"}, ~seen'[p].complete
  PROVE  InstallOf(p)' /\ RemoveOf(p)'
<1>1. /\ pc'[p] \notin {"install", "remove"} \cup Signing \cup Installing \cup Removing
      /\ pc'[p] \notin {"bootstrap", "settle", "bootout", "recheck", "after", "judge", "persist"}
  BY DEF Signing, Installing, Removing
<1>2. InstallOf(p)'
  BY Zenon, <1>1 DEF InstallOf
<1>3. RemoveOf(p)'
  BY Zenon, <1>1 DEF RemoveOf
<1> QED
  BY Zenon, <1>2, <1>3

LEMMA FileSame ==
  ASSUME FileInv, registry' = registry, plist' = plist, job' = job
  PROVE  FileInv'
BY Zenon DEF FileInv

\* The step is put together.
LEMMA Ending ==
  ASSUME IInv, NEW p \in Procs, Ends(p), registry' \in Registry, WorldTypes', FileInv',
         p \in lock \/ UNCHANGED <<registry, world>>
  PROVE  IInv'
<1>1. TypeInv'
  BY Zenon DEF Ends, TypeInv, ProcTypes, WorldTypes
<1>2. LockInv'
  BY Zenon, LockByProc DEF IInv
<1>3. InstallOf(p)' /\ RemoveOf(p)'
  <2>1. pc'[p] \in {"idle", "lock", "validate"} /\ ~seen'[p].complete
    BY Zenon DEF Ends
  <2> QED
    BY Zenon, <2>1, IdleKnows
<1>4. ProcInv'
  BY Zenon, <1>3, OthersKeep DEF ProcInv, Ends
<1> QED
  BY Zenon, <1>1, <1>2, <1>4 DEF IInv

LEMMA Going ==
  ASSUME IInv, NEW p \in Procs, Goes(p), WorldTypes', FileInv', InstallOf(p)', RemoveOf(p)'
  PROVE  IInv'
<1>1. TypeInv'
  BY Zenon DEF Goes, TypeInv, ProcTypes, WorldTypes
<1>2. LockInv'
  BY Zenon, LockByProc DEF IInv
<1>3. p \in lock
  BY Zenon DEF IInv, LockInv, Goes
<1>4. ProcInv'
  BY Zenon, <1>3, OthersKeep DEF ProcInv, Goes
<1> QED
  BY Zenon, <1>1, <1>2, <1>4 DEF IInv

\* An exit that changes nothing else.
LEMMA Exits ==
  ASSUME IInv, NEW p \in Procs, NEW r, Exit(p, r), UNCHANGED <<registry, world>>
  PROVE  IInv'
<1>1. registry' = registry /\ plist' = plist /\ torn' = torn /\ job' = job /\ tearing' = tearing
  BY DEF world
<1>2. TypeInv /\ FileInv
  BY Zenon DEF IInv
<1>3. Ends(p)
  BY Zenon, <1>2, ExitForm
<1>4. FileInv'
  BY Zenon, <1>1, <1>2, FileSame
<1>5. registry' \in Registry /\ WorldTypes'
  BY Zenon, <1>1, <1>2 DEF TypeInv, WorldTypes
<1> QED
  BY Zenon, <1>3, <1>4, <1>5, Ending

\* What the holder of the lock has.
LEMMA HolderHas ==
  ASSUME IInv, NEW p \in Procs, pc[p] \in Held
  PROVE  p \in lock /\ mem[p] = registry
BY Zenon DEF IInv, LockInv

\* A step of an installation that only goes on.
LEMMA Continues ==
  ASSUME IInv, NEW p \in Procs, NEW l \in Held, pc[p] \in Held, Proceed(p, l),
         UNCHANGED registry
  PROVE  /\ Goes(p) /\ pc'[p] = l /\ seen' = seen /\ name(p)' = name(p)
         /\ cmd'[p] = cmd[p]
<1>1. mem[p] = registry /\ TypeInv /\ registry \in Registry
  BY Zenon, HolderHas DEF IInv, TypeInv
<1>2. ProceedWith(p, l, registry)
  BY Zenon, <1>1 DEF Proceed
<1>3. Goes(p) /\ pc'[p] = l /\ seen' = seen
  BY Zenon, <1>1, <1>2, ProceedForm
<1>4. cmd'[p] = cmd[p]
  BY Zenon, <1>3 DEF Goes
<1> QED
  BY Zenon, <1>3, <1>4 DEF name

-----------------------------------------------------------------------------
(* Starting, loading, validating.                                           *)

LEMMA StartKeeps ==
  ASSUME IInv, NEW p \in Procs, NEW c \in Command, Start(p, c)
  PROVE  IInv'
<1>1. /\ pc[p] = "idle" /\ pc' = [pc EXCEPT ![p] = "lock"] /\ cmd' = [cmd EXCEPT ![p] = c]
      /\ UNCHANGED <<registry, lock, plist, torn, job, tearing, mem, seen>>
  BY DEF Start, At, Goto, world
<1>2. TypeInv /\ LockInv /\ FileInv
  BY Zenon DEF IInv
<1>3. /\ pc' \in [Procs -> Held \cup {"idle", "lock"}] /\ cmd' \in [Procs -> Command]
      /\ pc'[p] = "lock" /\ Others(p)
  BY <1>1, <1>2 DEF TypeInv, Others
<1>4. TypeInv'
  BY Zenon, <1>1, <1>2, <1>3 DEF TypeInv
<1>5. "idle" \notin Held /\ "lock" \notin Held
  BY DEF Held, Signing, Installing, Removing
<1>6. \A q \in Procs : pc'[q] \in Held <=> pc[q] \in Held
  BY Zenon, <1>1, <1>3, <1>5 DEF Others
<1>7. LockInv'
  BY Zenon, <1>1, <1>2, <1>6 DEF LockInv
<1>8. FileInv'
  BY Zenon, <1>1, <1>2, FileSame
<1>9. InstallOf(p)' /\ RemoveOf(p)'
  <2>1. pc[p] # "persist"
    BY <1>1
  <2>2. ~seen'[p].complete
    BY Zenon, <1>1, <2>1 DEF IInv, ProcInv, RemoveOf
  <2>3. pc'[p] \in {"idle", "lock", "validate"}
    BY Zenon, <1>3
  <2> QED
    BY Zenon, <2>2, <2>3, IdleKnows
<1>10. UNCHANGED <<registry, world>>
  BY <1>1 DEF world
<1>11. ProcInv'
  BY Zenon, <1>3, <1>9, <1>10, OthersKeep DEF ProcInv
<1> QED
  BY Zenon, <1>4, <1>7, <1>8, <1>11 DEF IInv

LEMMA LoadKeeps ==
  ASSUME IInv, NEW p \in Procs, LockAndLoad(p)
  PROVE  IInv'
<1>0. pc[p] = "lock" /\ UNCHANGED <<registry, world>>
  BY DEF LockAndLoad, At, world
<1>1. CASE lock # {}
  BY Zenon, <1>0, <1>1, Exits DEF LockAndLoad, lockFree
<1>2. CASE lock = {}
  <2>1. /\ lock' = lock \cup {p} /\ mem' = [mem EXCEPT ![p] = registry]
        /\ pc' = [pc EXCEPT ![p] = cmd[p].op] /\ UNCHANGED <<cmd, seen>>
    BY <1>2 DEF LockAndLoad, lockFree, Goto
  <2>2. registry' = registry /\ plist' = plist /\ torn' = torn /\ job' = job /\ tearing' = tearing
    BY <1>0 DEF world
  <2>3. TypeInv /\ LockInv /\ FileInv /\ cmd[p] \in Command
    BY DEF IInv, TypeInv
  <2>4. cmd[p].op \in {"install", "remove", "validate"}
    BY Zenon, <2>3, CommandType
  <2>5. cmd[p].op \in Held
    BY <2>4 DEF Held
  <2>6. /\ pc' \in [Procs -> Held \cup {"idle", "lock"}] /\ mem' \in [Procs -> Registry]
        /\ lock' \subseteq Procs /\ pc'[p] = cmd[p].op /\ mem'[p] = registry /\ Others(p)
    BY <2>1, <2>3, <2>5 DEF TypeInv, Others
  <2>7. TypeInv'
    BY Zenon, <2>1, <2>2, <2>3, <2>6 DEF TypeInv
  <2>8. lock' = {p}
    BY Zenon, <1>2, <2>1
  <2>9. \A q \in Procs : q \in lock' <=> pc'[q] \in Held
    BY Zenon, <1>2, <2>3, <2>5, <2>6, <2>8 DEF LockInv, Others
  <2>10. LockInv'
    BY Zenon, <2>2, <2>6, <2>8, <2>9 DEF LockInv
  <2>11. FileInv'
    BY Zenon, <2>2, <2>3, FileSame
  <2>12. ~seen'[p].complete
    <3>1. pc[p] # "persist"
      BY <1>0
    <3> QED
      BY Zenon, <2>1, <3>1 DEF IInv, ProcInv, RemoveOf
  <2>13. InstallOf(p)'
    <3>1. /\ pc'[p] \notin Signing /\ pc'[p] \notin Installing
          /\ pc'[p] \notin {"bootstrap", "settle"}
          /\ pc'[p] \in {"install"} \cup Signing \cup Installing => cmd[p].op = "install"
      BY <2>4, <2>6 DEF Signing, Installing
    <3> QED
      BY Zenon, <2>1, <3>1 DEF InstallOf
  <2>14. RemoveOf(p)'
    <3>1. /\ pc'[p] \notin Removing
          /\ pc'[p] \notin {"bootout", "recheck", "after", "judge", "persist"}
          /\ pc'[p] \in {"remove"} \cup Removing => cmd[p].op = "remove"
      BY <2>4, <2>6 DEF Removing
    <3> QED
      BY Zenon, <2>1, <2>12, <3>1 DEF RemoveOf
  <2>15. ProcInv'
    BY Zenon, <1>0, <2>6, <2>13, <2>14, OthersKeep DEF ProcInv
  <2> QED
    BY Zenon, <2>7, <2>10, <2>11, <2>15 DEF IInv
<1> QED
  BY Zenon, <1>1, <1>2

LEMMA ValidateKeeps ==
  ASSUME IInv, NEW p \in Procs, Validate(p)
  PROVE  IInv'
<1>1. pc[p] \in Held
  BY DEF Validate, At, Held
<1>2. mem[p] = registry
  BY Zenon, <1>1, HolderHas
<1>3. \E r : Exit(p, r)
  BY Zenon DEF Validate
<1>4. UNCHANGED <<registry, world>>
  BY <1>2 DEF Validate, Saved, SaveFails, world
<1> QED
  BY Zenon, <1>3, <1>4, Exits

-----------------------------------------------------------------------------
(* Installing.                                                              *)

LEMMA CheckKeeps ==
  ASSUME IInv, NEW p \in Procs, CheckInstall(p) \/ Sign(p)
  PROVE  IInv'
<1>1. UNCHANGED <<registry, world>> /\ pc[p] \in {"install", "sign"}
  BY DEF CheckInstall, Sign, At, world
<1>2. registry' = registry /\ plist' = plist /\ torn' = torn /\ job' = job /\ tearing' = tearing
  BY <1>1 DEF world
<1>3. pc[p] \in Held /\ {"sign", "pend"} \subseteq Held
  BY <1>1 DEF Held, Signing
<1>4. InstallOf(p) /\ RemoveOf(p) /\ FileInv /\ TypeInv
  BY Zenon DEF IInv, ProcInv
<1>5. cmd[p].op = "install"
  BY Zenon, <1>1, <1>4 DEF InstallOf, Signing
<1>6. ASSUME NEW l \in {"sign", "pend"}, Proceed(p, l), named(recorded(registry), name(p)) = {}
      PROVE  IInv'
  <2>1. l \in Held
    BY Zenon, <1>3
  <2>2. Goes(p) /\ pc'[p] = l /\ seen' = seen /\ name(p)' = name(p) /\ cmd'[p] = cmd[p]
    BY Zenon, <1>2, <1>3, <1>6, <2>1, Continues
  <2>3. /\ l \notin {"bootstrap", "settle", "bootout", "recheck", "after", "judge", "persist"}
        /\ l \notin Installing /\ l \notin Removing /\ l # "remove"
    BY DEF Installing, Removing
  <2>4. InstallOf(p)'
    BY Zenon, <1>2, <1>5, <1>6, <2>2, <2>3 DEF InstallOf
  <2>5. ~seen[p].complete
    BY <1>1, <1>4 DEF RemoveOf
  <2>6. RemoveOf(p)'
    BY Zenon, <2>2, <2>3, <2>5 DEF RemoveOf
  <2>7. WorldTypes' /\ FileInv'
    BY Zenon, <1>2, <1>4, FileSame DEF TypeInv, WorldTypes
  <2> QED
    BY Zenon, <2>2, <2>4, <2>6, <2>7, Going
<1>7. CASE CheckInstall(p)
  <2>1. CASE \E r : Exit(p, r)
    BY Zenon, <1>1, <2>1, Exits
  <2>2. CASE ~conflicting(mem[p], cmd[p].bundle) /\ Proceed(p, "sign")
    <3>1. name(p) = Service[cmd[p].bundle] /\ mem[p] = registry
      BY Zenon, <1>3, <1>5, HolderHas DEF name
    <3>2. named(recorded(registry), name(p)) = {}
      BY Zenon, <2>2, <3>1 DEF named, conflicting
    <3> QED
      BY Zenon, <1>6, <2>2, <3>2
  <2> QED
    BY Zenon, <1>7, <2>1, <2>2 DEF CheckInstall
<1>8. CASE Sign(p)
  <2>1. CASE \E r : Exit(p, r)
    BY Zenon, <1>1, <2>1, Exits
  <2>2. CASE Proceed(p, "pend")
    <3>1. pc[p] \in Signing
      BY <1>8 DEF Sign, At, Signing
    <3> QED
      BY Zenon, <1>4, <1>6, <2>2, <3>1 DEF InstallOf
  <2> QED
    BY Zenon, <1>8, <2>1, <2>2 DEF Sign
<1> QED
  BY Zenon, <1>7, <1>8

\* A record that is written anew, for a name that was free or for the same bundle.
LEMMA FileWith ==
  ASSUME FileInv, registry \in Registry, NEW b \in Bundles, NEW st \in State,
         registry' = with(registry, b, st), plist' = plist, job' = job,
         \/ named(recorded(registry), Service[b]) = {}
         \/ \E x \in registry.runners : x.bundle = b
  PROVE  FileInv' /\ registry' \in Registry
<1> DEFINE r == with(registry, b, st)
<1>1. /\ r \in Registry /\ r.pending_cleanup = registry.pending_cleanup
      /\ \A x \in r.runners : x.bundle = b \/ x \in registry.runners
      /\ \A c : c \in recorded(r) <=> c \in recorded(registry) \/ c = b
  BY Zenon, WithForm
<1>2. registry' = r
  OBVIOUS
<1> HIDE DEF r
<1>3. \A c : c \in recorded(registry) <=>
        (\E x \in registry.runners : x.bundle = c) \/ c \in registry.pending_cleanup
  BY Zenon, RegistryType
<1>4. /\ \A c \in recorded(registry) : Service[c] = Service[b] => c = b
      /\ b \notin registry.pending_cleanup
  <2>1. CASE named(recorded(registry), Service[b]) = {}
    BY Zenon, <1>3, <2>1 DEF named
  <2>2. CASE \E x \in registry.runners : x.bundle = b
    <3>1. PICK x \in registry.runners : x.bundle = b
      BY Zenon, <2>2
    <3>2. b \in recorded(registry) /\ b \notin registry.pending_cleanup
      BY Zenon, <1>3, <3>1 DEF FileInv
    <3>3. \A c, d \in recorded(registry) : Service[c] = Service[d] => c = d
      BY Zenon DEF FileInv
    <3> QED
      BY Zenon, <3>2, <3>3
  <2> QED
    BY Zenon, <2>1, <2>2
<1>5. ASSUME NEW c \in recorded(r), NEW d \in recorded(r), Service[c] = Service[d] PROVE c = d
  <2>1. c \in recorded(registry) /\ d \in recorded(registry) => c = d
    BY Zenon, <1>5 DEF FileInv
  <2>2. c = b \/ d = b => c = d
    BY Zenon, <1>1, <1>4, <1>5
  <2> QED
    BY Zenon, <1>1, <2>1, <2>2
<1>6. \A x \in r.runners : x.bundle \notin r.pending_cleanup
  BY Zenon, <1>1, <1>4 DEF FileInv
<1>7. \A s \in Services : /\ plist[s] \in Bundles => plist[s] \in recorded(r)
                                                     /\ Service[plist[s]] = s
                          /\ job[s] \in Bundles => job[s] \in recorded(r)
                                                   /\ Service[job[s]] = s
  BY Zenon, <1>1 DEF FileInv
<1> QED
  BY Zenon, <1>1, <1>2, <1>5, <1>6, <1>7 DEF FileInv

\* An installation past its first save.
LEMMA InstallerHas ==
  ASSUME IInv, NEW p \in Procs, pc[p] \in Signing \cup Installing
  PROVE  /\ cmd[p].op = "install" /\ cmd[p].bundle \in Bundles
         /\ name(p) = Service[cmd[p].bundle] /\ name(p) \in Services
         /\ pc[p] \in Held /\ p \in lock /\ mem[p] = registry /\ ~seen[p].complete
         /\ pc[p] \in Installing => /\ \E x \in registry.runners : x.bundle = cmd[p].bundle
                                    /\ cmd[p].bundle \in recorded(registry)
<1>1. InstallOf(p) /\ RemoveOf(p) /\ TypeInv /\ cmd[p] \in Command /\ registry \in Registry
  BY DEF IInv, ProcInv, TypeInv
<1>2. pc[p] \in Held /\ pc[p] # "persist"
  BY DEF Held, Signing, Installing
<1>3. cmd[p].op = "install"
  BY Zenon, <1>1 DEF InstallOf
<1>4. /\ cmd[p].bundle \in Bundles /\ Service[cmd[p].bundle] \in Services
      /\ name(p) = Service[cmd[p].bundle]
  BY Zenon, <1>1, <1>3, CommandType DEF name
<1>5. p \in lock /\ mem[p] = registry /\ ~seen[p].complete
  BY Zenon, <1>1, <1>2, HolderHas DEF RemoveOf
<1>6. ASSUME pc[p] \in Installing
      PROVE  /\ \E x \in registry.runners : x.bundle = cmd[p].bundle
             /\ cmd[p].bundle \in recorded(registry)
  <2>1. [bundle |-> cmd[p].bundle, state |-> "pending"] \in registry.runners
    BY Zenon, <1>1, <1>6 DEF InstallOf
  <2>2. [bundle |-> cmd[p].bundle, state |-> "pending"].bundle = cmd[p].bundle
    OBVIOUS
  <2>3. \E x \in registry.runners : x.bundle = cmd[p].bundle
    BY Zenon, <2>1, <2>2
  <2> QED
    BY Zenon, <1>1, <2>3, RegistryType
<1> QED
  BY Zenon, <1>2, <1>3, <1>4, <1>5, <1>6

\* An installation that goes on to l.
LEMMA InstallGoes ==
  ASSUME NEW p \in Procs, NEW l \in Installing, pc'[p] = l, seen' = seen, ~seen[p].complete,
         cmd'[p] = cmd[p], cmd[p].op = "install",
         [bundle |-> cmd[p].bundle, state |-> "pending"] \in registry'.runners,
         l \in {"bootstrap", "settle"} => name(p) \notin torn'
  PROVE  InstallOf(p)' /\ RemoveOf(p)'
<1>1. /\ l \notin Signing /\ l \notin Removing
      /\ l \notin {"remove", "bootout", "recheck", "after", "judge", "persist"}
  BY DEF Installing, Signing, Removing
<1>2. name(p)' = name(p)
  BY Zenon DEF name
<1>3. InstallOf(p)'
  BY Zenon, <1>1, <1>2 DEF InstallOf
<1>4. RemoveOf(p)'
  BY Zenon, <1>1 DEF RemoveOf
<1> QED
  BY Zenon, <1>3, <1>4

LEMMA PendKeeps ==
  ASSUME IInv, NEW p \in Procs, Pend(p)
  PROVE  IInv'
<1> DEFINE b == cmd[p].bundle
           r == with(registry, b, "pending")
<1>1. pc[p] \in Signing /\ UNCHANGED world
  BY DEF Pend, At, Signing, world
<1>2. /\ cmd[p].op = "install" /\ b \in Bundles /\ name(p) = Service[b] /\ pc[p] \in Held
      /\ mem[p] = registry /\ ~seen[p].complete
  BY Zenon, <1>1, InstallerHas
<1>3. TypeInv /\ FileInv /\ registry \in Registry /\ named(recorded(registry), Service[b]) = {}
  BY Zenon, <1>1, <1>2 DEF IInv, ProcInv, InstallOf, TypeInv
<1>4. \/ registry' = r /\ ProceedWith(p, "write", r)
      \/ registry' = registry /\ Exit(p, "failed")
  BY Zenon, <1>2 DEF Pend, Saved, SaveFails
<1>5. CASE registry' = registry /\ Exit(p, "failed")
  BY Zenon, <1>1, <1>5, Exits
<1>6. CASE registry' = r /\ ProceedWith(p, "write", r)
  <2>1. "pending" \in State /\ "write" \in Held /\ "write" \in Installing
        /\ "write" \notin {"bootstrap", "settle"}
    BY DEF State, Held, Installing
  <2>2. r \in Registry /\ [bundle |-> b, state |-> "pending"] \in r.runners
    BY Zenon, <1>2, <1>3, <2>1, WithForm
  <2>3. plist' = plist /\ torn' = torn /\ job' = job /\ tearing' = tearing
    BY <1>1 DEF world
  <2>4. FileInv'
    BY Zenon, <1>2, <1>3, <1>6, <2>1, <2>3, FileWith
  <2> HIDE DEF r
  <2>5. Goes(p) /\ pc'[p] = "write" /\ seen' = seen
    BY Zenon, <1>2, <1>3, <1>6, <2>1, <2>2, ProceedForm
  <2>6. InstallOf(p)' /\ RemoveOf(p)'
    <3>1. [bundle |-> cmd[p].bundle, state |-> "pending"] \in registry'.runners
      BY Zenon, <1>6, <2>2
    <3>2. cmd'[p] = cmd[p]
      BY Zenon, <2>5 DEF Goes
    <3> QED
      BY Zenon, <1>2, <2>1, <2>5, <3>1, <3>2, InstallGoes
  <2>7. WorldTypes'
    BY Zenon, <1>3, <2>3 DEF TypeInv, WorldTypes
  <2> QED
    BY Zenon, <2>4, <2>5, <2>6, <2>7, Going
<1> QED
  BY Zenon, <1>4, <1>5, <1>6

LEMMA WriteKeeps ==
  ASSUME IInv, NEW p \in Procs, CreatePlist(p) \/ WritePlist(p) \/ Bootstrap(p)
  PROVE  IInv'
<1> DEFINE b == cmd[p].bundle
<1>1. /\ pc[p] \in Installing /\ UNCHANGED <<registry, tearing>>
      /\ pc[p] \in {"write", "writing", "bootstrap"}
  BY DEF CreatePlist, WritePlist, Bootstrap, At, Installing
<1>2. /\ cmd[p].op = "install" /\ b \in Bundles /\ name(p) = Service[b] /\ name(p) \in Services
      /\ pc[p] \in Held /\ p \in lock /\ ~seen[p].complete /\ b \in recorded(registry)
  BY Zenon, <1>1, InstallerHas
<1>3. TypeInv /\ FileInv /\ InstallOf(p)
  BY Zenon DEF IInv, ProcInv
<1>4. [bundle |-> b, state |-> "pending"] \in registry'.runners
  BY Zenon, <1>1, <1>3 DEF InstallOf
<1>5. ASSUME NEW l \in Installing, Proceed(p, l), WorldTypes', FileInv',
             l \in {"bootstrap", "settle"} => name(p) \notin torn'
      PROVE  IInv'
  <2>1. l \in Held
    BY Zenon DEF Held
  <2>2. Goes(p) /\ pc'[p] = l /\ seen' = seen /\ name(p)' = name(p) /\ cmd'[p] = cmd[p]
    BY Zenon, <1>1, <1>2, <1>5, <2>1, Continues
  <2>3. InstallOf(p)' /\ RemoveOf(p)'
    BY Zenon, <1>2, <1>4, <1>5, <2>2, InstallGoes
  <2> QED
    BY Zenon, <1>5, <2>2, <2>3, Going
<1>6. CASE UNCHANGED world /\ \E r : Exit(p, r)
  BY Zenon, <1>1, <1>6, Exits
<1>7. CASE CreatePlist(p)
  <2>1. CASE plist[name(p)] # "absent"
    BY Zenon, <1>1, <1>6, <1>7, <2>1 DEF CreatePlist, world
  <2>2. CASE plist[name(p)] = "absent"
    <3>1. /\ plist' = [plist EXCEPT ![name(p)] = b] /\ torn' = torn \cup {name(p)}
          /\ Proceed(p, "writing") /\ job' = job
      BY Zenon, <1>7, <2>2 DEF CreatePlist
    <3>2. plist \in [Services -> Holder] /\ b \in Holder
      BY <1>2, <1>3 DEF TypeInv, Holder
    <3>3. /\ plist' \in [Services -> Holder]
          /\ \A s \in Services : plist'[s] = IF s = name(p) THEN b ELSE plist[s]
      BY ONLY <1>2, <3>1, <3>2
    <3>4. WorldTypes'
      BY <1>1, <1>2, <1>3, <3>1, <3>3 DEF TypeInv, WorldTypes
    <3>5. \A s \in Services : plist'[s] \in Bundles => plist'[s] \in recorded(registry)
                                                       /\ Service[plist'[s]] = s
      BY Zenon, <1>2, <1>3, <3>3 DEF FileInv
    <3>6. FileInv'
      BY Zenon, <1>1, <1>3, <3>1, <3>5 DEF FileInv
    <3>7. "writing" \in Installing /\ "writing" \notin {"bootstrap", "settle"}
      BY DEF Installing
    <3> QED
      BY Zenon, <1>5, <3>1, <3>4, <3>6, <3>7
  <2> QED
    BY Zenon, <2>1, <2>2
<1>8. CASE WritePlist(p)
  <2>1. CASE UNCHANGED torn /\ Exit(p, "failed")
    BY Zenon, <1>1, <1>6, <1>8, <2>1 DEF WritePlist, world
  <2>2. CASE torn' = torn \ {name(p)} /\ Proceed(p, "bootstrap")
    <3>1. plist' = plist /\ job' = job
      BY Zenon, <1>8 DEF WritePlist
    <3>2. WorldTypes'
      BY <1>1, <1>3, <2>2, <3>1 DEF TypeInv, WorldTypes
    <3>3. FileInv'
      BY Zenon, <1>1, <1>3, <3>1, FileSame
    <3>4. "bootstrap" \in Installing /\ name(p) \notin torn'
      BY <2>2 DEF Installing
    <3> QED
      BY Zenon, <1>5, <2>2, <3>2, <3>3, <3>4
  <2> QED
    BY Zenon, <1>8, <2>1, <2>2 DEF WritePlist
<1>9. CASE Bootstrap(p)
  <2>1. /\ pc[p] = "bootstrap" /\ plist' = plist /\ torn' = torn
        /\ \/ Proceed(p, "settle") /\ job' = job
           \/ /\ job' = [job EXCEPT ![name(p)] = plist[name(p)]]
              /\ Proceed(p, "settle") \/ Exit(p, "failed")
           \/ Exit(p, "failed") /\ job' = job
    BY Zenon, <1>9 DEF Bootstrap, At, Load
  <2>2. "settle" \in Installing /\ name(p) \notin torn'
    BY <1>3, <2>1 DEF InstallOf, Installing
  <2>3. ASSUME job' = job \/ job' = [job EXCEPT ![name(p)] = plist[name(p)]]
        PROVE  WorldTypes' /\ FileInv'
    <3>1. /\ job \in [Services -> Holder] /\ plist \in [Services -> Holder]
          /\ torn \subseteq Services /\ tearing \subseteq Services
      BY Zenon, <1>3 DEF TypeInv
    <3>2. /\ job' \in [Services -> Holder]
          /\ \A s \in Services : job'[s] = job[s] \/ job'[s] = plist[s]
      BY ONLY <1>2, <2>3, <3>1
    <3>3. WorldTypes'
      BY Zenon, <1>1, <2>1, <3>1, <3>2 DEF WorldTypes
    <3>4. \A s \in Services : job'[s] \in Bundles => job'[s] \in recorded(registry)
                                                     /\ Service[job'[s]] = s
      BY Zenon, <1>3, <3>2 DEF FileInv
    <3>5. FileInv'
      BY Zenon, <1>1, <1>3, <2>1, <3>4 DEF FileInv
    <3> QED
      BY Zenon, <3>3, <3>5
  <2>4. CASE Proceed(p, "settle")
    BY Zenon, <1>5, <2>1, <2>2, <2>3, <2>4
  <2>5. CASE Exit(p, "failed")
    <3>1. Ends(p)
      BY Zenon, <1>3, <2>5, ExitForm
    <3>2. registry' \in Registry
      BY Zenon, <1>1, <1>3 DEF TypeInv
    <3> QED
      BY Zenon, <1>2, <2>1, <2>3, <3>1, <3>2, Ending
  <2> QED
    BY Zenon, <2>1, <2>4, <2>5
<1> QED
  BY Zenon, <1>7, <1>8, <1>9

LEMMA SettleKeeps ==
  ASSUME IInv, NEW p \in Procs, Settle(p)
  PROVE  IInv'
<1> DEFINE b == cmd[p].bundle
<1>1. pc[p] \in Installing /\ UNCHANGED world
  BY DEF Settle, At, Installing, world
<1>2. /\ b \in Bundles /\ p \in lock /\ mem[p] = registry
      /\ \E x \in registry.runners : x.bundle = b
  BY Zenon, <1>1, InstallerHas
<1>3. TypeInv /\ FileInv /\ registry \in Registry
  BY Zenon DEF IInv, TypeInv
<1>4. CASE registry' = registry /\ Exit(p, "failed")
  BY Zenon, <1>1, <1>4, Exits
<1>5. CASE registry' = with(registry, b, "installed") /\ Exit(p, "installed")
  <2>1. plist' = plist /\ torn' = torn /\ job' = job /\ tearing' = tearing
    BY <1>1 DEF world
  <2>2. "installed" \in State
    BY DEF State
  <2>3. FileInv' /\ registry' \in Registry
    BY Zenon, <1>2, <1>3, <1>5, <2>1, <2>2, FileWith
  <2>4. WorldTypes'
    BY Zenon, <1>3, <2>1 DEF TypeInv, WorldTypes
  <2>5. Ends(p)
    BY Zenon, <1>3, <1>5, ExitForm
  <2> QED
    BY Zenon, <1>2, <2>3, <2>4, <2>5, Ending
<1> QED
  BY Zenon, <1>2, <1>4, <1>5 DEF Settle, Saved, SaveFails

-----------------------------------------------------------------------------
(* Removing.                                                                *)

\* The file and the runner of a removal.
LEMMA RemoverHas ==
  ASSUME IInv, NEW p \in Procs, pc[p] \in Removing
  PROVE  /\ cmd[p].op = "remove" /\ name(p) = cmd[p].name /\ name(p) \in Services
         /\ pc[p] \in Held /\ p \in lock /\ mem[p] = registry
         /\ toRemove(p) \in registry.pending_cleanup /\ Service[toRemove(p)] = name(p)
         /\ toRemove(p) \in Bundles /\ toRemove(p) \in recorded(registry)
         /\ toRemove(p) \notin {"absent", "foreign", "unknown"}
<1>1. RemoveOf(p) /\ cmd[p] \in Command /\ registry \in Registry
  BY DEF IInv, ProcInv, TypeInv
<1>2. cmd[p].op = "remove" /\ pc[p] \in Held
  BY Zenon, <1>1 DEF RemoveOf, Held
<1>3. name(p) = cmd[p].name
  BY <1>2 DEF name
<1>4. cmd[p].name \in Services
  BY Zenon, <1>1, <1>2, CommandType
<1>5. p \in lock /\ mem[p] = registry
  BY Zenon, <1>2, HolderHas
<1>6. named(registry.pending_cleanup, cmd[p].name) # {}
  BY Zenon, <1>1, <1>3 DEF RemoveOf
<1>7. toRemove(p) \in named(registry.pending_cleanup, cmd[p].name)
  BY Zenon, <1>5, <1>6 DEF toRemove
<1>8. toRemove(p) \in registry.pending_cleanup /\ Service[toRemove(p)] = cmd[p].name
  BY Zenon, <1>7 DEF named
<1>9. toRemove(p) \in Bundles /\ toRemove(p) \in recorded(registry)
  BY Zenon, <1>1, <1>8, RegistryType
<1>10. toRemove(p) \notin {"absent", "foreign", "unknown"}
  BY Zenon, <1>9, BundlesAssumption
<1> QED
  BY Zenon, <1>2, <1>3, <1>4, <1>5, <1>8, <1>9, <1>10

\* A removal that goes on to l.
LEMMA RemovalGoes ==
  ASSUME IInv, NEW p \in Procs, NEW l \in Removing, pc[p] \in Removing,
         pc' = [pc EXCEPT ![p] = l], UNCHANGED <<registry, lock, cmd, mem>>,
         seen' \in [Procs -> Seen], \A q \in Procs \ {p} : seen'[q] = seen[q],
         WorldTypes', FileInv', l # "persist" => ~seen'[p].complete,
         \/ l \in {"bootout", "recheck"} /\ seen'[p].plist = "absent"
         \/ l \in {"after", "judge"} /\ ~seen'[p].warned
         \/ l = "persist" /\ seen'[p].complete
         => plist'[name(p)] \notin Bundles,
         \/ l = "judge" /\ ~seen'[p].warned /\ seen'[p].service = "absent"
         \/ l = "persist" /\ seen'[p].complete
         => job'[name(p)] \notin Bundles
  PROVE  IInv'
<1>1. /\ cmd[p].op = "remove" /\ pc[p] \in Held /\ mem[p] = registry /\ l \in Held
  BY Zenon, RemoverHas DEF Held
<1>2. TypeInv /\ RemoveOf(p)
  BY Zenon DEF IInv, ProcInv
<1>3. name(p)' = name(p)
  BY Zenon DEF name
<1>4. pc' \in [Procs -> Held \cup {"idle", "lock"}] /\ pc'[p] = l
      /\ \A q \in Procs \ {p} : pc'[q] = pc[q]
  BY <1>1, <1>2 DEF TypeInv
<1>5. Goes(p)
  BY Zenon, <1>1, <1>2, <1>4 DEF Goes, Others, ProcTypes, TypeInv
<1>6. l \notin {"install", "bootstrap", "settle"} \cup Signing \cup Installing
  BY DEF Signing, Installing, Removing
<1>7. InstallOf(p)'
  BY Zenon, <1>4, <1>6 DEF InstallOf
<1>8. named(registry.pending_cleanup, name(p)) # {}
  BY Zenon, <1>2 DEF RemoveOf
<1>9. RemoveOf(p)'
  BY Zenon, <1>1, <1>3, <1>4, <1>8 DEF RemoveOf
<1> QED
  BY Zenon, <1>5, <1>7, <1>9, Going

LEMMA MarkKeeps ==
  ASSUME IInv, NEW p \in Procs, Mark(p)
  PROVE  IInv'
<1> DEFINE R == named({x.bundle : x \in registry.runners}, cmd[p].name)
           b == CHOOSE x \in R : TRUE
           r == [runners |-> {x \in registry.runners : x.bundle # b},
                 pending_cleanup |-> registry.pending_cleanup \cup {b}]
<1>1. /\ pc[p] = "remove" /\ pc[p] \in Held /\ UNCHANGED world
  BY DEF Mark, At, Held, world
<1>2. mem[p] = registry
  BY Zenon, <1>1, HolderHas
<1>3. \/ R # {} /\ registry' = r /\ ProceedWith(p, "service", r)
      \/ registry' = registry /\ \E e : Exit(p, e)
      \/ /\ registry' = registry /\ named(registry.pending_cleanup, cmd[p].name) # {}
         /\ Proceed(p, "service")
  BY Zenon, <1>2 DEF Mark, Saved, SaveFails
<1>4. TypeInv /\ FileInv /\ registry \in Registry /\ RemoveOf(p)
  BY Zenon DEF IInv, ProcInv, TypeInv
<1>5. cmd[p].op = "remove" /\ ~seen[p].complete
  BY <1>1, <1>4 DEF RemoveOf
<1>6. name(p) = cmd[p].name
  BY <1>5 DEF name
<1>7. plist' = plist /\ torn' = torn /\ job' = job /\ tearing' = tearing
  BY <1>1 DEF world
<1>8. WorldTypes'
  BY Zenon, <1>4, <1>7 DEF TypeInv, WorldTypes
<1>9. ASSUME Goes(p), pc'[p] = "service", seen' = seen, FileInv',
             named(registry'.pending_cleanup, cmd[p].name) # {}
      PROVE  IInv'
  <2>1. /\ pc'[p] \notin {"install", "bootstrap", "settle"} \cup Signing \cup Installing
        /\ pc'[p] \in Removing
        /\ pc'[p] \notin {"bootout", "recheck", "after", "judge", "persist"}
    BY <1>9 DEF Signing, Installing, Removing
  <2>2. cmd'[p] = cmd[p] /\ name(p)' = name(p)
    BY Zenon, <1>9 DEF Goes, name
  <2>3. InstallOf(p)'
    BY Zenon, <2>1 DEF InstallOf
  <2>4. RemoveOf(p)'
    BY Zenon, <1>5, <1>6, <1>9, <2>1, <2>2 DEF RemoveOf
  <2> QED
    BY Zenon, <1>8, <1>9, <2>3, <2>4, Going
<1>10. "service" \in Held
  BY DEF Held, Removing
<1>11. CASE R # {} /\ registry' = r /\ ProceedWith(p, "service", r)
  <2>1. b \in R
    BY Zenon, <1>11
  <2>2. PICK y \in registry.runners : y.bundle = b
    BY Zenon, <2>1 DEF named
  <2>3. b \in recorded(registry) /\ b \in Bundles /\ Service[b] = cmd[p].name
    BY Zenon, <1>4, <2>1, <2>2, RegistryType DEF named
  <2> HIDE DEF b, R
  <2>4. r.runners = {x \in registry.runners : x.bundle # b}
        /\ r.pending_cleanup = registry.pending_cleanup \cup {b}
    OBVIOUS
  <2>5. registry.runners \in SUBSET Record /\ registry.pending_cleanup \in SUBSET Bundles
    BY Zenon, <1>4, RegistryType
  <2>6. r \in Registry
    BY <2>3, <2>5 DEF Registry
  <2> HIDE DEF r
  <2>7. \A c : c \in recorded(r) <=> c \in recorded(registry)
    <3>1. \A c : c \in recorded(r) <=>
            (\E x \in registry.runners : x.bundle # b /\ x.bundle = c)
            \/ c \in registry.pending_cleanup \/ c = b
      BY Zenon, <2>4, <2>6, RegistryType
    <3>2. \A c : c \in recorded(registry) <=>
            (\E x \in registry.runners : x.bundle = c) \/ c \in registry.pending_cleanup
      BY Zenon, <1>4, RegistryType
    <3> QED
      BY Zenon, <2>3, <3>1, <3>2
  <2>8. \A x \in r.runners : x.bundle \notin r.pending_cleanup
    BY Zenon, <1>4, <2>4 DEF FileInv
  <2>9. FileInv'
    <3>1. recorded(r) = recorded(registry)
      BY Zenon, <2>7
    <3>2. recorded(registry)' = recorded(registry)
      BY Zenon, <1>11, <3>1
    <3>3. \A x \in registry'.runners : x.bundle \notin registry'.pending_cleanup
      BY Zenon, <1>11, <2>8
    <3> QED
      BY Zenon, <1>4, <1>7, <3>2, <3>3 DEF FileInv
  <2>10. Goes(p) /\ pc'[p] = "service" /\ seen' = seen
    BY Zenon, <1>1, <1>4, <1>10, <1>11, <2>6, ProceedForm
  <2>11. b \in named(r.pending_cleanup, cmd[p].name)
    BY Zenon, <2>3, <2>4 DEF named
  <2> QED
    BY Zenon, <1>9, <1>11, <2>9, <2>10, <2>11
<1>12. CASE registry' = registry /\ \E e : Exit(p, e)
  BY Zenon, <1>1, <1>12, Exits
<1>13. CASE /\ registry' = registry /\ named(registry.pending_cleanup, cmd[p].name) # {}
            /\ Proceed(p, "service")
  <2>1. Goes(p) /\ pc'[p] = "service" /\ seen' = seen
    BY Zenon, <1>1, <1>10, <1>13, Continues
  <2>2. FileInv'
    BY Zenon, <1>4, <1>7, <1>13, FileSame
  <2> QED
    BY Zenon, <1>9, <1>13, <2>1, <2>2
<1> QED
  BY Zenon, <1>3, <1>11, <1>12, <1>13

\* What an inspection can yield.
LEMMA InspectForm ==
  ASSUME TypeInv, NEW s \in Services
  PROVE  /\ \A o \in Inspect(job[s]) : o \in Observation /\ (o \in Holder => o = job[s])
         /\ \A o \in inspectPlist(s) : o \in Observation /\ (o \in Holder => o = plist[s])
<1>1. job[s] \in Holder /\ plist[s] \in Holder /\ "unknown" \notin Holder
  BY BundlesAssumption DEF TypeInv, Holder
<1>2. \A x \in Holder : \A o \in Inspect(x) : o = x \/ o = "unknown"
  BY Zenon DEF Inspect
<1>3. \A o \in inspectPlist(s) : o = plist[s] \/ o = "unknown"
  BY Zenon, <1>1, <1>2 DEF inspectPlist
<1>4. Holder \subseteq Observation /\ "unknown" \in Observation
  BY Zenon DEF Observation
<1> QED
  BY Zenon, <1>1, <1>2, <1>3, <1>4

LEMMA WorldSame ==
  ASSUME IInv, UNCHANGED registry, UNCHANGED world
  PROVE  WorldTypes' /\ FileInv' /\ plist' = plist /\ job' = job
<1>1. TypeInv /\ FileInv /\ plist' = plist /\ torn' = torn /\ job' = job /\ tearing' = tearing
  BY Zenon DEF IInv, world
<1>2. WorldTypes'
  BY Zenon, <1>1 DEF TypeInv, WorldTypes
<1>3. FileInv'
  BY Zenon, <1>1, FileSame
<1> QED
  BY Zenon, <1>1, <1>2, <1>3

\* What a removal knows where it is.
LEMMA RemoverKnows ==
  ASSUME IInv, NEW p \in Procs
  PROVE  /\ pc[p] # "persist" => ~seen[p].complete
         /\ pc[p] \in {"bootout", "recheck"} /\ seen[p].plist = "absent"
              => plist[name(p)] \notin Bundles
         /\ pc[p] \in {"after", "judge"} /\ ~seen[p].warned => plist[name(p)] \notin Bundles
         /\ pc[p] = "persist" /\ seen[p].complete
              => plist[name(p)] \notin Bundles /\ job[name(p)] \notin Bundles
         /\ pc[p] = "judge" /\ ~seen[p].warned /\ seen[p].service = "absent"
              => job[name(p)] \notin Bundles
  BY Zenon DEF IInv, ProcInv, RemoveOf

LEMMA LocationKeeps ==
  ASSUME IInv, NEW p \in Procs, LocationRefused(p)
  PROVE  IInv'
<1>1. /\ pc[p] = "service" /\ pc' = [pc EXCEPT ![p] = "persist"]
      /\ seen' = [seen EXCEPT ![p].warned = TRUE]
      /\ UNCHANGED <<registry, lock, cmd, mem>> /\ UNCHANGED registry /\ UNCHANGED world
  BY Zenon DEF LocationRefused, At, Warn, Goto
<1>2. seen \in [Procs -> Seen] /\ ~seen[p].complete
  BY <1>1, RemoverKnows DEF IInv, TypeInv
<1>3. /\ seen' \in [Procs -> Seen] /\ \A q \in Procs \ {p} : seen'[q] = seen[q]
      /\ ~seen'[p].complete
  BY ONLY Zenon, <1>1, <1>2, p \in Procs, SeenWarned
<1>4. pc[p] \in Removing /\ "persist" \in Removing /\ "persist" \notin {"bootout", "recheck"}
      /\ "persist" \notin {"after", "judge"} /\ "persist" # "judge"
  BY <1>1 DEF Removing
<1> QED
  BY Zenon, <1>1, <1>3, <1>4, WorldSame, RemovalGoes

LEMMA ObserveServiceKeeps ==
  ASSUME IInv, NEW p \in Procs, ObserveService(p)
  PROVE  IInv'
<1>1. /\ pc[p] = "service" /\ pc' = [pc EXCEPT ![p] = "plist"]
      /\ \E o \in Inspect(job[name(p)]) : seen' = [seen EXCEPT ![p].service = o]
      /\ UNCHANGED <<registry, lock, cmd, mem>> /\ UNCHANGED registry /\ UNCHANGED world
  BY Zenon DEF ObserveService, At, Goto
<1>2. TypeInv /\ seen \in [Procs -> Seen] /\ ~seen[p].complete
  BY <1>1, RemoverKnows DEF IInv, TypeInv
<1>3. pc[p] \in Removing /\ "plist" \in Removing /\ "plist" \notin {"bootout", "recheck"}
      /\ "plist" \notin {"after", "judge"} /\ "plist" # "judge" /\ "plist" # "persist"
  BY <1>1 DEF Removing
<1>4. PICK o \in Observation : seen' = [seen EXCEPT ![p].service = o]
  BY Zenon, <1>1, <1>2, <1>3, RemoverHas, InspectForm
<1>5. /\ seen' \in [Procs -> Seen] /\ \A q \in Procs \ {p} : seen'[q] = seen[q]
      /\ ~seen'[p].complete
  BY ONLY Zenon, <1>2, <1>4, p \in Procs, SeenService
<1> QED
  BY Zenon, <1>1, <1>3, <1>5, WorldSame, RemovalGoes

LEMMA ObservePlistKeeps ==
  ASSUME IInv, NEW p \in Procs, ObservePlist(p)
  PROVE  IInv'
<1>1. /\ pc[p] = "plist" /\ pc' = [pc EXCEPT ![p] = "bootout"]
      /\ \E o \in inspectPlist(name(p)) : seen' = [seen EXCEPT ![p].plist = o]
      /\ UNCHANGED <<registry, lock, cmd, mem>> /\ UNCHANGED registry /\ UNCHANGED world
  BY Zenon DEF ObservePlist, At, Goto
<1>2. TypeInv /\ seen \in [Procs -> Seen] /\ ~seen[p].complete
  BY <1>1, RemoverKnows DEF IInv, TypeInv
<1>3. pc[p] \in Removing /\ "bootout" \in Removing
      /\ "bootout" \notin {"after", "judge"} /\ "bootout" # "judge" /\ "bootout" # "persist"
  BY <1>1 DEF Removing
<1>4. PICK o \in Observation : /\ seen' = [seen EXCEPT ![p].plist = o]
                               /\ o \in Holder => o = plist[name(p)]
  BY Zenon, <1>1, <1>2, <1>3, RemoverHas, InspectForm
<1>5. /\ seen' \in [Procs -> Seen] /\ \A q \in Procs \ {p} : seen'[q] = seen[q]
      /\ ~seen'[p].complete /\ seen'[p].plist = o
  BY ONLY Zenon, <1>2, <1>4, p \in Procs, SeenPlist
<1>6. "absent" \in Holder /\ "absent" \notin Bundles
  BY Zenon, BundlesAssumption DEF Holder
<1>7. seen'[p].plist = "absent" => plist[name(p)] \notin Bundles
  BY Zenon, <1>4, <1>5, <1>6
<1> QED
  BY Zenon, <1>1, <1>3, <1>5, <1>7, WorldSame, RemovalGoes

\* Whether the job is booted out or not, the removal goes on to look at the plist.
LEMMA BootsOut ==
  ASSUME IInv, NEW p \in Procs, pc[p] = "bootout", pc' = [pc EXCEPT ![p] = "recheck"],
         \/ seen' = seen
         \/ seen' = [seen EXCEPT ![p].warned = TRUE]
         \/ seen' = [seen EXCEPT ![p].booted_out = TRUE],
         UNCHANGED <<registry, lock, cmd, mem>>, WorldTypes', FileInv', plist' = plist
  PROVE  IInv'
<1>1. TypeInv /\ seen \in [Procs -> Seen] /\ ~seen[p].complete
      /\ (seen[p].plist = "absent" => plist[name(p)] \notin Bundles)
  BY RemoverKnows DEF IInv, TypeInv
<1>2. pc[p] \in Removing /\ "recheck" \in Removing
      /\ "recheck" \notin {"after", "judge"} /\ "recheck" # "judge" /\ "recheck" # "persist"
  BY DEF Removing
<1> DEFINE Kept == /\ seen' \in [Procs -> Seen] /\ \A q \in Procs \ {p} : seen'[q] = seen[q]
                   /\ seen'[p].complete = seen[p].complete /\ seen'[p].plist = seen[p].plist
<1>3. seen' = seen => Kept
  BY Zenon, <1>1
<1>4. ASSUME seen' = [seen EXCEPT ![p].warned = TRUE] PROVE Kept
  BY ONLY Zenon, <1>1, <1>4, p \in Procs, SeenWarned
<1>5. ASSUME seen' = [seen EXCEPT ![p].booted_out = TRUE] PROVE Kept
  BY ONLY Zenon, <1>1, <1>5, p \in Procs, SeenBootedOut
<1>6. Kept
  BY Zenon, <1>3, <1>4, <1>5
<1>7. seen'[p].plist = "absent" => plist'[name(p)] \notin Bundles
  BY Zenon, <1>1, <1>6
<1> QED
  BY Zenon, <1>1, <1>2, <1>6, <1>7, RemovalGoes

LEMMA BootoutKeeps ==
  ASSUME IInv, NEW p \in Procs, Bootout(p)
  PROVE  IInv'
<1>1. /\ pc[p] = "bootout" /\ pc' = [pc EXCEPT ![p] = "recheck"]
      /\ seen' = seen \/ seen' = [seen EXCEPT ![p].warned = TRUE]
      /\ UNCHANGED <<registry, lock, cmd, mem>> /\ UNCHANGED registry /\ UNCHANGED world
  BY Zenon DEF Bootout, At, Goto, Warn
<1> QED
  BY Zenon, <1>1, WorldSame, BootsOut

LEMMA BootoutOwnedKeeps ==
  ASSUME IInv, NEW p \in Procs, BootoutOwned(p)
  PROVE  IInv'
<1>1. /\ pc[p] = "bootout" /\ pc' = [pc EXCEPT ![p] = "recheck"]
      /\ \/ seen' = [seen EXCEPT ![p].warned = TRUE]
         \/ seen' = [seen EXCEPT ![p].booted_out = TRUE]
      /\ tearing' = tearing \/ tearing' = tearing \cup {name(p)}
      /\ UNCHANGED <<registry, lock, cmd, mem>>
  BY Zenon DEF BootoutOwned, At, Goto, Warn
<1>2. UNCHANGED <<registry, plist, torn, job>>
  BY Zenon DEF BootoutOwned
<1>3. pc[p] \in Removing
  BY <1>1 DEF Removing
<1>4. name(p) \in Services
  BY Zenon, <1>3, RemoverHas
<1>5. TypeInv /\ FileInv
  BY Zenon DEF IInv
<1>6. tearing' \subseteq Services
  BY Zenon, <1>1, <1>4, <1>5 DEF TypeInv
<1>7. WorldTypes'
  BY Zenon, <1>2, <1>5, <1>6 DEF TypeInv, WorldTypes
<1>8. FileInv'
  BY Zenon, <1>2, <1>5, FileSame
<1> QED
  BY Zenon, <1>1, <1>2, <1>7, <1>8, BootsOut

\* The plist is only unlinked if it is the runner's at that moment.
LEMMA Rechecks ==
  ASSUME IInv, NEW p \in Procs, Recheck(p)
  PROVE  /\ pc[p] = "recheck"
         /\ \/ pc' = [pc EXCEPT ![p] = "unlink"] /\ seen' = seen /\ plist[name(p)] = toRemove(p)
            \/ /\ pc' = [pc EXCEPT ![p] = "after"]
               /\ \/ seen[p].plist = "absent" /\ seen' = seen
                  \/ seen' = [seen EXCEPT ![p].warned = TRUE]
<1>1. PICK o \in inspectPlist(name(p)) :
        LET remove == owned(p, seen[p].plist) /\ owned(p, o) IN
        /\ Goto(p, IF seen[p].plist # "absent" /\ remove THEN "unlink" ELSE "after")
        /\ IF seen[p].plist = "absent" \/ remove THEN UNCHANGED seen ELSE Warn(p)
  BY Zenon DEF Recheck
<1>2. pc[p] = "recheck"
  BY Zenon DEF Recheck, At
<1>3. pc[p] \in Removing
  BY <1>2 DEF Removing
<1>4. name(p) \in Services /\ toRemove(p) \in Holder
  BY Zenon, <1>3, RemoverHas DEF Holder
<1>5. o \in Holder => o = plist[name(p)]
  BY Zenon, <1>4, InspectForm DEF IInv
<1>6. CASE seen[p].plist # "absent" /\ owned(p, seen[p].plist) /\ owned(p, o)
  <2>1. pc' = [pc EXCEPT ![p] = "unlink"] /\ seen' = seen /\ o = toRemove(p)
    BY Zenon, <1>1, <1>6 DEF Goto, owned
  <2> QED
    BY Zenon, <1>2, <1>4, <1>5, <2>1
<1>7. CASE ~(seen[p].plist # "absent" /\ owned(p, seen[p].plist) /\ owned(p, o))
  <2>1. pc' = [pc EXCEPT ![p] = "after"]
    BY Zenon, <1>1, <1>7 DEF Goto
  <2>2. \/ seen[p].plist = "absent" /\ seen' = seen
        \/ seen' = [seen EXCEPT ![p].warned = TRUE]
    BY Zenon, <1>1, <1>7 DEF Warn
  <2> QED
    BY Zenon, <1>2, <2>1, <2>2
<1> QED
  BY Zenon, <1>6, <1>7

LEMMA RecheckKeeps ==
  ASSUME IInv, NEW p \in Procs, Recheck(p)
  PROVE  IInv'
<1>1. UNCHANGED <<registry, lock, cmd, mem>> /\ UNCHANGED registry /\ UNCHANGED world
  BY Zenon DEF Recheck
<1>2. pc[p] = "recheck"
  BY Zenon, Rechecks
<1>3. seen \in [Procs -> Seen] /\ ~seen[p].complete
      /\ (seen[p].plist = "absent" => plist[name(p)] \notin Bundles)
  BY <1>2, RemoverKnows DEF IInv, TypeInv
<1>4. pc[p] \in Removing /\ "unlink" \in Removing /\ "after" \in Removing
      /\ "unlink" \notin {"bootout", "recheck", "after", "judge", "persist"}
      /\ "after" \notin {"bootout", "recheck", "judge", "persist"}
  BY <1>2 DEF Removing
<1>5. WorldTypes' /\ FileInv' /\ plist' = plist
  BY Zenon, <1>1, WorldSame
<1>6. CASE pc' = [pc EXCEPT ![p] = "unlink"] /\ seen' = seen
  BY Zenon, <1>1, <1>3, <1>4, <1>5, <1>6, RemovalGoes
<1>7. CASE pc' = [pc EXCEPT ![p] = "after"] /\ seen[p].plist = "absent" /\ seen' = seen
  <2>1. plist'[name(p)] \notin Bundles
    BY Zenon, <1>3, <1>5, <1>7
  <2> QED
    BY Zenon, <1>1, <1>3, <1>4, <1>5, <1>7, <2>1, RemovalGoes
<1>8. CASE pc' = [pc EXCEPT ![p] = "after"] /\ seen' = [seen EXCEPT ![p].warned = TRUE]
  <2>1. /\ seen' \in [Procs -> Seen] /\ \A q \in Procs \ {p} : seen'[q] = seen[q]
        /\ seen'[p].complete = seen[p].complete /\ seen'[p].warned = TRUE
    BY ONLY Zenon, <1>3, <1>8, p \in Procs, SeenWarned
  <2> QED
    BY Zenon, <1>1, <1>3, <1>4, <1>5, <1>8, <2>1, RemovalGoes
<1> QED
  BY Zenon, <1>6, <1>7, <1>8, Rechecks

\* A name that is freed leaves the file true.
LEMMA FileFreed ==
  ASSUME IInv, NEW s \in Services, UNCHANGED registry,
         plist' = [plist EXCEPT ![s] = "absent"] \/ plist' = [plist EXCEPT ![s] = "foreign"]
           \/ plist' = plist,
         job' = [job EXCEPT ![s] = "absent"] \/ job' = [job EXCEPT ![s] = "foreign"]
           \/ job' = [job EXCEPT ![s] = plist[s]] \/ job' = job
  PROVE  /\ FileInv' /\ plist' \in [Services -> Holder] /\ job' \in [Services -> Holder]
         /\ \A t \in Services : /\ plist'[t] \in Bundles => plist[t] \in Bundles
                                /\ job'[t] \in Bundles => job[t] \in Bundles \/ plist[t] \in Bundles
<1>1. plist \in [Services -> Holder] /\ job \in [Services -> Holder] /\ FileInv
  BY Zenon DEF IInv, TypeInv
<1>2. {"absent", "foreign"} \cap Bundles = {} /\ {"absent", "foreign"} \subseteq Holder
  BY Zenon, BundlesAssumption DEF Holder
<1>3. /\ plist' \in [Services -> Holder]
      /\ \A t \in Services : plist'[t] \in {plist[t], "absent", "foreign"}
  BY ONLY <1>1, <1>2,
       plist' = [plist EXCEPT ![s] = "absent"] \/ plist' = [plist EXCEPT ![s] = "foreign"]
         \/ plist' = plist
<1>4. /\ job' \in [Services -> Holder]
      /\ \A t \in Services : job'[t] \in {job[t], plist[t], "absent", "foreign"}
  BY ONLY <1>1, <1>2, s \in Services,
       job' = [job EXCEPT ![s] = "absent"] \/ job' = [job EXCEPT ![s] = "foreign"]
         \/ job' = [job EXCEPT ![s] = plist[s]] \/ job' = job
<1>5. \A t \in Services : plist'[t] \in Bundles => plist'[t] = plist[t]
  BY Zenon, <1>2, <1>3
<1>6. \A t \in Services : job'[t] \in Bundles => job'[t] = job[t] \/ job'[t] = plist[t]
  BY Zenon, <1>2, <1>4
<1>7. ASSUME NEW t \in Services, plist'[t] \in Bundles
      PROVE  plist'[t] \in recorded(registry) /\ Service[plist'[t]] = t
  BY Zenon, <1>1, <1>5, <1>7 DEF FileInv
<1>8. ASSUME NEW t \in Services, job'[t] \in Bundles
      PROVE  job'[t] \in recorded(registry) /\ Service[job'[t]] = t
  BY Zenon, <1>1, <1>6, <1>8 DEF FileInv
<1>9. FileInv'
  BY Zenon, <1>1, <1>7, <1>8 DEF FileInv
<1> QED
  BY Zenon, <1>3, <1>4, <1>5, <1>6, <1>9

LEMMA UnlinkKeeps ==
  ASSUME IInv, NEW p \in Procs, Unlink(p)
  PROVE  IInv'
<1>1. /\ pc[p] = "unlink" /\ pc' = [pc EXCEPT ![p] = "after"]
      /\ UNCHANGED <<registry, lock, cmd, mem>> /\ UNCHANGED registry
      /\ job' = job /\ tearing' = tearing
  BY Zenon DEF Unlink, At, Goto
<1>2. pc[p] \in Removing /\ "after" \in Removing
      /\ "after" \notin {"bootout", "recheck", "judge", "persist"}
  BY <1>1 DEF Removing
<1>3. TypeInv /\ seen \in [Procs -> Seen] /\ ~seen[p].complete
  BY <1>1, RemoverKnows DEF IInv, TypeInv
<1>4. name(p) \in Services
  BY Zenon, <1>2, RemoverHas
<1>5. CASE /\ plist' = [plist EXCEPT ![name(p)] = "absent"] /\ torn' = torn \ {name(p)}
           /\ seen' = seen
  <2>1. FileInv' /\ plist' \in [Services -> Holder]
    BY Zenon, <1>1, <1>4, <1>5, FileFreed
  <2>2. plist'[name(p)] = "absent"
    BY <1>3, <1>4, <1>5 DEF TypeInv
  <2>3. plist'[name(p)] \notin Bundles
    BY Zenon, <2>2, BundlesAssumption
  <2>4. WorldTypes'
    BY Zenon, <1>1, <1>3, <1>5, <2>1 DEF TypeInv, WorldTypes
  <2> QED
    BY Zenon, <1>1, <1>2, <1>3, <1>5, <2>1, <2>3, <2>4, RemovalGoes
<1>6. CASE seen' = [seen EXCEPT ![p].warned = TRUE] /\ plist' = plist /\ torn' = torn
  <2>1. /\ seen' \in [Procs -> Seen] /\ \A q \in Procs \ {p} : seen'[q] = seen[q]
        /\ seen'[p].complete = seen[p].complete /\ seen'[p].warned = TRUE
    BY ONLY Zenon, <1>3, <1>6, p \in Procs, SeenWarned
  <2>2. UNCHANGED world
    BY <1>1, <1>6 DEF world
  <2> QED
    BY Zenon, <1>1, <1>2, <1>3, <2>1, <2>2, WorldSame, RemovalGoes
<1> QED
  BY Zenon, <1>5, <1>6 DEF Unlink, Warn

LEMMA ServiceAfterKeeps ==
  ASSUME IInv, NEW p \in Procs, ServiceAfter(p)
  PROVE  IInv'
<1>1. /\ pc[p] = "after" /\ UNCHANGED <<registry, lock, cmd, mem>> /\ UNCHANGED registry
      /\ UNCHANGED world
  BY Zenon DEF ServiceAfter, At
<1>2. TypeInv /\ seen \in [Procs -> Seen] /\ ~seen[p].complete
      /\ (~seen[p].warned => plist[name(p)] \notin Bundles)
  BY <1>1, RemoverKnows DEF IInv, TypeInv
<1>3. pc[p] \in Removing /\ "after" \in Removing /\ "judge" \in Removing
      /\ "after" \notin {"bootout", "recheck", "judge", "persist"}
      /\ "judge" \notin {"bootout", "recheck", "persist"}
  BY <1>1 DEF Removing
<1>4. WorldTypes' /\ FileInv' /\ plist' = plist /\ job' = job
  BY Zenon, <1>1, WorldSame
<1>5. CASE seen' = [seen EXCEPT ![p].reads = @ + 1] /\ pc' = pc
  <2>1. seen[p].reads + 1 \in Nat /\ seen' = [seen EXCEPT ![p].reads = seen[p].reads + 1]
    BY <1>2, <1>5 DEF Seen
  <2>2. /\ seen' \in [Procs -> Seen] /\ \A q \in Procs \ {p} : seen'[q] = seen[q]
        /\ seen'[p].complete = seen[p].complete /\ seen'[p].warned = seen[p].warned
    BY ONLY Zenon, <1>2, <2>1, p \in Procs, SeenReads
  <2>3. pc' = [pc EXCEPT ![p] = "after"]
    BY <1>1, <1>2, <1>5 DEF TypeInv
  <2>4. ~seen'[p].warned => plist'[name(p)] \notin Bundles
    BY Zenon, <1>2, <1>4, <2>2
  <2> QED
    BY Zenon, <1>1, <1>2, <1>3, <1>4, <2>2, <2>3, <2>4, RemovalGoes
<1>6. ASSUME NEW o \in Inspect(job[name(p)]), seen' = [seen EXCEPT ![p].service = o],
             pc' = [pc EXCEPT ![p] = "judge"]
      PROVE  IInv'
  <2>1. o \in Observation /\ (o \in Holder => o = job[name(p)])
    BY Zenon, <1>2, <1>3, RemoverHas, InspectForm
  <2>2. /\ seen' \in [Procs -> Seen] /\ \A q \in Procs \ {p} : seen'[q] = seen[q]
        /\ seen'[p].complete = seen[p].complete /\ seen'[p].warned = seen[p].warned
        /\ seen'[p].service = o
    BY ONLY Zenon, <1>2, <1>6, <2>1, p \in Procs, SeenService
  <2>3. "absent" \in Holder /\ "absent" \notin Bundles
    BY Zenon, BundlesAssumption DEF Holder
  <2>4. ~seen'[p].warned => plist'[name(p)] \notin Bundles
    BY Zenon, <1>2, <1>4, <2>2
  <2>5. seen'[p].service = "absent" => job'[name(p)] \notin Bundles
    BY Zenon, <1>4, <2>1, <2>2, <2>3
  <2> QED
    BY Zenon, <1>1, <1>2, <1>3, <1>4, <1>6, <2>2, <2>4, <2>5, RemovalGoes
<1> QED
  BY Zenon, <1>5, <1>6 DEF ServiceAfter, Goto

LEMMA PlistAfterKeeps ==
  ASSUME IInv, NEW p \in Procs, PlistAfter(p)
  PROVE  IInv'
<1>1. /\ pc[p] = "judge" /\ pc' = [pc EXCEPT ![p] = "persist"]
      /\ \E o \in inspectPlist(name(p)) : seen' = [seen EXCEPT ![p].complete = complete(p, o)]
      /\ UNCHANGED <<registry, lock, cmd, mem>> /\ UNCHANGED registry /\ UNCHANGED world
  BY Zenon DEF PlistAfter, At, Goto
<1>2. TypeInv /\ seen \in [Procs -> Seen]
      /\ (~seen[p].warned => plist[name(p)] \notin Bundles)
      /\ (~seen[p].warned /\ seen[p].service = "absent" => job[name(p)] \notin Bundles)
  BY <1>1, RemoverKnows DEF IInv, TypeInv
<1>3. pc[p] \in Removing /\ "persist" \in Removing
      /\ "persist" \notin {"bootout", "recheck", "after", "judge"}
  BY <1>1 DEF Removing
<1>4. PICK o : seen' = [seen EXCEPT ![p].complete = complete(p, o)]
  BY Zenon, <1>1
<1>5. complete(p, o) \in BOOLEAN
  BY Zenon DEF complete
<1>6. /\ seen' \in [Procs -> Seen] /\ \A q \in Procs \ {p} : seen'[q] = seen[q]
      /\ seen'[p].complete = complete(p, o)
  BY ONLY Zenon, <1>2, <1>4, <1>5, p \in Procs, SeenComplete
<1>7. WorldTypes' /\ FileInv' /\ plist' = plist /\ job' = job
  BY Zenon, <1>1, WorldSame
<1>8. seen'[p].complete => plist'[name(p)] \notin Bundles /\ job'[name(p)] \notin Bundles
  BY Zenon, <1>2, <1>6, <1>7 DEF complete
<1> QED
  BY Zenon, <1>1, <1>3, <1>6, <1>7, <1>8, RemovalGoes

\* A cleanup that is retired was the last trace of its runner.
LEMMA Persists ==
  ASSUME IInv, NEW p \in Procs, Persist(p)
  PROVE  \/ registry' = registry /\ Exit(p, "retained")
         \/ /\ seen[p].complete /\ Exit(p, "retired") /\ registry' \in Registry
            /\ registry'.runners = registry.runners
            /\ registry'.pending_cleanup = registry.pending_cleanup \ {toRemove(p)}
            /\ \A c : c \in recorded(registry') <=> c \in recorded(registry) /\ c # toRemove(p)
<1>1. pc[p] = "persist"
  BY Zenon DEF Persist, At
<1>2. pc[p] \in Removing
  BY <1>1 DEF Removing
<1>3. /\ mem[p] = registry /\ toRemove(p) \in registry.pending_cleanup
      /\ registry \in Registry /\ FileInv
  BY Zenon, <1>2, RemoverHas DEF IInv, TypeInv
<1>4. \/ /\ registry' = [registry EXCEPT !.pending_cleanup =
                           IF seen[p].complete THEN @ \ {toRemove(p)} ELSE @]
         /\ Exit(p, reported(p, TRUE))
      \/ registry' = registry /\ Exit(p, reported(p, FALSE))
  BY Zenon, <1>3 DEF Persist, Saved, SaveFails
<1>5. CASE registry' = registry /\ Exit(p, reported(p, FALSE))
  BY Zenon, <1>5 DEF reported
<1>6. CASE /\ registry' = [registry EXCEPT !.pending_cleanup =
                             IF seen[p].complete THEN @ \ {toRemove(p)} ELSE @]
           /\ Exit(p, reported(p, TRUE)) /\ ~seen[p].complete
  <2>1. registry' = [registry EXCEPT !.pending_cleanup = registry.pending_cleanup]
    BY <1>6
  <2>2. registry' = registry
    BY ONLY <1>3, <2>1 DEF Registry
  <2> QED
    BY Zenon, <1>6, <2>2 DEF reported
<1>7. CASE /\ registry' = [registry EXCEPT !.pending_cleanup =
                             IF seen[p].complete THEN @ \ {toRemove(p)} ELSE @]
           /\ Exit(p, reported(p, TRUE)) /\ seen[p].complete
  <2> DEFINE P == registry.pending_cleanup \ {toRemove(p)}
  <2>1. registry' = [registry EXCEPT !.pending_cleanup = P]
    BY <1>7
  <2>2. P \in SUBSET Bundles
    BY Zenon, <1>3, RegistryType
  <2>3. \A c : c \in P <=> c \in registry.pending_cleanup /\ c # toRemove(p)
    BY Zenon
  <2>4. \A x \in registry.runners : x.bundle # toRemove(p)
    <3>1. \A x \in registry.runners : x.bundle \notin registry.pending_cleanup
      BY Zenon, <1>3 DEF FileInv
    <3> QED
      BY ONLY Zenon, <1>3, <3>1
  <2> HIDE DEF P
  <2>5. /\ registry' \in Registry /\ registry'.runners = registry.runners
        /\ registry'.pending_cleanup = P
    BY ONLY <1>3, <2>1, <2>2 DEF Registry
  <2>6. ASSUME NEW c
        PROVE  c \in recorded(registry') <=> c \in recorded(registry) /\ c # toRemove(p)
    <3>1. c \in recorded(registry') <=>
            (\E x \in registry.runners : x.bundle = c) \/ c \in P
      BY Zenon, <2>5, RegistryType
    <3>2. c \in recorded(registry) <=>
            (\E x \in registry.runners : x.bundle = c) \/ c \in registry.pending_cleanup
      BY Zenon, <1>3, RegistryType
    <3> QED
      BY Zenon, <2>3, <2>4, <3>1, <3>2
  <2>7. Exit(p, "retired")
    BY Zenon, <1>7 DEF reported
  <2> QED
    BY Zenon, <1>7, <2>5, <2>6, <2>7 DEF P
<1> QED
  BY Zenon, <1>4, <1>5, <1>6, <1>7

LEMMA PersistKeeps ==
  ASSUME IInv, NEW p \in Procs, Persist(p)
  PROVE  IInv'
<1>1. pc[p] = "persist" /\ UNCHANGED world
  BY Zenon DEF Persist, At
<1>2. CASE registry' = registry /\ Exit(p, "retained")
  BY Zenon, <1>1, <1>2, Exits
<1>3. CASE /\ seen[p].complete /\ Exit(p, "retired") /\ registry' \in Registry
           /\ registry'.runners = registry.runners
           /\ registry'.pending_cleanup = registry.pending_cleanup \ {toRemove(p)}
           /\ \A c : c \in recorded(registry') <=> c \in recorded(registry) /\ c # toRemove(p)
  <2>1. pc[p] \in Removing
    BY <1>1 DEF Removing
  <2>2. p \in lock /\ Service[toRemove(p)] = name(p)
    BY Zenon, <2>1, RemoverHas
  <2>3. plist[name(p)] \notin Bundles /\ job[name(p)] \notin Bundles
    BY Zenon, <1>1, <1>3, RemoverKnows
  <2>4. TypeInv /\ FileInv
    BY Zenon DEF IInv
  <2>5. plist' = plist /\ torn' = torn /\ job' = job /\ tearing' = tearing
    BY <1>1 DEF world
  <2>6. WorldTypes'
    BY Zenon, <2>4, <2>5 DEF TypeInv, WorldTypes
  <2>7. ASSUME NEW s \in Services, plist[s] \in Bundles
        PROVE  plist[s] \in recorded(registry') /\ Service[plist[s]] = s
    <3>1. plist[s] \in recorded(registry) /\ Service[plist[s]] = s
      BY Zenon, <2>4, <2>7 DEF FileInv
    <3>2. plist[s] # toRemove(p)
      BY Zenon, <2>2, <2>3, <2>7, <3>1
    <3> QED
      BY Zenon, <1>3, <3>1, <3>2
  <2>8. ASSUME NEW s \in Services, job[s] \in Bundles
        PROVE  job[s] \in recorded(registry') /\ Service[job[s]] = s
    <3>1. job[s] \in recorded(registry) /\ Service[job[s]] = s
      BY Zenon, <2>4, <2>8 DEF FileInv
    <3>2. job[s] # toRemove(p)
      BY Zenon, <2>2, <2>3, <2>8, <3>1
    <3> QED
      BY Zenon, <1>3, <3>1, <3>2
  <2>9. \A b, c \in recorded(registry') : Service[b] = Service[c] => b = c
    BY Zenon, <1>3, <2>4 DEF FileInv
  <2>10. \A x \in registry'.runners : x.bundle \notin registry'.pending_cleanup
    BY Zenon, <1>3, <2>4 DEF FileInv
  <2>11. FileInv'
    BY Zenon, <2>5, <2>7, <2>8, <2>9, <2>10 DEF FileInv
  <2>12. Ends(p)
    BY Zenon, <1>3, <2>4, ExitForm
  <2> QED
    BY Zenon, <1>3, <2>2, <2>6, <2>11, <2>12, Ending
<1> QED
  BY Zenon, <1>2, <1>3, Persists

LEMMA CrashKeeps ==
  ASSUME IInv, NEW p \in Procs, Crash(p)
  PROVE  IInv'
BY Zenon, Exits DEF Crash

-----------------------------------------------------------------------------
(* The environment.                                                         *)

\* A name is freed, taken by somebody else, or loaded from the plist it has.
LEMMA NamesChange ==
  ASSUME IInv, NEW s \in Services, UNCHANGED registry, UNCHANGED lock, UNCHANGED proc,
         plist' = [plist EXCEPT ![s] = "absent"] \/ plist' = [plist EXCEPT ![s] = "foreign"]
           \/ plist' = plist,
         job' = [job EXCEPT ![s] = "absent"] \/ job' = [job EXCEPT ![s] = "foreign"]
           \/ job' = [job EXCEPT ![s] = plist[s]] \/ job' = job,
         torn' \subseteq torn, tearing' \subseteq tearing
  PROVE  IInv'
<1>1. /\ FileInv' /\ plist' \in [Services -> Holder] /\ job' \in [Services -> Holder]
      /\ \A t \in Services : /\ plist'[t] \in Bundles => plist[t] \in Bundles
                             /\ job'[t] \in Bundles => job[t] \in Bundles \/ plist[t] \in Bundles
  BY Zenon, FileFreed
<1>2. registry' = registry /\ lock' = lock /\ pc' = pc /\ cmd' = cmd /\ mem' = mem /\ seen' = seen
  BY DEF proc
<1>3. TypeInv /\ LockInv /\ ProcInv
  BY Zenon DEF IInv
<1>4. torn' \subseteq Services /\ tearing' \subseteq Services
  BY Zenon, <1>3 DEF TypeInv
<1>5. TypeInv'
  BY Zenon, <1>1, <1>2, <1>3, <1>4 DEF TypeInv
<1>6. LockInv'
  BY Zenon, <1>2, <1>3 DEF LockInv
<1>7. ASSUME NEW p \in Procs PROVE InstallOf(p)' /\ RemoveOf(p)'
  <2>1. InstallOf(p) /\ RemoveOf(p) /\ name(p)' = name(p)
    BY Zenon, <1>2, <1>3 DEF ProcInv, name
  <2>2. InstallOf(p)'
    BY Zenon, <1>2, <2>1 DEF InstallOf
  <2>3. pc[p] \in Removing => name(p) \in Services
    BY Zenon, RemoverHas
  <2>4. \/ pc[p] \in {"bootout", "recheck"} /\ seen[p].plist = "absent"
        \/ pc[p] \in {"after", "judge"} /\ ~seen[p].warned
        \/ pc[p] = "persist" /\ seen[p].complete
        => plist'[name(p)] \notin Bundles
    <3>1. pc[p] \in {"bootout", "recheck", "after", "judge", "persist"} => pc[p] \in Removing
      BY DEF Removing
    <3> QED
      BY Zenon, <1>1, <2>1, <2>3, <3>1 DEF RemoveOf
  <2>5. \/ pc[p] = "judge" /\ ~seen[p].warned /\ seen[p].service = "absent"
        \/ pc[p] = "persist" /\ seen[p].complete
        => job'[name(p)] \notin Bundles
    <3>1. pc[p] \in {"judge", "persist"} => pc[p] \in Removing
      BY DEF Removing
    <3> QED
      BY Zenon, <1>1, <2>1, <2>3, <3>1 DEF RemoveOf
  <2>6. RemoveOf(p)'
    BY Zenon, <1>2, <2>1, <2>4, <2>5 DEF RemoveOf
  <2> QED
    BY Zenon, <2>2, <2>6
<1> QED
  BY Zenon, <1>1, <1>5, <1>6, <1>7 DEF IInv, ProcInv

LEMMA EnvironmentKeeps ==
  ASSUME IInv, NEW s \in Services,
         \/ TeardownEnds(s) \/ Login(s) \/ PlistDeleted(s) \/ ForeignPlist(s) \/ ForeignJob(s)
  PROVE  IInv'
<1>1. UNCHANGED registry /\ UNCHANGED lock /\ UNCHANGED proc
  BY Zenon DEF TeardownEnds, Login, PlistDeleted, ForeignPlist, ForeignJob
<1>2. /\ \/ plist' = [plist EXCEPT ![s] = "absent"] \/ plist' = [plist EXCEPT ![s] = "foreign"]
         \/ plist' = plist
      /\ torn' \subseteq torn
  BY Zenon DEF TeardownEnds, Login, PlistDeleted, ForeignPlist, ForeignJob
<1>3. /\ \/ job' = [job EXCEPT ![s] = "absent"] \/ job' = [job EXCEPT ![s] = "foreign"]
         \/ job' = [job EXCEPT ![s] = plist[s]] \/ job' = job
      /\ tearing' \subseteq tearing
  BY Zenon DEF TeardownEnds, Login, PlistDeleted, ForeignPlist, ForeignJob, Load
<1> QED
  BY Zenon, <1>1, <1>2, <1>3, NamesChange

-----------------------------------------------------------------------------
(* The invariant.                                                           *)

LEMMA InitInv == Init => IInv
<1> SUFFICES ASSUME Init PROVE IInv
  OBVIOUS
<1>1. /\ registry = EmptyRegistry /\ lock = {} /\ torn = {} /\ tearing = {}
      /\ plist = [s \in Services |-> "absent"] /\ job = [s \in Services |-> "absent"]
      /\ pc = [p \in Procs |-> "idle"] /\ cmd = [p \in Procs |-> [op |-> "validate"]]
      /\ mem = [p \in Procs |-> EmptyRegistry] /\ seen = [p \in Procs |-> NothingSeen]
  BY Zenon DEF Init
<1>2. EmptyRegistry \in Registry /\ [op |-> "validate"] \in Command
  BY DEF EmptyRegistry, Registry, Command
<1>3. "absent" \in Holder /\ "absent" \notin Bundles
  BY Zenon, BundlesAssumption DEF Holder
<1>4. TypeInv
  BY <1>1, <1>2, <1>3, NothingSeenType DEF TypeInv
<1>5. \A p \in Procs : pc[p] = "idle" /\ ~seen[p].complete
  BY Zenon, <1>1, NothingSeenType
<1>6. "idle" \notin Held
  BY DEF Held, Signing, Installing, Removing
<1>7. LockInv
  BY Zenon, <1>1, <1>5, <1>6 DEF LockInv
<1>8. \A s \in Services : plist[s] \notin Bundles /\ job[s] \notin Bundles
  BY Zenon, <1>1, <1>3
<1>9. registry.runners = {} /\ registry.pending_cleanup = {}
  BY <1>1 DEF EmptyRegistry
<1>10. recorded(registry) = {}
  BY Zenon, <1>9 DEF recorded
<1>11. FileInv
  BY Zenon, <1>8, <1>9, <1>10 DEF FileInv
<1>12. ASSUME NEW p \in Procs PROVE InstallOf(p) /\ RemoveOf(p)
  <2>1. /\ pc[p] \notin {"install", "remove"} \cup Signing \cup Installing \cup Removing
        /\ pc[p] \notin {"bootstrap", "settle", "bootout", "recheck", "after", "judge", "persist"}
    BY <1>5 DEF Signing, Installing, Removing
  <2>2. InstallOf(p)
    BY Zenon, <2>1 DEF InstallOf
  <2>3. RemoveOf(p)
    BY Zenon, <1>5, <2>1 DEF RemoveOf
  <2> QED
    BY Zenon, <2>2, <2>3
<1> QED
  BY Zenon, <1>4, <1>7, <1>11, <1>12 DEF IInv, ProcInv

LEMMA StutterInv ==
  ASSUME IInv, UNCHANGED vars
  PROVE  IInv'
<1>1. /\ registry' = registry /\ lock' = lock /\ plist' = plist /\ torn' = torn /\ job' = job
      /\ tearing' = tearing /\ pc' = pc /\ cmd' = cmd /\ mem' = mem /\ seen' = seen
  BY DEF vars, world, proc
<1>2. TypeInv /\ LockInv /\ FileInv /\ ProcInv
  BY Zenon DEF IInv
<1>3. TypeInv'
  BY Zenon, <1>1, <1>2 DEF TypeInv
<1>4. LockInv'
  BY Zenon, <1>1, <1>2 DEF LockInv
<1>5. FileInv'
  BY Zenon, <1>1, <1>2, FileSame
<1>6. ASSUME NEW p \in Procs PROVE InstallOf(p)' /\ RemoveOf(p)'
  <2>1. InstallOf(p) /\ RemoveOf(p) /\ name(p)' = name(p)
    BY Zenon, <1>1, <1>2 DEF ProcInv, name
  <2>2. InstallOf(p)'
    BY Zenon, <1>1, <2>1 DEF InstallOf
  <2>3. RemoveOf(p)'
    BY Zenon, <1>1, <2>1 DEF RemoveOf
  <2> QED
    BY Zenon, <2>2, <2>3
<1> QED
  BY Zenon, <1>3, <1>4, <1>5, <1>6 DEF IInv, ProcInv

LEMMA StepInv == IInv /\ [Next]_vars => IInv'
<1> SUFFICES ASSUME IInv, [Next]_vars PROVE IInv'
  OBVIOUS
<1>1. ASSUME NEW p \in Procs, NEW c \in Command, Start(p, c) PROVE IInv'
  BY Zenon, <1>1, StartKeeps
<1>2. ASSUME NEW p \in Procs, Run(p) PROVE IInv'
  <2>1. CASE LockAndLoad(p) \/ Validate(p)
    BY Zenon, <2>1, LoadKeeps, ValidateKeeps
  <2>2. CASE CheckInstall(p) \/ Sign(p) \/ Pend(p)
    BY Zenon, <2>2, CheckKeeps, PendKeeps
  <2>3. CASE CreatePlist(p) \/ WritePlist(p) \/ Bootstrap(p) \/ Settle(p)
    BY Zenon, <2>3, WriteKeeps, SettleKeeps
  <2>4. CASE Mark(p) \/ LocationRefused(p) \/ ObserveService(p) \/ ObservePlist(p)
    BY Zenon, <2>4, MarkKeeps, LocationKeeps, ObserveServiceKeeps, ObservePlistKeeps
  <2>5. CASE Bootout(p) \/ BootoutOwned(p) \/ Recheck(p) \/ Unlink(p)
    BY Zenon, <2>5, BootoutKeeps, BootoutOwnedKeeps, RecheckKeeps, UnlinkKeeps
  <2>6. CASE ServiceAfter(p) \/ PlistAfter(p) \/ Persist(p)
    BY Zenon, <2>6, ServiceAfterKeeps, PlistAfterKeeps, PersistKeeps
  <2> QED
    BY ONLY Zenon, <1>2, <2>1, <2>2, <2>3, <2>4, <2>5, <2>6 DEF Run
<1>3. ASSUME NEW p \in Procs, Crash(p) PROVE IInv'
  BY Zenon, <1>3, CrashKeeps
<1>4. ASSUME NEW s \in Services,
             \/ TeardownEnds(s) \/ Login(s) \/ PlistDeleted(s) \/ ForeignPlist(s) \/ ForeignJob(s)
      PROVE  IInv'
  BY Zenon, <1>4, EnvironmentKeeps
<1>5. CASE UNCHANGED vars
  BY Zenon, <1>5, StutterInv
<1> QED
  BY Zenon, <1>1, <1>2, <1>3, <1>4, <1>5 DEF Next

\* Between any two steps of any commands, and whatever is killed: one command has the
\* lock, what it has in memory is the file, and what the registry, the plists and the
\* jobs say of each other agrees.
THEOREM Invariant == Spec => []IInv
BY InitInv, StepInv, PTL DEF Spec

\* What a runner has on the system is on the registry file at every point where
\* install_record or remove_record can be interrupted, and a name belongs to one runner.
THEOREM RegistryTrue == Spec => []RegistryIsTrue
<1>1. IInv => RegistryIsTrue
  <2> SUFFICES ASSUME IInv PROVE RegistryIsTrue
    OBVIOUS
  <2>1. FileInv /\ ProcInv
    BY Zenon DEF IInv
  <2>2. ASSUME NEW s \in Services
        PROVE  {plist[s], job[s]} \cap Bundles \subseteq recorded(registry)
    <3>1. /\ plist[s] \in Bundles => plist[s] \in recorded(registry)
          /\ job[s] \in Bundles => job[s] \in recorded(registry)
      BY Zenon, <2>1 DEF FileInv
    <3> QED
      BY ONLY Zenon, <3>1
  <2>3. \A p \in Procs : pc[p] \in {"sign", "pend"} => named(recorded(registry), name(p)) = {}
    BY Zenon, <2>1 DEF ProcInv, InstallOf, Signing
  <2>4. \A b, c \in recorded(registry) : Service[b] = Service[c] => b = c
    BY Zenon, <2>1 DEF FileInv
  <2> QED
    BY Zenon, <2>2, <2>3, <2>4 DEF RegistryIsTrue
<1> QED
  BY <1>1, Invariant, PTL

-----------------------------------------------------------------------------
(* The action properties.                                                   *)

Quiet == {"none", "failed", "validated", "refused", "not_found"}
Reports == Quiet \cup {"installed", "retired", "retained"}

\* A step of a command moves that command only, and reports an outcome only where it is
\* settled.
Moves(p) ==
  /\ pc' = pc \/ \E l : pc' = [pc EXCEPT ![p] = l]
  /\ \/ report' = report \/ \E e \in Quiet : report' = [report EXCEPT ![p] = e]
     \/ Settle(p) \/ Persist(p)

LEMMA ExitMoves ==
  ASSUME NEW p, NEW e \in Quiet, Exit(p, e)
  PROVE  Moves(p)
BY Zenon DEF Exit, Goto, Moves

LEMMA ProceedMoves ==
  ASSUME NEW p, NEW l, NEW r, ProceedWith(p, l, r)
  PROVE  Moves(p)
BY Zenon DEF ProceedWith, Goto, Moves

LEMMA CommandMoves ==
  ASSUME NEW p, (\E c \in Command : Start(p, c)) \/ Run(p) \/ Crash(p)
  PROVE  Moves(p)
<1>1. CASE \E c \in Command : Start(p, c)
  BY Zenon, <1>1 DEF Start, Goto, Moves, Quiet
<1>2. CASE Crash(p)
  BY Zenon, <1>2, ExitMoves DEF Crash, Quiet
<1>3. CASE LockAndLoad(p)
  <2>1. CASE lockFree
    BY Zenon, <1>3, <2>1 DEF LockAndLoad, Goto, Moves
  <2>2. CASE ~lockFree
    BY Zenon, <1>3, <2>2, ExitMoves DEF LockAndLoad, Quiet
  <2> QED
    BY Zenon, <2>1, <2>2
<1>4. CASE Validate(p)
  BY Zenon, <1>4, ExitMoves DEF Validate, Quiet
<1>5. CASE CheckInstall(p)
  BY Zenon, <1>5, ExitMoves, ProceedMoves DEF CheckInstall, Proceed, Quiet
<1>6. CASE Sign(p)
  BY Zenon, <1>6, ExitMoves, ProceedMoves DEF Sign, Proceed, Quiet
<1>7. CASE Pend(p)
  BY Zenon, <1>7, ExitMoves, ProceedMoves DEF Pend, Quiet
<1>8. CASE CreatePlist(p)
  BY Zenon, <1>8, ExitMoves, ProceedMoves DEF CreatePlist, Proceed, Quiet
<1>9. CASE WritePlist(p)
  BY Zenon, <1>9, ExitMoves, ProceedMoves DEF WritePlist, Proceed, Quiet
<1>10. CASE Bootstrap(p)
  BY Zenon, <1>10, ExitMoves, ProceedMoves DEF Bootstrap, Proceed, Quiet
<1>11. CASE Settle(p)
  BY Zenon, <1>11 DEF Settle, Exit, Goto, Moves
<1>12. CASE Mark(p)
  BY Zenon, <1>12, ExitMoves, ProceedMoves DEF Mark, Proceed, Quiet
<1>13. CASE LocationRefused(p) \/ ObserveService(p) \/ ObservePlist(p)
  BY Zenon, <1>13 DEF LocationRefused, ObserveService, ObservePlist, Goto, Moves
<1>14. CASE Bootout(p) \/ BootoutOwned(p)
  BY Zenon, <1>14 DEF Bootout, BootoutOwned, Goto, Moves
<1>15. CASE Recheck(p) \/ Unlink(p)
  BY Zenon, <1>15 DEF Recheck, Unlink, Goto, Moves
<1>16. CASE ServiceAfter(p) \/ PlistAfter(p)
  BY Zenon, <1>16 DEF ServiceAfter, PlistAfter, Goto, Moves
<1>17. CASE Persist(p)
  BY Zenon, <1>17 DEF Persist, Exit, Goto, Moves
<1>18. CASE Run(p)
  BY ONLY Zenon, <1>3, <1>4, <1>5, <1>6, <1>7, <1>8, <1>9, <1>10, <1>11, <1>12, <1>13, <1>14,
     <1>15, <1>16, <1>17, <1>18 DEF Run
<1> QED
  BY Zenon, <1>1, <1>2, <1>18

\* A step is one command's, or concerns one name.
LEMMA WhoseStep ==
  ASSUME [Next]_vars
  PROVE  \/ \E p \in Procs : (\E c \in Command : Start(p, c)) \/ Run(p) \/ Crash(p)
         \/ /\ UNCHANGED proc
            /\ \E s \in Services : \/ TeardownEnds(s) \/ Login(s) \/ PlistDeleted(s)
                                   \/ ForeignPlist(s) \/ ForeignJob(s)
         \/ UNCHANGED vars
<1>1. ASSUME NEW s \in Services,
             \/ TeardownEnds(s) \/ Login(s) \/ PlistDeleted(s) \/ ForeignPlist(s) \/ ForeignJob(s)
      PROVE  UNCHANGED proc
  BY Zenon, <1>1 DEF TeardownEnds, Login, PlistDeleted, ForeignPlist, ForeignJob
<1> QED
  BY Zenon, <1>1 DEF Next

\* A report is that of the command that moves.
ReportType == report \in [Procs -> Reports]

LEMMA MoveReports ==
  ASSUME ReportType, NEW p \in Procs, Moves(p)
  PROVE  /\ ReportType'
         /\ \A q \in Procs \ {p} : report'[q] = report[q]
         /\ ~Settle(p) /\ ~Persist(p) /\ report'[p] # report[p] => report'[p] \in Quiet
<1>1. Quiet \subseteq Reports /\ {"installed", "retired", "retained"} \subseteq Reports
  BY Zenon DEF Reports
<1>2. \/ report' = report
      \/ \E e \in Reports : /\ report' = [report EXCEPT ![p] = e]
                            /\ e \in Quiet \/ Settle(p) \/ Persist(p)
  <2>1. ASSUME Settle(p)
        PROVE  \E e \in {"installed", "failed"} : report' = [report EXCEPT ![p] = e]
    BY Zenon, <2>1 DEF Settle, Exit
  <2>2. ASSUME Persist(p)
        PROVE  \E e \in {"retired", "retained"} : report' = [report EXCEPT ![p] = e]
    BY Zenon, <2>2 DEF Persist, Exit, reported
  <2>3. "failed" \in Reports
    BY DEF Reports, Quiet
  <2> QED
    BY Zenon, <1>1, <2>1, <2>2, <2>3 DEF Moves
<1>3. CASE report' = report
  BY Zenon, <1>3 DEF ReportType
<1>4. ASSUME NEW e \in Reports, report' = [report EXCEPT ![p] = e],
             e \in Quiet \/ Settle(p) \/ Persist(p)
      PROVE  /\ ReportType' /\ \A q \in Procs \ {p} : report'[q] = report[q]
             /\ ~Settle(p) /\ ~Persist(p) => report'[p] \in Quiet
  <2>1. /\ report' \in [Procs -> Reports] /\ report'[p] = e
        /\ \A q \in Procs \ {p} : report'[q] = report[q]
    BY ONLY ReportType, p \in Procs, e \in Reports, report' = [report EXCEPT ![p] = e]
       DEF ReportType
  <2> QED
    BY Zenon, <1>4, <2>1 DEF ReportType
<1> QED
  BY Zenon, <1>2, <1>3, <1>4

LEMMA ReportsTyped == Spec => []ReportType
<1>1. Init => ReportType
  BY DEF Init, ReportType, Reports, Quiet
<1>2. ReportType /\ [Next]_vars => ReportType'
  <2> SUFFICES ASSUME ReportType, [Next]_vars PROVE ReportType'
    OBVIOUS
  <2>1. ASSUME report' = report PROVE ReportType'
    BY Zenon, <2>1 DEF ReportType
  <2>2. UNCHANGED proc \/ UNCHANGED vars => report' = report
    BY DEF proc, vars
  <2> QED
    BY Zenon, <2>1, <2>2, WhoseStep, CommandMoves, MoveReports
<1> QED
  BY <1>1, <1>2, PTL DEF Spec

LEMMA SettleReports ==
  ASSUME IInv, ReportType, NEW p \in Procs, Settle(p), report'[p] # report[p]
  PROVE  \/ report'[p] = "failed"
         \/ /\ report'[p] = "installed" /\ name(p) \notin torn
            /\ [bundle |-> cmd[p].bundle, state |-> "installed"] \in registry'.runners
<1>1. pc[p] = "settle"
  BY Zenon DEF Settle, At
<1>2. pc[p] \in Held /\ pc[p] \in Installing
  BY <1>1 DEF Held, Installing
<1>3. mem[p] = registry
  BY Zenon, <1>2, HolderHas
<1>4. /\ cmd[p].op = "install" /\ name(p) \notin torn /\ cmd[p] \in Command
      /\ registry \in Registry
  BY Zenon, <1>1, <1>2 DEF IInv, ProcInv, InstallOf, TypeInv
<1>5. cmd[p].bundle \in Bundles /\ "installed" \in State
  BY Zenon, <1>4, CommandType DEF State
<1>6. \/ /\ registry' = with(registry, cmd[p].bundle, "installed")
         /\ report' = [report EXCEPT ![p] = "installed"]
      \/ report' = [report EXCEPT ![p] = "failed"]
  BY Zenon, <1>3 DEF Settle, Saved, Exit
<1>7. [bundle |-> cmd[p].bundle, state |-> "installed"]
        \in with(registry, cmd[p].bundle, "installed").runners
  BY Zenon, <1>4, <1>5, WithForm
<1>8. /\ report' = [report EXCEPT ![p] = "installed"] => report'[p] = "installed"
      /\ report' = [report EXCEPT ![p] = "failed"] => report'[p] = "failed"
  BY ONLY ReportType, p \in Procs DEF ReportType
<1> QED
  BY Zenon, <1>4, <1>6, <1>7, <1>8

LEMMA PersistReports ==
  ASSUME IInv, ReportType, NEW p \in Procs, Persist(p)
  PROVE  \/ /\ report'[p] = "retained"
            /\ named(registry'.pending_cleanup, cmd[p].name) # {}
         \/ /\ report'[p] = "retired"
            /\ named(recorded(registry'), cmd[p].name) = {}
<1>1. pc[p] = "persist"
  BY Zenon DEF Persist, At
<1>2. pc[p] \in Removing
  BY <1>1 DEF Removing
<1>3. /\ toRemove(p) \in registry.pending_cleanup /\ Service[toRemove(p)] = cmd[p].name
      /\ toRemove(p) \in recorded(registry)
  BY Zenon, <1>2, RemoverHas
<1>4. \A e \in Reports : report' = [report EXCEPT ![p] = e] => report'[p] = e
  BY ONLY ReportType, p \in Procs DEF ReportType
<1>5. "retained" \in Reports /\ "retired" \in Reports
  BY Zenon DEF Reports
<1>6. CASE registry' = registry /\ Exit(p, "retained")
  <2>1. report'[p] = "retained"
    BY Zenon, <1>4, <1>5, <1>6 DEF Exit
  <2>2. toRemove(p) \in named(registry'.pending_cleanup, cmd[p].name)
    BY Zenon, <1>3, <1>6 DEF named
  <2> QED
    BY Zenon, <2>1, <2>2
<1>7. CASE /\ Exit(p, "retired")
           /\ \A c : c \in recorded(registry') <=> c \in recorded(registry) /\ c # toRemove(p)
  <2>1. report'[p] = "retired"
    BY Zenon, <1>4, <1>5, <1>7 DEF Exit
  <2>2. \A c \in recorded(registry) : Service[c] = Service[toRemove(p)] => c = toRemove(p)
    BY Zenon, <1>3 DEF IInv, FileInv
  <2>3. \A c \in recorded(registry') : Service[c] # cmd[p].name
    BY Zenon, <1>3, <1>7, <2>2
  <2>4. named(recorded(registry'), cmd[p].name) = {}
    BY Zenon, <2>3 DEF named
  <2> QED
    BY Zenon, <2>1, <2>4
<1> QED
  BY Zenon, <1>6, <1>7, Persists

\* What install_record and remove_record report when a command exits is what the file
\* says then, whatever could not be saved.
THEOREM ReportsTrue == Spec => ReportsAreTrue
<1> DEFINE True(p) == CASE report'[p] = "retired" ->
                             named(recorded(registry'), cmd[p].name) = {}
                        [] report'[p] = "retained" ->
                             named(registry'.pending_cleanup, cmd[p].name) # {}
                        [] report'[p] = "installed" ->
                             /\ [bundle |-> cmd[p].bundle, state |-> "installed"]
                                  \in registry'.runners
                             /\ name(p) \notin torn
                        [] OTHER -> TRUE
<1>1. ASSUME IInv, ReportType, [Next]_vars, NEW p \in Procs, report'[p] # report[p]
      PROVE  True(p)
  <2>1. /\ (\E c \in Command : Start(p, c)) \/ Run(p) \/ Crash(p)
    <3>1. UNCHANGED proc \/ UNCHANGED vars => report' = report
      BY DEF proc, vars
    <3>2. PICK q \in Procs : (\E c \in Command : Start(q, c)) \/ Run(q) \/ Crash(q)
      BY Zenon, <1>1, <3>1, WhoseStep
    <3>3. Moves(q)
      BY Zenon, <3>2, CommandMoves
    <3>4. q = p
      BY Zenon, <1>1, <3>3, MoveReports
    <3> QED
      BY Zenon, <3>2, <3>4
  <2>2. Moves(p)
    BY Zenon, <2>1, CommandMoves
  <2>3. CASE Settle(p)
    <3>1. CASE report'[p] = "failed"
      BY <3>1
    <3>2. CASE /\ report'[p] = "installed" /\ name(p) \notin torn
               /\ [bundle |-> cmd[p].bundle, state |-> "installed"] \in registry'.runners
      BY ONLY <3>2
    <3> QED
      BY Zenon, <1>1, <2>3, <3>1, <3>2, SettleReports
  <2>4. CASE Persist(p)
    <3>1. CASE report'[p] = "retained" /\ named(registry'.pending_cleanup, cmd[p].name) # {}
      BY ONLY <3>1
    <3>2. CASE report'[p] = "retired" /\ named(recorded(registry'), cmd[p].name) = {}
      BY ONLY <3>2
    <3> QED
      BY Zenon, <1>1, <2>4, <3>1, <3>2, PersistReports
  <2>5. CASE ~Settle(p) /\ ~Persist(p)
    <3>1. report'[p] \in Quiet
      BY Zenon, <1>1, <2>2, <2>5, MoveReports
    <3> QED
      BY ONLY <3>1 DEF Quiet
  <2> QED
    BY Zenon, <2>3, <2>4, <2>5
<1>2. IInv /\ ReportType /\ [Next]_vars =>
        [\A p \in Procs : report'[p] # report[p] => True(p)]_vars
  BY Zenon, <1>1
<1> QED
  BY <1>2, Invariant, ReportsTyped, PTL DEF Spec, ReportsAreTrue

-----------------------------------------------------------------------------
\* Who takes a plist away, and who has a job torn down.
LEMMA PlistMoves ==
  ASSUME NEW p, (\E c \in Command : Start(p, c)) \/ Run(p) \/ Crash(p)
  PROVE  /\ plist' = plist \/ CreatePlist(p) \/ Unlink(p)
         /\ tearing' = tearing \/ BootoutOwned(p)
<1>1. CASE \E c \in Command : Start(p, c)
  BY <1>1 DEF Start, world
<1>2. CASE Crash(p)
  BY <1>2 DEF Crash, world
<1>3. CASE LockAndLoad(p) \/ Validate(p) \/ CheckInstall(p) \/ Sign(p) \/ Pend(p)
  <2>1. UNCHANGED world
    BY Zenon, <1>3 DEF LockAndLoad, Validate, CheckInstall, Sign, Pend
  <2> QED
    BY <2>1 DEF world
<1>4. CASE CreatePlist(p) \/ WritePlist(p) \/ Bootstrap(p)
  BY Zenon, <1>4 DEF CreatePlist, WritePlist, Bootstrap
<1>5. CASE Settle(p) \/ Mark(p) \/ LocationRefused(p) \/ ObserveService(p) \/ ObservePlist(p)
  <2>1. UNCHANGED world
    BY Zenon, <1>5 DEF Settle, Mark, LocationRefused, ObserveService, ObservePlist
  <2> QED
    BY <2>1 DEF world
<1>6. CASE Bootout(p) \/ Recheck(p) \/ ServiceAfter(p) \/ PlistAfter(p) \/ Persist(p)
  <2>1. UNCHANGED world
    BY Zenon, <1>6 DEF Bootout, Recheck, ServiceAfter, PlistAfter, Persist
  <2> QED
    BY <2>1 DEF world
<1>7. CASE BootoutOwned(p) \/ Unlink(p)
  BY Zenon, <1>7 DEF BootoutOwned, Unlink
<1>8. CASE Run(p)
  BY ONLY Zenon, <1>3, <1>4, <1>5, <1>6, <1>7, <1>8 DEF Run
<1> QED
  BY Zenon, <1>1, <1>2, <1>8

\* Only Recheck goes on to unlink.
LEMMA UnlinkAhead ==
  ASSUME IInv, NEW p \in Procs, (\E c \in Command : Start(p, c)) \/ Run(p) \/ Crash(p),
         pc[p] = "recheck", pc'[p] = "unlink"
  PROVE  Recheck(p)
<1>1. ~\E c \in Command : Start(p, c)
  BY Zenon DEF Start, At
<1>2. ASSUME Crash(p) PROVE FALSE
  <2>1. pc'[p] = "idle"
    BY Zenon, <1>2, ExitForm DEF Crash, Ends, IInv
  <2> QED
    BY <2>1
<1>3. ~(LockAndLoad(p) \/ Validate(p) \/ CheckInstall(p) \/ Sign(p) \/ Pend(p))
  BY Zenon DEF LockAndLoad, Validate, CheckInstall, Sign, Pend, At
<1>4. ~(CreatePlist(p) \/ WritePlist(p) \/ Bootstrap(p) \/ Settle(p))
  BY Zenon DEF CreatePlist, WritePlist, Bootstrap, Settle, At
<1>5. ~(Mark(p) \/ LocationRefused(p) \/ ObserveService(p) \/ ObservePlist(p))
  BY Zenon DEF Mark, LocationRefused, ObserveService, ObservePlist, At
<1>6. ~(Bootout(p) \/ BootoutOwned(p) \/ Unlink(p))
  BY Zenon DEF Bootout, BootoutOwned, Unlink, At
<1>7. ~(ServiceAfter(p) \/ PlistAfter(p) \/ Persist(p))
  BY Zenon DEF ServiceAfter, PlistAfter, Persist, At
<1>8. ASSUME Run(p) PROVE Recheck(p)
  BY ONLY Zenon, <1>3, <1>4, <1>5, <1>6, <1>7, <1>8 DEF Run
<1> QED
  BY Zenon, <1>1, <1>2, <1>8

LEMMA UnlinksOwn ==
  ASSUME IInv, [Next]_vars, NEW p \in Procs, pc[p] = "recheck", pc'[p] = "unlink"
  PROVE  plist[name(p)] = toRemove(p)
<1>1. ~(UNCHANGED proc \/ UNCHANGED vars)
  <2>1. UNCHANGED proc \/ UNCHANGED vars => pc' = pc
    BY DEF proc, vars
  <2> QED
    BY <2>1
<1>2. PICK q \in Procs : (\E c \in Command : Start(q, c)) \/ Run(q) \/ Crash(q)
  BY Zenon, <1>1, WhoseStep
<1>3. pc' = pc \/ \E l : pc' = [pc EXCEPT ![q] = l]
  BY Zenon, <1>2, CommandMoves DEF Moves
<1>4. pc \in [Procs -> Held \cup {"idle", "lock"}]
  BY Zenon DEF IInv, TypeInv
<1>5. q = p
  BY ONLY <1>3, <1>4, p \in Procs, q \in Procs, pc[p] = "recheck", pc'[p] = "unlink"
<1>6. Recheck(p)
  BY Zenon, <1>2, <1>5, UnlinkAhead
<1>7. pc' # [pc EXCEPT ![p] = "after"]
  BY ONLY <1>4, p \in Procs, pc'[p] = "unlink"
<1> QED
  BY Zenon, <1>6, <1>7, Rechecks

LEMMA PlistSpared ==
  ASSUME IInv, [Next]_vars, NEW s \in Services, plist[s] = "foreign", plist'[s] # "foreign"
  PROVE  \E p \in Procs : pc[p] = "unlink" /\ cmd[p].name = s
<1>1. plist \in [Services -> Holder] /\ "foreign" \notin Bundles
  BY Zenon, BundlesAssumption DEF IInv, TypeInv
<1>2. plist' # plist
  OBVIOUS
<1>3. ASSUME NEW p \in Procs, (\E c \in Command : Start(p, c)) \/ Run(p) \/ Crash(p)
      PROVE  pc[p] = "unlink" /\ cmd[p].name = s
  <2>1. ASSUME CreatePlist(p) PROVE FALSE
    <3>1. plist[name(p)] = "absent" /\ plist' = [plist EXCEPT ![name(p)] = cmd[p].bundle]
      BY Zenon, <1>2, <2>1 DEF CreatePlist
    <3>2. plist'[s] = plist[s]
      BY ONLY <1>1, <3>1, s \in Services, plist[s] = "foreign"
    <3> QED
      BY <3>2
  <2>2. Unlink(p)
    BY Zenon, <1>2, <1>3, <2>1, PlistMoves
  <2>3. pc[p] = "unlink" /\ plist' = [plist EXCEPT ![name(p)] = "absent"]
    BY Zenon, <1>2, <2>2 DEF Unlink, At
  <2>4. name(p) = s
    BY ONLY <1>1, <2>3, s \in Services, plist[s] = "foreign", plist'[s] # "foreign"
  <2>5. pc[p] \in Removing
    BY <2>3 DEF Removing
  <2> QED
    BY Zenon, <2>3, <2>4, <2>5, RemoverHas
<1>4. ASSUME NEW t \in Services,
             \/ TeardownEnds(t) \/ Login(t) \/ PlistDeleted(t) \/ ForeignPlist(t) \/ ForeignJob(t)
      PROVE  FALSE
  <2>1. \/ plist[t] \in Bundles /\ plist' = [plist EXCEPT ![t] = "absent"]
        \/ plist[t] = "absent" /\ plist' = [plist EXCEPT ![t] = "foreign"]
    BY Zenon, <1>2, <1>4 DEF TeardownEnds, Login, PlistDeleted, ForeignPlist, ForeignJob
  <2>2. plist'[s] = plist[s]
    BY ONLY <1>1, <2>1, s \in Services, plist[s] = "foreign"
  <2> QED
    BY <2>2
<1>5. ~UNCHANGED vars
  BY <1>2 DEF vars, world
<1> QED
  BY Zenon, <1>3, <1>4, <1>5, WhoseStep

LEMMA JobSpared ==
  ASSUME IInv, [Next]_vars, NEW s \in Services, s \in tearing' \ tearing
  PROVE  \E p \in Procs : /\ pc[p] = "bootout" /\ cmd[p].name = s
                          /\ seen[p].service \in Bundles
<1>1. ~(tearing' \subseteq tearing)
  BY Zenon
<1>2. ASSUME NEW p \in Procs, (\E c \in Command : Start(p, c)) \/ Run(p) \/ Crash(p)
      PROVE  pc[p] = "bootout" /\ cmd[p].name = s /\ seen[p].service \in Bundles
  <2>1. BootoutOwned(p)
    BY Zenon, <1>1, <1>2, PlistMoves
  <2>2. /\ pc[p] = "bootout" /\ seen[p].service = toRemove(p)
        /\ tearing' = tearing \cup {name(p)}
    BY Zenon, <1>1, <2>1 DEF BootoutOwned, At, owned
  <2>3. pc[p] \in Removing
    BY <2>2 DEF Removing
  <2>4. name(p) = s
    BY Zenon, <2>2
  <2> QED
    BY Zenon, <2>2, <2>3, <2>4, RemoverHas
<1>3. ASSUME NEW t \in Services,
             \/ TeardownEnds(t) \/ Login(t) \/ PlistDeleted(t) \/ ForeignPlist(t) \/ ForeignJob(t)
      PROVE  FALSE
  BY Zenon, <1>1, <1>3 DEF TeardownEnds, Login, PlistDeleted, ForeignPlist, ForeignJob
<1>4. ~UNCHANGED vars
  <2>1. UNCHANGED vars => tearing' = tearing
    BY DEF vars, world
  <2> QED
    BY Zenon, <1>1, <2>1
<1> QED
  BY Zenon, <1>2, <1>3, <1>4, WhoseStep

\* However names change hands while remove_record runs, it unlinks only what it has just
\* seen to be the runner's, and boots out only a name it has seen held by the runner.
THEOREM OthersSpared == Spec => ForeignSpared
<1> DEFINE Spared ==
      /\ \A p \in Procs : pc[p] = "recheck" /\ pc'[p] = "unlink" =>
           plist[name(p)] = toRemove(p)
      /\ \A s \in Services :
           /\ plist[s] = "foreign" /\ plist'[s] # "foreign" =>
                \E p \in Procs : pc[p] = "unlink" /\ cmd[p].name = s
           /\ job[s] = "foreign" /\ s \in tearing' \ tearing =>
                \E p \in Procs : /\ pc[p] = "bootout" /\ cmd[p].name = s
                                 /\ seen[p].service \in Bundles
<1>1. ASSUME IInv, [Next]_vars PROVE Spared
  <2>1. \A p \in Procs : pc[p] = "recheck" /\ pc'[p] = "unlink" =>
          plist[name(p)] = toRemove(p)
    BY Zenon, <1>1, UnlinksOwn
  <2>2. ASSUME NEW s \in Services
        PROVE  plist[s] = "foreign" /\ plist'[s] # "foreign" =>
                 \E p \in Procs : pc[p] = "unlink" /\ cmd[p].name = s
    BY Zenon, <1>1, PlistSpared
  <2>3. ASSUME NEW s \in Services, s \in tearing' \ tearing
        PROVE  \E p \in Procs : /\ pc[p] = "bootout" /\ cmd[p].name = s
                                /\ seen[p].service \in Bundles
    BY Zenon, <1>1, <2>3, JobSpared
  <2> QED
    BY Zenon, <2>1, <2>2, <2>3
<1>2. IInv /\ [Next]_vars => [Spared]_vars
  BY Zenon, <1>1
<1> QED
  BY <1>2, Invariant, PTL DEF Spec, ForeignSpared
=============================================================================
