---------------------- MODULE ActorSchedulerInvariant -----------------------
(***************************************************************************)
(* The inductive invariant of ActorScheduler is one, part by part and step *)
(* by step, and what follows from it whatever the actors do: for any       *)
(* number of actors, any schedule, any dependencies and any faults.        *)
(***************************************************************************)
EXTENDS ActorSchedulerSteps

-----------------------------------------------------------------------------
(* Launch.                                                                  *)

LEMMA LaunchByWorker ==
  ASSUME TypeInv, LaunchInv, NEW a \in Actors, WorkerMoves(a)
  PROVE  LaunchInv'
<1>1. /\ wpc[a] # "absent" /\ wpc'[a] # "absent" /\ wpc[a] # "exited" /\ wpc'[a] # "setup"
      /\ shm'.setup = shm.setup \/ shm'.setup = shm.setup \cup {a}
      /\ \A b \in Actors : b # a => wpc'[b] = wpc[b]
      /\ UNCHANGED <<hpc, cursor, stopping, pending, records, stopped>>
  BY DEF WorkerMoves, WorkerFrame, SetsUp, Arrives, Begins, Completes, Leaves, hostVars
<1> QED
  BY <1>1 DEF LaunchInv, Loop, usable

\* A host's step that launches nobody.
LEMMA LaunchKept ==
  ASSUME TypeInv, LaunchInv, UNCHANGED <<wpc, shm.setup>>,
         \A a \in Actors : /\ records'[a].quiescence = records[a].quiescence
                           /\ usable(a)' => usable(a) \/ a \in shm.setup,
         \A a \in stopped' : a \in stopped \/ wpc[a] # "absent",
         pending' \subseteq pending,
         Loop' = "launch" => Loop = "launch" /\ cursor' \in {cursor, cursor + 1},
         hpc' = "stopping" => stopping'.actor \in stopped' /\ stopping'.then \in Resumed
  PROVE  LaunchInv'
<1>1. cursor \in Nat
  BY DEF TypeInv
<1>2. ASSUME NEW a \in Actors
      PROVE  /\ wpc'[a] = "absent" <=> records'[a].quiescence = "never_launched"
             /\ records'[a].quiescence = "reaped" => wpc'[a] = "exited"
             /\ wpc'[a] \in {"absent", "setup"} => a \notin shm'.setup /\ ~usable(a)'
             /\ a \in pending' \cup stopped' => wpc'[a] # "absent"
  <2>1. /\ wpc[a] = "absent" <=> records[a].quiescence = "never_launched"
        /\ records[a].quiescence = "reaped" => wpc[a] = "exited"
        /\ wpc[a] \in {"absent", "setup"} => a \notin shm.setup /\ ~usable(a)
        /\ a \in pending \cup stopped => wpc[a] # "absent"
    BY Zenon DEF LaunchInv
  <2> QED
    BY Zenon, <2>1
<1>3. Loop' = "launch" => \A a \in Actors : a >= cursor' => wpc'[a] = "absent"
  <2>1. \A a \in Actors : a \in Nat
    BY ActorCountAssumption DEF Actors
  <2> QED
    BY <1>1, <2>1 DEF LaunchInv
<1> QED
  BY Zenon, <1>2, <1>3 DEF LaunchInv

LEMMA LaunchByHost ==
  ASSUME TypeInv, TypeInv', LaunchInv, WalkInv, HostMoves
  PROVE  LaunchInv'
<1>0. cursor \in Nat /\ cursor + 1 \in {cursor, cursor + 1} /\ wpc \in [Actors -> WorkerPc]
  BY DEF TypeInv
<1>1. CASE PrepStep
  <2>1. Loop' = "launch" => Loop = "launch" /\ cursor' \in {cursor, cursor + 1}
    BY <1>1 DEF PrepStep, Loop, LaunchPc
  <2>2. hpc' # "stopping"
    BY <1>1 DEF PrepStep, LaunchPc
  <2> QED
    BY Zenon, <1>1, <2>1, <2>2, LaunchKept DEF PrepStep, HostFrame
<1>2. CASE LaunchStep
  <2>1. /\ UNCHANGED shm.setup /\ hpc = "launch" /\ cursor \in Actors /\ Loop = "launch"
        /\ wpc'[cursor] \in {"setup", "leaving"} /\ cursor' = cursor + 1
        /\ records'[cursor].quiescence = "unresolved"
        /\ records'[cursor].setupStatus = "applied" => usable(cursor)
        /\ \A a \in Actors : a # cursor => wpc'[a] = wpc[a] /\ records'[a] = records[a]
        /\ pending' \subseteq pending \cup {cursor} /\ stopped' \subseteq stopped \cup {cursor}
    BY Zenon, <1>2 DEF LaunchStep, HostFrame, Loop
  <2>2. wpc[cursor] = "absent"
    BY <1>0, <2>1 DEF LaunchInv
  <2>3. ASSUME NEW a \in Actors
        PROVE  /\ wpc'[a] = "absent" <=> records'[a].quiescence = "never_launched"
               /\ records'[a].quiescence = "reaped" => wpc'[a] = "exited"
               /\ wpc'[a] \in {"absent", "setup"} => a \notin shm'.setup /\ ~usable(a)'
               /\ a \in pending' \cup stopped' => wpc'[a] # "absent"
    BY <2>1, <2>2 DEF LaunchInv, usable
  <2>4. \A a \in Actors : a >= cursor' => wpc'[a] = "absent"
    <3>1. \A a \in Actors : a \in Nat
      BY ActorCountAssumption DEF Actors
    <3> QED
      BY <1>0, <2>1, <3>1 DEF LaunchInv
  <2>5. hpc' = "stopping" => stopping'.actor \in stopped' /\ stopping'.then \in Resumed
    BY <1>2 DEF LaunchStep, Resumed
  <2> QED
    BY Zenon, <2>3, <2>4, <2>5 DEF LaunchInv
<1>3. ASSUME NEW a \in Actors, NEW then \in Resumed, StopStep(a, then) PROVE LaunchInv'
  <2>1. Loop' = then /\ then # "launch"
    BY <1>3 DEF StopStep, Loop
  <2>2. \A b \in Actors : /\ records'[b].quiescence = records[b].quiescence
                          /\ usable(b)' => usable(b)
    BY Zenon, <1>3 DEF StopStep, usable
  <2>3. /\ stopped' = stopped \cup {a} /\ wpc[a] # "absent" /\ UNCHANGED <<wpc, shm.setup>>
        /\ pending' \subseteq pending
        /\ stopping'.actor \in stopped' /\ stopping'.then \in Resumed
    BY <1>3 DEF StopStep, HostFrame
  <2> QED
    BY Zenon, <2>1, <2>2, <2>3, LaunchKept
<1>4. ASSUME UNCHANGED <<wpc, shm.setup, records, stopped, pending>>,
             hpc' \in VisitPc \cup {"entry", "gate", "finish", "returned"}
      PROVE  LaunchInv'
  <2>1. Loop' # "launch" /\ hpc' # "stopping"
    BY <1>4 DEF Loop, VisitPc, UnreleasedPc, ReleasedPc
  <2> QED
    BY Zenon, <1>4, <2>1, LaunchKept DEF usable
<1>5. CASE \/ SkipStep \/ GateEntered \/ (\E c \in [Actors -> Child], g \in Gate : ActivateStep(c, g))
           \/ VisitOver \/ FinishStep
  BY Zenon, <1>4, <1>5 DEF SkipStep, GateEntered, ActivateStep, VisitOver, FinishStep, HostFrame,
    VisitPc, UnreleasedPc
<1>6. CASE VisitStep
  <2>1. UNCHANGED shm.setup
    BY <1>6 DEF VisitStep, VisitMoves, VisitEnds, CollectionCloses, VisitReleased, TypeInv, Shm
  <2>2. hpc' \in VisitPc
    BY <1>6 DEF VisitStep, VisitMoves, VisitEnds, CollectionCloses, VisitReleased, VisitPc,
      UnreleasedPc, ReleasedPc
  <2> QED
    BY Zenon, <1>4, <1>6, <2>1, <2>2 DEF VisitStep, workerVars
<1>7. ASSUME NEW a \in Actors, NEW reaped \in BOOLEAN, StopOver(a, reaped) PROVE LaunchInv'
  <2>1. /\ UNCHANGED <<shm, stopped, pending>> /\ hpc = "stopping" /\ a = stopping.actor
        /\ hpc' = stopping.then /\ Loop = stopping.then
        /\ wpc'[a] = IF reaped THEN "exited" ELSE wpc[a]
        /\ records'[a].quiescence = IF reaped THEN "reaped" ELSE "unresolved"
        /\ records'[a].setupStatus = records[a].setupStatus
        /\ \A b \in Actors : b # a => wpc'[b] = wpc[b] /\ records'[b] = records[b]
    BY Zenon, <1>7 DEF StopOver, Loop
  <2>2. wpc[a] # "absent" /\ stopping.then \in Resumed /\ stopping.then # "stopping"
    BY <2>1 DEF LaunchInv, Resumed
  <2>3. ASSUME NEW b \in Actors
        PROVE  /\ wpc'[b] = "absent" <=> records'[b].quiescence = "never_launched"
               /\ records'[b].quiescence = "reaped" => wpc'[b] = "exited"
               /\ wpc'[b] \in {"absent", "setup"} => b \notin shm'.setup /\ ~usable(b)'
               /\ b \in pending' \cup stopped' => wpc'[b] # "absent"
    BY <2>1, <2>2 DEF LaunchInv, usable
  <2>4. Loop' = "launch" => \A b \in Actors : b >= cursor' => wpc'[b] = "absent"
    <3>1. Loop' = stopping.then
      BY Zenon, <2>1, <2>2 DEF Loop
    <3>2. stopping.then = "launch" => cursor' = cursor
      BY <1>7 DEF StopOver
    <3>3. ASSUME stopping.then = "launch", NEW b \in Actors, b >= cursor PROVE wpc'[b] = "absent"
      <4>1. wpc[b] = "absent"
        BY Zenon, <2>1, <3>3 DEF LaunchInv
      <4> QED
        BY Zenon, <2>1, <2>2, <4>1
    <3> QED
      BY Zenon, <3>1, <3>2, <3>3
  <2> QED
    BY Zenon, <2>1, <2>2, <2>3, <2>4 DEF LaunchInv
<1> QED
  BY Zenon, <1>1, <1>2, <1>3, <1>5, <1>6, <1>7 DEF HostMoves

-----------------------------------------------------------------------------
(* The walk.                                                                *)

LEMMA WalkByWorker ==
  ASSUME TypeInv, WalkInv, NEW a \in Actors, WorkerMoves(a)
  PROVE  WalkInv'
<1>1. /\ \A b \in Actors : wpc[b] = "exited" => wpc'[b] = "exited"
      /\ shm.completed \subseteq shm'.completed
      /\ UNCHANGED <<hpc, cursor, stopping, cancelled, records, stopped>>
  BY DEF WorkerMoves, WorkerFrame, SetsUp, Arrives, Begins, Completes, Leaves, hostVars
<1>2. stopped \subseteq Actors
  BY Zenon DEF TypeInv
<1>3. AtVisit' = AtVisit /\ Loop' = Loop /\ \A b : available(b)' = available(b)
  BY Zenon, <1>1 DEF AtVisit, Loop, available, usable
<1> QED
  BY Zenon, <1>1, <1>2, <1>3 DEF WalkInv

\* Between visits: what a step out of a visit, or past one, leaves to be shown.
LEMMA WalkAdvanced ==
  ASSUME TypeInv, WalkInv, UNCHANGED <<wpc, records, stopped, shm.completed>>, hpc # "stopping",
         AtVisit \/ hpc \in {"entry", "gate"},
         cursor \in Phases, hpc' = "entry", cursor' = cursor + 1,
         cancelled' = None => /\ cancelled = None
                              /\ cursor \in shm.completed \/ ~available(Schedule[cursor])
  PROVE  WalkInv'
<1>1. AtVisit' = FALSE /\ Loop' = "entry"
  BY DEF AtVisit, Loop, VisitPc, UnreleasedPc, ReleasedPc
<1>2. \A b : available(b)' = available(b)
  BY Zenon DEF available, usable
<1>3. ASSUME cancelled' = None, NEW a \in stopped' PROVE wpc'[a] = "exited"
  <2>1. Loop \notin {"finish", "returned"}
    BY DEF AtVisit, Loop, VisitPc, UnreleasedPc, ReleasedPc
  <2> QED
    BY Zenon, <1>3, <2>1 DEF WalkInv
<1>4. ASSUME cancelled' = None, NEW q \in Phases, q < cursor', available(Schedule[q])'
      PROVE  q \in shm'.completed
  <2>1. q < cursor \/ q = cursor
    BY <1>4, ScheduleType
  <2>2. available(Schedule[q])
    BY Zenon, <1>2, <1>4
  <2> QED
    BY Zenon, <1>4, <2>1, <2>2 DEF WalkInv
<1>5. hpc' \notin VisitPc \cup {"gate", "stopping"}
  BY DEF VisitPc, UnreleasedPc, ReleasedPc
<1> QED
  BY Zenon, <1>1, <1>3, <1>4, <1>5 DEF WalkInv

LEMMA WalkByHost ==
  ASSUME TypeInv, TypeInv', LaunchInv, WalkInv, CollectionInv, HostMoves
  PROVE  WalkInv'
<1>0. cursor \in Nat /\ stopped \subseteq Actors
  BY DEF TypeInv
<1>1. CASE PrepStep
  <2>1. /\ AtVisit' = FALSE /\ hpc' \notin VisitPc \cup {"gate", "stopping"}
        /\ Loop \notin {"finish", "returned"} /\ hpc # "stopping"
    BY <1>1 DEF PrepStep, AtVisit, Loop, LaunchPc, VisitPc, UnreleasedPc, ReleasedPc
  <2>2. cancelled' = None => \A a \in stopped' : wpc'[a] = "exited"
    BY Zenon, <1>1, <2>1 DEF PrepStep, WalkInv
  <2>3. hpc' = "entry" => \A q \in Phases : ~(q < cursor')
    BY <1>1, ScheduleType DEF PrepStep
  <2> QED
    BY Zenon, <2>1, <2>2, <2>3 DEF WalkInv
<1>2. CASE LaunchStep
  <2>1. /\ AtVisit' = FALSE /\ hpc' \notin VisitPc \cup {"entry", "gate"}
        /\ Loop \notin {"finish", "returned"} /\ hpc # "stopping"
        /\ ~(hpc' = "stopping" /\ stopping'.then = "entry")
    BY <1>2 DEF LaunchStep, AtVisit, Loop, LaunchPc, VisitPc, UnreleasedPc, ReleasedPc
  <2>2. /\ hpc = "launch" /\ cursor \in Actors /\ cancelled = None
        /\ \A a \in Actors : a # cursor => wpc'[a] = wpc[a]
        /\ \/ hpc' = "launch" /\ stopped' = stopped
           \/ hpc' = "stopping" /\ stopping'.actor = cursor /\ stopped' = stopped \cup {cursor}
    BY <1>2 DEF LaunchStep
  <2>3. cursor \notin stopped
    BY <1>0, <2>1, <2>2 DEF LaunchInv, Loop
  <2>4. \A a \in stopped' : wpc'[a] = "exited" \/ (hpc' = "stopping" /\ stopping'.actor = a)
    <3>1. \A a \in stopped : wpc[a] = "exited" /\ a # cursor /\ a \in Actors
      BY Zenon, <1>0, <2>1, <2>2, <2>3 DEF WalkInv
    <3>2. \A a \in stopped : wpc'[a] = "exited"
      BY Zenon, <2>2, <3>1
    <3> QED
      BY Zenon, <2>2, <3>2
  <2> QED
    BY Zenon, <2>1, <2>4 DEF WalkInv
<1>3. ASSUME NEW a \in Actors, NEW then \in Resumed, StopStep(a, then) PROVE WalkInv'
  <2>1. /\ hpc' = "stopping" /\ stopping'.actor = a /\ stopping'.then = then
        /\ UNCHANGED <<wpc, cursor, cancelled, shm.completed>> /\ stopped' = stopped \cup {a}
        /\ Loop' = then
    BY <1>3 DEF StopStep, HostFrame, Loop
  <2>2. hpc \in {"setup", "setup_timeout", "ending", "finish"} /\ then = IF hpc = "ending" THEN "entry" ELSE hpc
    BY <1>3 DEF StopStep
  <2>3. hpc' \notin VisitPc \cup {"entry", "gate"} /\ Loop = hpc
    BY <2>1, <2>2 DEF VisitPc, UnreleasedPc, ReleasedPc, Loop
  <2>4. cancelled' = None /\ Loop' \notin {"finish", "returned"} =>
          \A b \in stopped' : wpc'[b] = "exited" \/ (hpc' = "stopping" /\ stopping'.actor = b)
    BY Zenon, <2>1, <2>2, <2>3 DEF WalkInv
  <2>5. CASE then = "entry"
    <3>1. /\ a = Schedule[cursor] /\ hpc = "ending" /\ AtVisit /\ records' = records
      BY <1>3, <2>2, <2>5 DEF StopStep, AtVisit, VisitPc
    <3>2. cursor' \in Phases
      BY Zenon, <2>1, <3>1 DEF WalkInv
    <3>3. \A b : available(b)' => available(b)
      BY <2>1, <3>1 DEF available, usable
    <3>4. cancelled' = None =>
            \A q \in Phases : q < cursor' /\ available(Schedule[q])' => q \in shm'.completed
      <4>1. ASSUME cancelled' = None, NEW q \in Phases, q < cursor', available(Schedule[q])'
            PROVE  q \in shm'.completed
        <5>1. available(Schedule[q])
          BY Zenon, <3>3, <4>1
        <5> QED
          BY Zenon, <2>1, <3>1, <4>1, <5>1 DEF WalkInv
      <4> QED
        BY Zenon, <4>1
    <3> QED
      BY Zenon, <2>1, <2>3, <2>4, <3>1, <3>2, <3>4 DEF WalkInv
  <2>6. CASE then # "entry"
    <3>1. AtVisit' = FALSE
      BY Zenon, <2>1, <2>3, <2>6 DEF AtVisit
    <3> QED
      BY Zenon, <2>1, <2>3, <2>4, <2>6, <3>1 DEF WalkInv
  <2> QED
    BY Zenon, <2>5, <2>6
<1>4. CASE SkipStep
  <2>1. AtVisit \/ hpc \in {"entry", "gate"}
    BY Zenon, <1>4 DEF SkipStep
  <2>2. hpc # "stopping"
    BY <1>4 DEF SkipStep
  <2> QED
    BY Zenon, <1>4, <2>1, <2>2, WalkAdvanced DEF SkipStep, HostFrame
<1>5. CASE VisitOver
  <2>1. /\ hpc # "stopping" /\ AtVisit /\ visits[cursor].endReason = "completed"
    BY <1>5 DEF VisitOver, AtVisit, VisitPc
  <2>2. cursor \in Phases
    BY Zenon, <2>1 DEF WalkInv
  <2>3. cursor \in shm.completed
    BY Zenon, <2>1, <2>2 DEF CollectionInv
  <2> QED
    BY Zenon, <1>5, <2>1, <2>2, <2>3, WalkAdvanced DEF VisitOver, HostFrame
<1>6. ASSUME UNCHANGED <<wpc, cursor, records, stopped, cancelled, shm.completed>>,
             cursor \in Phases, cancelled = None, available(Schedule[cursor]),
             AtVisit \/ hpc \in {"entry", "gate"}, hpc # "stopping",
             hpc' \in VisitPc \cup {"gate"}, hpc' = "gate" => Dependency[cursor] \in Phases
      PROVE  WalkInv'
  <2>1. hpc' # "stopping" /\ Loop \notin {"finish", "returned"}
    BY <1>6 DEF Loop, AtVisit, VisitPc, UnreleasedPc, ReleasedPc
  <2>2. \A b : available(b)' = available(b)
    BY Zenon, <1>6 DEF available, usable
  <2>3. available(Schedule[cursor])'
    BY Zenon, <1>6 DEF available, usable
  <2> QED
    BY Zenon, <1>6, <2>1, <2>2, <2>3 DEF WalkInv
<1>7. CASE GateEntered \/ \E c \in [Actors -> Child], g \in Gate : ActivateStep(c, g)
  <2>1. "arrival" \in VisitPc /\ "arrival" # "gate"
    BY DEF VisitPc, UnreleasedPc
  <2>2. hpc # "stopping"
    BY Zenon, <1>7 DEF GateEntered, ActivateStep
  <2> QED
    BY Zenon, <1>6, <1>7, <2>1, <2>2 DEF GateEntered, ActivateStep, HostFrame
<1>8. CASE VisitStep
  <2>1. UNCHANGED shm.completed
    BY <1>8 DEF VisitStep, VisitMoves, VisitEnds, CollectionCloses, VisitReleased, TypeInv, Shm
  <2>2. hpc' \in VisitPc /\ hpc' # "gate" /\ hpc \in VisitPc /\ hpc # "stopping" /\ AtVisit
    BY <1>8 DEF VisitStep, VisitMoves, VisitEnds, CollectionCloses, VisitReleased, VisitPc,
      UnreleasedPc, ReleasedPc, AtVisit
  <2>3. cursor \in Phases /\ cancelled = None /\ available(Schedule[cursor])
    BY Zenon, <2>2 DEF WalkInv
  <2> QED
    BY Zenon, <1>6, <1>8, <2>1, <2>2, <2>3 DEF VisitStep, workerVars
<1>9. CASE FinishStep
  <2>1. AtVisit' = FALSE /\ Loop' \in {"finish", "returned"}
        /\ hpc' \notin VisitPc \cup {"entry", "gate", "stopping"}
    BY <1>9 DEF FinishStep, AtVisit, Loop, VisitPc, UnreleasedPc, ReleasedPc
  <2> QED
    BY Zenon, <2>1 DEF WalkInv
<1>10. ASSUME NEW a \in Actors, NEW reaped \in BOOLEAN, StopOver(a, reaped) PROVE WalkInv'
  <2>1. /\ UNCHANGED <<shm, stopped>> /\ hpc = "stopping" /\ a = stopping.actor
        /\ hpc' = stopping.then /\ Loop = stopping.then
        /\ wpc'[a] = IF reaped THEN "exited" ELSE wpc[a]
        /\ \A b \in Actors : b # a => wpc'[b] = wpc[b]
        /\ cancelled' = None => cancelled = None /\ (reaped \/ stopping.then = "finish")
    BY Zenon, <1>10 DEF StopOver, Loop
  <2>2. stopping.then \in Resumed /\ a \in stopped
    BY Zenon, <2>1 DEF LaunchInv
  <2>3. /\ hpc' \notin VisitPc \cup {"gate", "stopping"} /\ Loop' = stopping.then /\ AtVisit' = FALSE
    BY <2>1, <2>2 DEF VisitPc, UnreleasedPc, ReleasedPc, Resumed, Loop, AtVisit
  <2>4. cancelled' = None /\ Loop' \notin {"finish", "returned"} =>
          \A b \in stopped' : wpc'[b] = "exited"
    BY Zenon, <1>0, <2>1, <2>3 DEF WalkInv
  <2>5. \A b \in Actors : available(b)' = available(b)
    BY <1>10 DEF StopOver, available, usable
  <2>6. ASSUME cancelled' = None, hpc' = "entry", NEW q \in Phases, q < cursor', available(Schedule[q])'
        PROVE  q \in shm'.completed
    <3>1. AtVisit /\ cancelled = None
      BY Zenon, <2>1, <2>6 DEF AtVisit
    <3>2. cursor \in Phases /\ a = Schedule[cursor]
      BY Zenon, <2>1, <2>6, <3>1 DEF WalkInv
    <3>3. cursor' = cursor + 1
      BY Zenon, <1>10, <2>1, <2>6 DEF StopOver
    <3>4. q < cursor \/ q = cursor
      BY <2>6, <3>2, <3>3, ScheduleType
    <3>5. Schedule[q] \in Actors
      BY ScheduleType
    <3>6. available(Schedule[q])
      BY Zenon, <2>5, <2>6, <3>5
    <3>7. q # cursor
      BY Zenon, <2>2, <3>2, <3>6 DEF available
    <3> QED
      BY Zenon, <2>1, <3>1, <3>4, <3>6, <3>7 DEF WalkInv
  <2> QED
    BY Zenon, <2>3, <2>4, <2>6 DEF WalkInv
<1> QED
  BY Zenon, <1>1, <1>2, <1>3, <1>4, <1>5, <1>7, <1>8, <1>9, <1>10 DEF HostMoves

-----------------------------------------------------------------------------
(* What an actor does next, and what engages it.                            *)

\* What every step of the host leaves alone: a worker is launched, or killed.
HostKeeps ==
  /\ UNCHANGED <<next, early, shm.setup, shm.acknowledged, shm.completed>>
  /\ \A a \in Actors : \/ wpc'[a] = wpc[a]
                       \/ wpc[a] = "absent" /\ wpc'[a] \in {"setup", "leaving"}
                       \/ wpc'[a] = "exited"

LEMMA HostKeepsWorkers ==
  ASSUME TypeInv, LaunchInv, HostMoves
  PROVE  HostKeeps
<1>1. CASE LaunchStep
  <2>1. wpc[cursor] = "absent"
    BY <1>1 DEF LaunchStep, LaunchInv, Loop, TypeInv
  <2> QED
    BY Zenon, <1>1, <2>1 DEF LaunchStep, HostFrame, HostKeeps
<1>2. CASE VisitStep
  <2>1. UNCHANGED <<shm.setup, shm.acknowledged, shm.completed>>
    BY <1>2 DEF VisitStep, VisitMoves, VisitEnds, CollectionCloses, VisitReleased, TypeInv, Shm
  <2> QED
    BY Zenon, <1>2, <2>1 DEF VisitStep, HostKeeps, workerVars
<1>3. ASSUME NEW a \in Actors, NEW reaped \in BOOLEAN, StopOver(a, reaped) PROVE HostKeeps
  BY <1>3 DEF StopOver, HostFrame, HostKeeps
<1>4. ASSUME HostFrame, wpc' = wpc PROVE HostKeeps
  BY Zenon, <1>4 DEF HostFrame, HostKeeps
<1> QED
  BY Zenon, <1>1, <1>2, <1>3, <1>4 DEF HostMoves, PrepStep, StopStep, SkipStep, GateEntered,
    ActivateStep, VisitOver, FinishStep

LEMMA NextByWorker ==
  ASSUME TypeInv, NextInv, NEW a \in Actors, WorkerMoves(a)
  PROVE  NextInv'
<1>1. CASE ~Completes(a)
  <2>1. /\ UNCHANGED <<next, shm.completed>>
        /\ wpc'[a] = "parked" => next[a] # 0
        /\ wpc'[a] \in {"gate", "running"} => wpc[a] \in {"parked", "gate", "running"}
        /\ \A b \in Actors : b # a => wpc'[b] = wpc[b]
    BY <1>1 DEF WorkerMoves, WorkerFrame, SetsUp, Arrives, Begins, Leaves
  <2> QED
    BY <2>1 DEF NextInv
<1>2. CASE Completes(a)
  <2> DEFINE p == next[a]
             n == next'[a]
  <2>1. /\ wpc[a] = "running" /\ n = nextVisit(a, p)
        /\ wpc'[a] = IF n = 0 THEN "leaving" ELSE "parked"
        /\ shm'.completed = shm.completed \cup {p}
        /\ \A b \in Actors : b # a => wpc'[b] = wpc[b] /\ next'[b] = next[b]
    BY Zenon, <1>2 DEF Completes, WorkerMoves, WorkerFrame
  <2>2. p \in visitsOf(a) /\ p \in Phases /\ p \in Ordinals /\ Schedule[p] = a
    BY <2>1, ScheduleType DEF NextInv, visitsOf
  <2>3. /\ n \in visitsOf(a) \cup {0} /\ n \in Ordinals
        /\ n # 0 => n > p
        /\ \A q \in visitsOf(a) : q > p => n # 0 /\ n <= q
    <3> HIDE DEF p, n
    <3>1. /\ nextVisit(a, p) \in visitsOf(a) \cup {0} /\ nextVisit(a, p) \in Ordinals
          /\ nextVisit(a, p) # 0 => nextVisit(a, p) > p
          /\ \A q \in visitsOf(a) : q > p => nextVisit(a, p) # 0 /\ nextVisit(a, p) <= q
      BY Zenon, <2>2, NextVisitIsFirst
    <3> QED
      BY Zenon, <2>1, <3>1
  <2>4. \A q \in visitsOf(a) : q \in shm.completed <=> q < p
    BY Zenon, <2>1, <2>2 DEF NextInv
  <2> HIDE DEF p, n
  <2>5. \A q \in visitsOf(a) : q \in shm'.completed <=> n = 0 \/ q < n
    <3>1. ASSUME NEW q \in visitsOf(a) PROVE q \in shm'.completed <=> n = 0 \/ q < n
      <4>1. q \in Nat /\ p \in Nat /\ n \in Nat
        BY <2>2, <2>3, ScheduleType DEF visitsOf
      <4> QED
        BY <2>1, <2>3, <2>4, <4>1
    <3> QED
      BY Zenon, <3>1
  <2>6. ASSUME NEW b \in Actors, b # a, NEW q \in visitsOf(b)
        PROVE  q \in shm'.completed <=> q \in shm.completed
    BY Zenon, <2>1, <2>2, <2>6 DEF visitsOf
  <2>7. ASSUME NEW b \in Actors
        PROVE  /\ next'[b] \in visitsOf(b) \cup {0}
               /\ wpc'[b] \in {"parked", "gate", "running"} => next'[b] # 0
               /\ \A q \in visitsOf(b) : q \in shm'.completed <=> next'[b] = 0 \/ q < next'[b]
    <3>1. CASE b = a
      BY <2>1, <2>3, <2>5, <3>1 DEF n
    <3>2. CASE b # a
      <4>1. /\ next[b] \in visitsOf(b) \cup {0}
            /\ wpc[b] \in {"parked", "gate", "running"} => next[b] # 0
            /\ \A q \in visitsOf(b) : q \in shm.completed <=> next[b] = 0 \/ q < next[b]
        BY Zenon DEF NextInv
      <4>2. wpc'[b] = wpc[b] /\ next'[b] = next[b]
        BY Zenon, <2>1, <3>2
      <4>3. \A q \in visitsOf(b) : q \in shm'.completed <=> q \in shm.completed
        BY Zenon, <2>6, <3>2
      <4> QED
        BY Zenon, <4>1, <4>2, <4>3
    <3> QED
      BY Zenon, <3>1, <3>2
  <2> QED
    BY Zenon, <2>7 DEF NextInv
<1> QED
  BY Zenon, <1>1, <1>2

LEMMA NextByHost ==
  ASSUME NextInv, HostKeeps
  PROVE  NextInv'
BY DEF NextInv, HostKeeps

\* A worker's step engages nobody.
LEMMA EngagedByWorker ==
  ASSUME TypeInv, NextInv, ActivationInv, NEW a \in Actors, WorkerMoves(a)
  PROVE  \A b \in Actors : Engaged(b)' => Engaged(b) /\ next'[b] = next[b]
<1>1. ASSUME NEW b \in Actors, b # a, Engaged(b)' PROVE Engaged(b) /\ next'[b] = next[b]
  BY Zenon, <1>1 DEF WorkerMoves, WorkerFrame, Engaged
<1>2. ASSUME Engaged(a)' PROVE Engaged(a) /\ next'[a] = next[a]
  <2>1. /\ wpc'[a] \in {"parked", "gate", "running"} /\ UNCHANGED shm.activation
        /\ wpc'[a] = "parked" => shm.activation[a] >= next'[a]
    BY Zenon, <1>2 DEF Engaged, WorkerMoves, WorkerFrame
  <2>t. next[a] \in Nat /\ shm.activation[a] \in Nat
    BY ScheduleType DEF TypeInv, Shm
  <2>2. CASE SetsUp(a)
    <3>1. shm.activation[a] = 0 /\ wpc'[a] = "parked" /\ next[a] # 0 /\ next'[a] = next[a]
      BY <2>1, <2>2 DEF SetsUp, ActivationInv
    <3> QED
      BY <2>1, <2>t, <3>1
  <2>3. CASE Arrives(a) \/ Begins(a)
    BY <2>3, <2>t DEF Arrives, Begins, Engaged
  <2>4. CASE Completes(a)
    <3>1. /\ wpc'[a] = "parked" /\ next'[a] # 0 /\ next'[a] = nextVisit(a, next[a])
          /\ wpc[a] = "running"
      BY <2>1, <2>4 DEF Completes
    <3>2. next[a] = shm.activation[a] /\ next[a] \in Ordinals
      BY <3>1 DEF ActivationInv, Engaged, TypeInv
    <3>3. next'[a] > next[a] /\ next'[a] \in Nat
      BY <3>1, <3>2, NextVisitIsFirst, ScheduleType
    <3> QED
      BY <2>1, <2>t, <3>1, <3>2, <3>3
  <2>5. CASE Leaves(a)
    BY <2>1, <2>5 DEF Leaves
  <2> QED
    BY Zenon, <2>2, <2>3, <2>4, <2>5 DEF WorkerMoves
<1> QED
  BY Zenon, <1>1, <1>2

LEMMA ActivationByWorker ==
  ASSUME TypeInv, NextInv, ActivationInv, NEW a \in Actors, WorkerMoves(a)
  PROVE  ActivationInv'
<1>1. \A b \in Actors : Engaged(b)' => Engaged(b) /\ next'[b] = next[b]
  BY Zenon, EngagedByWorker
<1>2. /\ UNCHANGED <<hpc, cursor, stopping, cancelled, shm.activation>>
      /\ \A b \in Actors : wpc'[b] \in {"absent", "setup"} => wpc[b] \in {"absent", "setup"}
  BY DEF WorkerMoves, WorkerFrame, SetsUp, Arrives, Begins, Completes, Leaves, hostVars
<1>3. AtVisit' = AtVisit /\ Loop' = Loop
  BY Zenon, <1>2 DEF AtVisit, Loop
<1> QED
  BY Zenon, <1>1, <1>2, <1>3 DEF ActivationInv

\* An engaged actor is the one the walk is at.
LEMMA EngagedIsAtCursor ==
  ASSUME TypeInv, WalkInv, NextInv, ActivationInv, AtVisit, NEW b \in Actors, Engaged(b)
  PROVE  b = Schedule[cursor] /\ next[b] = cursor /\ cursor \notin shm.completed
<1>1. cursor \in Phases /\ Schedule[cursor] \in Actors
  <2>1. cursor \in Phases
    BY Zenon DEF WalkInv
  <2> QED
    BY <2>1, ScheduleType
<1>2. /\ next[b] = shm.activation[b] /\ shm.activation[Schedule[cursor]] = cursor
      /\ shm.activation[Schedule[cursor]] <= shm.activation[b] /\ shm.activation[b] <= cursor
      /\ shm.activation[b] \in visitsOf(b) \cup {0}
  BY Zenon, <1>1 DEF ActivationInv
<1>3. shm.activation[b] = cursor
  BY <1>1, <1>2, ScheduleType DEF TypeInv, Shm
<1>4. cursor \in visitsOf(b)
  BY <1>1, <1>2, <1>3, ScheduleType
<1>5. cursor \notin shm.completed
  BY <1>1, <1>2, <1>3, <1>4, ScheduleType DEF NextInv
<1> QED
  BY Zenon, <1>2, <1>3, <1>4, <1>5 DEF visitsOf

\* A step of the host that activates nobody engages nobody.
LEMMA EngagedByHost ==
  ASSUME HostKeeps, UNCHANGED shm.activation, NEW b \in Actors, Engaged(b)'
  PROVE  Engaged(b) /\ wpc'[b] = wpc[b]
BY DEF HostKeeps, Engaged

\* What a step that activates nobody leaves to be shown.
LEMMA ActivationKept ==
  ASSUME TypeInv, ActivationInv, HostKeeps, UNCHANGED shm.activation,
         \A a \in Actors : wpc[a] = "absent" => shm.activation[a] = 0,
         Loop' \in LaunchPc => Loop \in LaunchPc,
         hpc' \in {"entry", "gate"} => \A a \in Actors : shm.activation[a] < cursor',
         AtVisit' => AtVisit /\ cursor' = cursor,
         hpc' \in {"entry", "gate"} /\ cancelled' = None =>
           \A a \in Actors : ~(Engaged(a) /\ wpc'[a] = wpc[a])
  PROVE  ActivationInv'
<1>1. next' = next
  BY Zenon DEF HostKeeps
<1>2. \A b \in Actors : Engaged(b)' => Engaged(b) /\ wpc'[b] = wpc[b]
  BY Zenon, EngagedByHost
<1>3. \A a \in Actors : wpc'[a] \in {"absent", "setup"} => wpc[a] \in {"absent", "setup"}
  BY DEF HostKeeps
<1>4. /\ \A a \in Actors : shm'.activation[a] \in visitsOf(a) \cup {0}
      /\ \A a \in Actors : wpc'[a] \in {"absent", "setup"} => shm'.activation[a] = 0
      /\ Loop' \in LaunchPc => \A a \in Actors : shm'.activation[a] = 0
  BY Zenon, <1>3 DEF ActivationInv
<1>5. AtVisit' => /\ shm'.activation[Schedule[cursor']] = cursor'
                  /\ \A a \in Actors : shm'.activation[a] <= cursor'
  BY Zenon DEF ActivationInv
<1>6. \A a \in Actors : Engaged(a)' =>
        /\ next'[a] = shm'.activation[a]
        /\ \A b \in Actors : shm'.activation[b] <= shm'.activation[a]
  BY Zenon, <1>1, <1>2 DEF ActivationInv
<1> QED
  BY Zenon, <1>2, <1>4, <1>5, <1>6 DEF ActivationInv

LEMMA ActivationByHost ==
  ASSUME TypeInv, LaunchInv, WalkInv, NextInv, ActivationInv, CollectionInv, HostMoves
  PROVE  ActivationInv'
<1>0. /\ HostKeeps /\ cursor \in Nat
      /\ \A a \in Actors : shm.activation[a] \in Nat /\ next[a] \in Nat
  BY HostKeepsWorkers, ScheduleType DEF TypeInv, Shm
<1>a. \A a \in Actors : wpc[a] = "absent" => shm.activation[a] = 0
  BY Zenon DEF ActivationInv
<1>1. CASE PrepStep
  <2>1. /\ AtVisit' = FALSE /\ hpc' # "gate" /\ Loop \in LaunchPc
        /\ (hpc' = "entry" => cursor' = 1) /\ UNCHANGED shm.activation
    BY <1>1 DEF PrepStep, AtVisit, Loop, LaunchPc, VisitPc, UnreleasedPc, ReleasedPc
  <2>2. \A a \in Actors : shm.activation[a] = 0
    BY Zenon, <2>1 DEF ActivationInv
  <2>3. \A a \in Actors : ~Engaged(a)
    <3>1. ASSUME NEW a \in Actors, Engaged(a) PROVE FALSE
      <4>1. next[a] = 0
        BY Zenon, <2>2, <3>1 DEF ActivationInv
      <4>2. wpc[a] \in {"parked", "gate", "running"}
        BY Zenon, <3>1 DEF Engaged
      <4> QED
        BY Zenon, <4>1, <4>2 DEF NextInv
    <3> QED
      BY Zenon, <3>1
  <2>4. hpc' \in {"entry", "gate"} => \A a \in Actors : shm.activation[a] < cursor'
    BY <2>1, <2>2
  <2> QED
    BY Zenon, <1>0, <1>a, <2>1, <2>3, <2>4, ActivationKept
<1>2. CASE LaunchStep
  <2>1. /\ AtVisit' = FALSE /\ hpc' \notin {"entry", "gate"} /\ Loop \in LaunchPc
        /\ UNCHANGED shm.activation
    BY <1>2 DEF LaunchStep, AtVisit, Loop, LaunchPc, VisitPc, UnreleasedPc, ReleasedPc
  <2> QED
    BY Zenon, <1>0, <1>a, <2>1, ActivationKept
<1>3. ASSUME NEW a \in Actors, NEW then \in Resumed, StopStep(a, then) PROVE ActivationInv'
  <2>1. /\ hpc' \notin {"entry", "gate"} /\ Loop' = then /\ UNCHANGED <<cursor, shm.activation>>
        /\ then \in LaunchPc => Loop \in LaunchPc
        /\ AtVisit' => AtVisit
    BY <1>3 DEF StopStep, AtVisit, Loop, LaunchPc, VisitPc, UnreleasedPc, ReleasedPc
  <2> QED
    BY Zenon, <1>0, <1>a, <2>1, ActivationKept
<1>4. CASE SkipStep
  <2>1. /\ AtVisit' = FALSE /\ Loop' \notin LaunchPc /\ UNCHANGED shm.activation
        /\ hpc \in {"entry", "gate"} /\ cursor' = cursor + 1
        /\ cancelled' = None => cancelled = None
    BY <1>4 DEF SkipStep, AtVisit, Loop, LaunchPc, VisitPc, UnreleasedPc, ReleasedPc
  <2>2. \A a \in Actors : shm.activation[a] < cursor'
    BY <1>0, <2>1 DEF ActivationInv
  <2>3. cancelled' = None => \A a \in Actors : ~Engaged(a)
    BY Zenon, <2>1 DEF ActivationInv
  <2> QED
    BY Zenon, <1>0, <1>a, <2>1, <2>2, <2>3, ActivationKept
<1>5. CASE GateEntered
  <2>1. /\ AtVisit' = FALSE /\ Loop' \notin LaunchPc /\ UNCHANGED <<shm.activation, cursor, cancelled>>
        /\ hpc \in {"entry", "gate"}
    BY <1>5 DEF GateEntered, AtVisit, Loop, LaunchPc, VisitPc, UnreleasedPc, ReleasedPc
  <2>2. /\ \A a \in Actors : shm.activation[a] < cursor'
        /\ cancelled' = None => \A a \in Actors : ~Engaged(a)
    BY Zenon, <2>1 DEF ActivationInv
  <2> QED
    BY Zenon, <1>0, <1>a, <2>1, <2>2, ActivationKept
<1>6. ASSUME NEW c \in [Actors -> Child], NEW g \in Gate, ActivateStep(c, g) PROVE ActivationInv'
  <2> DEFINE a == Schedule[cursor]
  <2>1. /\ UNCHANGED <<wpc, next, cursor>> /\ hpc \in {"entry", "gate"} /\ hpc' = "arrival"
        /\ cursor \in Phases /\ cancelled = None /\ available(a)
        /\ shm'.activation = [shm.activation EXCEPT ![a] = cursor]
    BY Zenon, <1>6 DEF ActivateStep, HostFrame
  <2>2. a \in Actors /\ a = Schedule[cursor] /\ cursor \in visitsOf(a)
    BY <2>1, ScheduleType DEF visitsOf
  <2> HIDE DEF a
  <2>3. /\ \A b \in Actors : shm.activation[b] < cursor /\ ~Engaged(b)
        /\ \A b \in Actors : shm.activation[b] \in visitsOf(b) \cup {0}
    BY Zenon, <2>1 DEF ActivationInv
  <2>4. /\ shm'.activation[a] = cursor
        /\ \A b \in Actors : b # a => shm'.activation[b] = shm.activation[b]
    BY <2>1, <2>2 DEF TypeInv, Shm
  <2>5. wpc[a] \notin {"absent", "setup"}
    BY Zenon, <2>1, <2>2 DEF LaunchInv, available
  <2>6. ASSUME NEW b \in Actors, Engaged(b)'
        PROVE  b = a /\ next[a] = cursor
    <3>1. wpc[b] = "parked" /\ b = a
      BY Zenon, <2>1, <2>3, <2>4, <2>6 DEF Engaged
    <3>2. cursor >= next[a] /\ next[a] \in visitsOf(a) /\ next[a] # 0
      BY Zenon, <2>1, <2>2, <2>4, <2>6, <3>1 DEF Engaged, NextInv
    <3>3. next[a] \in Phases /\ Schedule[next[a]] = a
      BY Zenon, <3>2 DEF visitsOf
    <3>4. ~(next[a] < cursor)
      <4>1. ASSUME next[a] < cursor PROVE FALSE
        <5>1. next[a] \in shm.completed
          BY Zenon, <2>1, <3>3, <4>1 DEF WalkInv
        <5>2. next[a] < next[a]
          BY Zenon, <2>2, <3>2, <5>1 DEF NextInv
        <5> QED
          BY <1>0, <2>2, <5>2
      <4> QED
        BY Zenon, <4>1
    <3> QED
      BY <1>0, <2>2, <3>1, <3>2, <3>4
  <2>7. \A b \in Actors : shm'.activation[b] <= cursor
    BY <1>0, <2>3, <2>4
  <2>8. AtVisit' /\ Loop' \notin LaunchPc /\ hpc' \notin {"entry", "gate"}
    BY <2>1 DEF AtVisit, Loop, LaunchPc, VisitPc, UnreleasedPc
  <2>9. \A b \in Actors : wpc'[b] \in {"absent", "setup"} => shm'.activation[b] = 0
    BY Zenon, <2>1, <2>4, <2>5 DEF ActivationInv
  <2>10. \A b \in Actors : shm'.activation[b] \in visitsOf(b) \cup {0}
    BY Zenon, <2>2, <2>3, <2>4
  <2>11. \A b \in Actors : Engaged(b)' =>
           /\ next'[b] = shm'.activation[b]
           /\ \A d \in Actors : shm'.activation[d] <= shm'.activation[b]
    BY Zenon, <2>1, <2>4, <2>6, <2>7
  <2>12. shm'.activation[Schedule[cursor']] = cursor' /\ \A b \in Actors : shm'.activation[b] <= cursor'
    BY Zenon, <2>1, <2>2, <2>4, <2>7
  <2> QED
    BY Zenon, <2>8, <2>9, <2>10, <2>11, <2>12 DEF ActivationInv
<1>7. CASE VisitStep
  <2>1. UNCHANGED shm.activation
    BY <1>7 DEF VisitStep, VisitMoves, VisitEnds, CollectionCloses, VisitReleased, TypeInv, Shm
  <2>2. hpc' \in VisitPc /\ hpc \in VisitPc /\ cursor' = cursor
    BY <1>7 DEF VisitStep, VisitMoves, VisitEnds, CollectionCloses, VisitReleased, VisitPc,
      UnreleasedPc, ReleasedPc
  <2>3. AtVisit /\ Loop' \notin LaunchPc /\ hpc' \notin {"entry", "gate"}
    BY <2>2 DEF AtVisit, Loop, LaunchPc, VisitPc, UnreleasedPc, ReleasedPc
  <2> QED
    BY Zenon, <1>0, <1>a, <2>1, <2>2, <2>3, ActivationKept
<1>8. CASE VisitOver
  <2>1. /\ AtVisit' = FALSE /\ Loop' \notin LaunchPc /\ UNCHANGED <<shm.activation, cancelled>>
        /\ AtVisit /\ cursor' = cursor + 1 /\ visits[cursor].endReason = "completed"
    BY <1>8 DEF VisitOver, AtVisit, Loop, LaunchPc, VisitPc, UnreleasedPc, ReleasedPc
  <2>2. \A a \in Actors : shm.activation[a] < cursor'
    BY <1>0, <2>1 DEF ActivationInv
  <2>3. cursor \in shm.completed
    BY Zenon, <2>1 DEF WalkInv, CollectionInv
  <2>4. \A a \in Actors : ~Engaged(a)
    BY Zenon, <2>1, <2>3, EngagedIsAtCursor
  <2> QED
    BY Zenon, <1>0, <1>a, <2>1, <2>2, <2>4, ActivationKept
<1>9. CASE FinishStep
  <2>1. /\ AtVisit' = FALSE /\ Loop' \notin LaunchPc /\ UNCHANGED shm.activation
        /\ hpc' \notin {"entry", "gate"}
    BY <1>9 DEF FinishStep, AtVisit, Loop, LaunchPc, VisitPc, UnreleasedPc, ReleasedPc
  <2> QED
    BY Zenon, <1>0, <1>a, <2>1, ActivationKept
<1>10. ASSUME NEW a \in Actors, NEW reaped \in BOOLEAN, StopOver(a, reaped) PROVE ActivationInv'
  <2>1. /\ UNCHANGED shm.activation /\ hpc = "stopping" /\ a = stopping.actor
        /\ hpc' = stopping.then /\ Loop = stopping.then
        /\ wpc'[a] = IF reaped THEN "exited" ELSE wpc[a]
        /\ cancelled' = None => cancelled = None /\ (reaped \/ stopping.then = "finish")
        /\ cursor' = IF stopping.then \in {"entry", "finish"} THEN cursor + 1 ELSE cursor
    BY Zenon, <1>10 DEF StopOver, Loop
  <2>2. stopping.then \in Resumed
    BY Zenon, <2>1 DEF LaunchInv
  <2>3. /\ AtVisit' = FALSE /\ hpc' # "gate" /\ Loop' = Loop
        /\ hpc' = "entry" => AtVisit /\ cursor' = cursor + 1 /\ stopping.then = "entry"
    BY <2>1, <2>2 DEF VisitPc, UnreleasedPc, ReleasedPc, Resumed, Loop, AtVisit
  <2>4. hpc' \in {"entry", "gate"} => \A b \in Actors : shm.activation[b] < cursor'
    <3>1. AtVisit => \A b \in Actors : shm.activation[b] <= cursor
      BY Zenon DEF ActivationInv
    <3> QED
      BY <1>0, <2>3, <3>1
  <2>5. ASSUME hpc' \in {"entry", "gate"}, cancelled' = None, NEW b \in Actors,
               Engaged(b), wpc'[b] = wpc[b]
        PROVE  FALSE
    <3>1. reaped /\ AtVisit /\ stopping.then = "entry"
      BY <2>1, <2>3, <2>5
    <3>2. b = a
      BY Zenon, <2>1, <2>5, <3>1, EngagedIsAtCursor DEF WalkInv
    <3>3. wpc[a] = "exited"
      BY Zenon, <2>1, <2>5, <3>1, <3>2
    <3> QED
      BY <2>5, <3>2, <3>3 DEF Engaged
  <2> QED
    BY Zenon, <1>0, <1>a, <2>1, <2>3, <2>4, <2>5, ActivationKept
<1> QED
  BY Zenon, <1>1, <1>2, <1>3, <1>4, <1>5, <1>6, <1>7, <1>8, <1>9, <1>10 DEF HostMoves

-----------------------------------------------------------------------------
(* Execution.                                                               *)

LEMMA ExecutionByWorker ==
  ASSUME TypeInv, NextInv, ActivationInv, ExecutionInv, NEW a \in Actors, WorkerMoves(a)
  PROVE  ExecutionInv'
<1>0. /\ shm.acknowledged \subseteq Phases /\ next \in [Actors -> Ordinals] /\ 0 \notin Phases
      /\ shm.activation \in [Actors -> Ordinals]
  BY ScheduleType DEF TypeInv, Shm, Phases
<1>1. CASE SetsUp(a) \/ Arrives(a) \/ Leaves(a)
  <2>1. /\ UNCHANGED <<next, shm.acknowledged, shm.activation>>
        /\ wpc'[a] # "running"
        /\ wpc'[a] \in {"absent", "setup", "parked", "gate"} => wpc[a] \in {"setup", "parked"}
        /\ \A b \in Actors : b # a => wpc'[b] = wpc[b]
    BY Zenon, <1>1 DEF WorkerMoves, WorkerFrame, SetsUp, Arrives, Leaves
  <2> QED
    BY <2>1 DEF ExecutionInv
<1>2. CASE Begins(a)
  <2>1. /\ wpc[a] = "gate" /\ wpc'[a] = "running" /\ UNCHANGED <<next, shm.activation>>
        /\ shm'.acknowledged = shm.acknowledged \cup {next[a]}
        /\ \A b \in Actors : b # a => wpc'[b] = wpc[b]
    BY Zenon, <1>2 DEF Begins, WorkerMoves, WorkerFrame
  <2>2. /\ next[a] \in visitsOf(a) /\ Schedule[next[a]] = a /\ next[a] \in Phases
        /\ next[a] = shm.activation[a]
    BY <2>1 DEF NextInv, visitsOf, ActivationInv, Engaged
  <2>3. \A q \in shm'.acknowledged : q <= shm'.activation[Schedule[q]]
    BY <1>0, <2>1, <2>2, ScheduleType DEF ExecutionInv
  <2>4. ASSUME NEW b \in Actors
        PROVE  /\ wpc'[b] \in {"absent", "setup", "parked", "gate"} => next'[b] \notin shm'.acknowledged
               /\ wpc'[b] = "running" => next'[b] \in shm'.acknowledged
    <3>1. CASE b = a
      BY <2>1, <3>1
    <3>2. CASE b # a
      <4>1. next[b] # next[a]
        BY <1>0, <2>2, <3>2 DEF NextInv, visitsOf
      <4> QED
        BY Zenon, <2>1, <3>2, <4>1 DEF ExecutionInv
    <3> QED
      BY Zenon, <3>1, <3>2
  <2> QED
    BY Zenon, <2>3, <2>4 DEF ExecutionInv
<1>3. CASE Completes(a)
  <2>1. /\ wpc[a] = "running" /\ UNCHANGED <<shm.acknowledged, shm.activation>>
        /\ next'[a] = nextVisit(a, next[a])
        /\ wpc'[a] = IF next'[a] = 0 THEN "leaving" ELSE "parked"
        /\ \A b \in Actors : b # a => wpc'[b] = wpc[b] /\ next'[b] = next[b]
    BY Zenon, <1>3 DEF Completes, WorkerMoves, WorkerFrame
  <2>2. next[a] = shm.activation[a]
    BY Zenon, <2>1 DEF ActivationInv, Engaged
  <2>3. next'[a] # 0 => next'[a] > next[a] /\ next'[a] \in visitsOf(a)
    BY <1>0, <2>1, NextVisitIsFirst
  <2>4. next'[a] # 0 => next'[a] \notin shm.acknowledged
    <3>1. ASSUME next'[a] # 0, next'[a] \in shm.acknowledged PROVE FALSE
      <4>1. Schedule[next'[a]] = a /\ next'[a] \in Phases
        BY Zenon, <2>3, <3>1 DEF visitsOf
      <4>2. next'[a] <= shm.activation[a]
        BY Zenon, <3>1, <4>1 DEF ExecutionInv
      <4> QED
        BY <1>0, <2>2, <2>3, <3>1, <4>1, <4>2, ScheduleType
    <3> QED
      BY Zenon, <3>1
  <2> QED
    BY <2>1, <2>4 DEF ExecutionInv
<1> QED
  BY Zenon, <1>1, <1>2, <1>3 DEF WorkerMoves

LEMMA ExecutionByHost ==
  ASSUME TypeInv, WalkInv, ActivationInv, ExecutionInv, HostKeeps, HostMoves
  PROVE  ExecutionInv'
<1>0. /\ shm.acknowledged \subseteq Phases /\ shm.activation \in [Actors -> Ordinals]
      /\ cursor \in Nat
  BY DEF TypeInv, Shm
<1>1. \A a \in Actors : shm'.activation[a] = shm.activation[a] \/
                        (shm.activation[a] < cursor /\ shm'.activation[a] = cursor)
  <2>1. ASSUME NEW c \in [Actors -> Child], NEW g \in Gate, ActivateStep(c, g)
        PROVE  \A a \in Actors : shm'.activation[a] = shm.activation[a] \/
                                 (shm.activation[a] < cursor /\ shm'.activation[a] = cursor)
    <3>1. /\ hpc \in {"entry", "gate"} /\ Schedule[cursor] \in Actors
          /\ shm'.activation = [shm.activation EXCEPT ![Schedule[cursor]] = cursor]
      BY <2>1, ScheduleType DEF ActivateStep
    <3> QED
      BY <1>0, <3>1 DEF ActivationInv
  <2>2. CASE VisitStep
    BY <2>2 DEF VisitStep, VisitMoves, VisitEnds, CollectionCloses, VisitReleased, TypeInv, Shm
  <2> QED
    BY Zenon, <2>1, <2>2 DEF HostMoves, PrepStep, LaunchStep, StopStep, SkipStep, GateEntered,
      VisitOver, FinishStep, StopOver
<1>2. \A q \in shm'.acknowledged : q <= shm'.activation[Schedule[q]]
  <2>1. ASSUME NEW q \in shm.acknowledged PROVE q <= shm'.activation[Schedule[q]]
    <3>1. q \in Phases /\ Schedule[q] \in Actors /\ q \in Nat /\ shm.activation[Schedule[q]] \in Nat
      BY <1>0, ScheduleType
    <3>2. q <= shm.activation[Schedule[q]]
      BY Zenon DEF ExecutionInv
    <3> QED
      BY <1>0, <1>1, <3>1, <3>2
  <2> QED
    BY Zenon, <2>1 DEF HostKeeps
<1>3. ASSUME NEW b \in Actors
      PROVE  /\ wpc'[b] \in {"absent", "setup", "parked", "gate"} => next'[b] \notin shm'.acknowledged
             /\ wpc'[b] = "running" => next'[b] \in shm'.acknowledged
  BY DEF HostKeeps, ExecutionInv
<1> QED
  BY Zenon, <1>2, <1>3 DEF ExecutionInv

-----------------------------------------------------------------------------
(* The records of the visits.                                               *)

\* What a step says of the visits, in the fields that the invariants are about.
SameVisit(p) ==
  /\ visits'[p].activationStored = visits[p].activationStored
  /\ visits'[p].activation = visits[p].activation
  /\ visits'[p].collectionClosed = visits[p].collectionClosed
  /\ visits'[p].gate = visits[p].gate /\ visits'[p].endReason = visits[p].endReason
Marks(p, closed, r) ==
  /\ visits'[p].activationStored = visits[p].activationStored
  /\ visits'[p].activation = visits[p].activation /\ visits'[p].gate = visits[p].gate
  /\ visits'[p].collectionClosed = closed /\ visits'[p].endReason = r
Skipped(p, r, g) ==
  /\ visits'[p].activationStored = visits[p].activationStored
  /\ visits'[p].activation = visits[p].activation
  /\ visits'[p].collectionClosed = visits[p].collectionClosed
  /\ visits'[p].gate = g /\ visits'[p].endReason = r
Activated(p, n, g) ==
  /\ visits'[p].collectionClosed = visits[p].collectionClosed
  /\ visits'[p].endReason = visits[p].endReason
  /\ visits'[p].activationStored /\ visits'[p].activation = n /\ visits'[p].gate = g
OthersSame == \A p \in Phases : p # cursor => visits'[p] = visits[p]

LEMMA VisitFields ==
  ASSUME TypeInv, cursor \in Phases
  PROVE  /\ \A b \in BOOLEAN :
              visits' = [visits EXCEPT ![cursor].completionObserved = b] =>
                OthersSame /\ SameVisit(cursor)
         /\ \A b \in BOOLEAN :
              visits' = [visits EXCEPT ![cursor].releaseStored = b] =>
                OthersSame /\ SameVisit(cursor)
         /\ \A r \in EndReason :
              visits' = [visits EXCEPT ![cursor].endReason = r] =>
                OthersSame /\ Marks(cursor, visits[cursor].collectionClosed, r)
         /\ visits' = [visits EXCEPT ![cursor].collectionClosed = TRUE] =>
              OthersSame /\ Marks(cursor, TRUE, visits[cursor].endReason)
         /\ \A r \in EndReason, g \in Gate :
              visits' = [visits EXCEPT ![cursor].endReason = r, ![cursor].gate = g] =>
                OthersSame /\ Skipped(cursor, r, g)
         /\ \A g \in Gate, n \in Nat :
              visits' = [visits EXCEPT ![cursor] = [@ EXCEPT !.activationStored = TRUE, !.gate = g,
                                                             !.activation = n]] =>
                OthersSame /\ Activated(cursor, n, g)
<1>0. visits \in [Phases -> Visit]
  BY Zenon DEF TypeInv
<1>1. ASSUME NEW b \in BOOLEAN, visits' = [visits EXCEPT ![cursor].completionObserved = b]
      PROVE  OthersSame /\ SameVisit(cursor)
  BY <1>0, <1>1 DEF OthersSame, SameVisit, Visit
<1>2. ASSUME NEW b \in BOOLEAN, visits' = [visits EXCEPT ![cursor].releaseStored = b]
      PROVE  OthersSame /\ SameVisit(cursor)
  BY <1>0, <1>2 DEF OthersSame, SameVisit, Visit
<1>3. ASSUME NEW r \in EndReason, visits' = [visits EXCEPT ![cursor].endReason = r]
      PROVE  OthersSame /\ Marks(cursor, visits[cursor].collectionClosed, r)
  BY <1>0, <1>3 DEF OthersSame, Marks, Visit
<1>4. ASSUME visits' = [visits EXCEPT ![cursor].collectionClosed = TRUE]
      PROVE  OthersSame /\ Marks(cursor, TRUE, visits[cursor].endReason)
  BY <1>0, <1>4 DEF OthersSame, Marks, Visit
<1>5. ASSUME NEW r \in EndReason, NEW g \in Gate,
             visits' = [visits EXCEPT ![cursor].endReason = r, ![cursor].gate = g]
      PROVE  OthersSame /\ Skipped(cursor, r, g)
  BY <1>0, <1>5 DEF OthersSame, Skipped, Visit
<1>6. ASSUME NEW g \in Gate, NEW n \in Nat,
             visits' = [visits EXCEPT ![cursor] = [@ EXCEPT !.activationStored = TRUE, !.gate = g,
                                                            !.activation = n]]
      PROVE  OthersSame /\ Activated(cursor, n, g)
  <2>1. /\ OthersSame
        /\ visits'[cursor] = [visits[cursor] EXCEPT !.activationStored = TRUE, !.gate = g,
                                                    !.activation = n]
    BY <1>0, <1>6 DEF OthersSame
  <2> QED
    BY <1>0, <2>1 DEF Activated, Visit
<1> QED
  BY Zenon, <1>1, <1>2, <1>3, <1>4, <1>5, <1>6

LEMMA VisitByWorker ==
  ASSUME VisitInv, NEW a \in Actors, WorkerMoves(a)
  PROVE  VisitInv'
<1>1. UNCHANGED <<hpc, cursor, stopping, cancelled, records, visits, shm.proceed>>
  BY Zenon DEF WorkerMoves, WorkerFrame, hostVars
<1>2. AtVisit' = AtVisit /\ Loop' = Loop /\ \A p : Untouched(p)' = Untouched(p)
  BY Zenon, <1>1 DEF AtVisit, Loop, Untouched
<1> QED
  BY Zenon, <1>1, <1>2 DEF VisitInv, usable

\* What holds of every visit, whatever the walk is at.
Recorded(p) ==
  /\ visits[p].activationStored => visits[p].activation > 0 /\ usable(Schedule[p])
  /\ visits[p].activationStored => cancelled # "equipment_execution"
  /\ visits[p].collectionClosed => visits[p].activationStored
  /\ p \in shm.proceed => visits[p].collectionClosed

LEMMA VisitByHost ==
  ASSUME TypeInv, TypeInv', LaunchInv, WalkInv, VisitInv, HostMoves
  PROVE  VisitInv'
<1>0. /\ cursor \in Nat /\ (\A p \in Phases : p \in Nat) /\ (\A p \in Phases : Schedule[p] \in Actors)
      /\ \A p \in Phases : Recorded(p)
  BY Zenon, ScheduleType DEF TypeInv, VisitInv, Recorded
<1>1. CASE PrepStep \/ LaunchStep
  <2>1. \A p \in Phases : Untouched(p)
    <3>1. Loop \in LaunchPc
      BY <1>1 DEF PrepStep, LaunchStep, Loop, LaunchPc
    <3> QED
      BY Zenon, <3>1 DEF VisitInv
  <2>2. \A p \in Phases : Untouched(p)'
    <3>1. UNCHANGED <<visits, shm.proceed>>
      BY Zenon, <1>1 DEF PrepStep, LaunchStep
    <3> QED
      BY Zenon, <2>1, <3>1 DEF Untouched
  <2>3. hpc' \notin VisitPc
    BY <1>1 DEF PrepStep, LaunchStep, LaunchPc, VisitPc, UnreleasedPc, ReleasedPc
  <2>4. \A p \in Phases : Recorded(p)'
    BY Zenon, <2>2 DEF Untouched, Recorded
  <2> QED
    BY Zenon, <2>2, <2>3, <2>4 DEF VisitInv, Recorded, VisitPc, UnreleasedPc, ReleasedPc
<1>2. ASSUME \A p \in Phases : SameVisit(p), UNCHANGED shm.proceed,
             \A p \in Phases : usable(Schedule[p]) => usable(Schedule[p])',
             cancelled' = "equipment_execution" => cancelled = "equipment_execution"
      PROVE  \A p \in Phases : Recorded(p)' /\ (Untouched(p) => Untouched(p)')
  <2>1. ASSUME NEW p \in Phases PROVE Recorded(p)' /\ (Untouched(p) => Untouched(p)')
    <3>1. Recorded(p) /\ SameVisit(p) /\ (usable(Schedule[p]) => usable(Schedule[p])')
      BY Zenon, <1>0, <1>2
    <3>2. Recorded(p)'
      BY Zenon, <1>2, <3>1 DEF Recorded, SameVisit
    <3> QED
      BY Zenon, <1>2, <3>1, <3>2 DEF Untouched, SameVisit
  <2> QED
    BY Zenon, <2>1
<1>3. ASSUME NEW a \in Actors, NEW then \in Resumed, StopStep(a, then) PROVE VisitInv'
  <2>1. /\ hpc' = "stopping" /\ stopping'.then = then /\ Loop' = then
        /\ UNCHANGED <<cursor, cancelled, shm.proceed>>
    BY <1>3 DEF StopStep, Loop
  <2>2. hpc' \notin VisitPc \cup {"entry", "gate"}
    BY <2>1 DEF VisitPc, UnreleasedPc, ReleasedPc
  <2>3. CASE hpc \in {"setup", "setup_timeout"}
    <3>1. UNCHANGED visits /\ Loop \in LaunchPc
      BY <1>3, <2>3 DEF StopStep, Loop, LaunchPc
    <3>2. \A p \in Phases : Untouched(p)'
      BY Zenon, <2>1, <3>1 DEF VisitInv, Untouched
    <3>3. \A p \in Phases : Recorded(p)'
      BY Zenon, <3>2 DEF Untouched, Recorded
    <3> QED
      BY Zenon, <2>2, <3>2, <3>3 DEF VisitInv, Recorded, VisitPc, UnreleasedPc, ReleasedPc
  <2>4. CASE hpc = "ending"
    <3>1. /\ AtVisit /\ then = "entry" /\ UNCHANGED records
          /\ visits' = [visits EXCEPT ![cursor].completionObserved = cursor \in shm.completed]
      BY <1>3, <2>4 DEF StopStep, AtVisit, VisitPc
    <3>2. \A p \in Phases : SameVisit(p)
      <4>1. cursor \in Phases /\ (cursor \in shm.completed) \in BOOLEAN
        BY <3>1 DEF WalkInv
      <4>2. OthersSame /\ SameVisit(cursor)
        BY Zenon, <3>1, <4>1, VisitFields
      <4> QED
        BY Zenon, <4>2 DEF OthersSame, SameVisit
    <3>3. \A p \in Phases : Recorded(p)' /\ (Untouched(p) => Untouched(p)')
      BY Zenon, <1>2, <2>1, <3>1, <3>2 DEF usable
    <3>4. Loop' \notin LaunchPc
      BY <2>1, <3>1 DEF LaunchPc
    <3>5. AtVisit' => \A p \in Phases : p > cursor' => Untouched(p)'
      BY Zenon, <2>1, <3>1, <3>3 DEF VisitInv
    <3> QED
      BY Zenon, <2>2, <3>3, <3>4, <3>5 DEF VisitInv, Recorded, VisitPc, UnreleasedPc, ReleasedPc
  <2>5. CASE hpc = "finish"
    <3>1. UNCHANGED <<visits, records>> /\ then = "finish"
      BY <1>3, <2>5 DEF StopStep
    <3>2. \A p \in Phases : Recorded(p)'
      BY Zenon, <1>0, <2>1, <3>1 DEF Recorded, usable
    <3>3. AtVisit' = FALSE /\ Loop' \notin LaunchPc
      BY <2>1, <2>2, <3>1 DEF AtVisit, LaunchPc
    <3> QED
      BY Zenon, <2>2, <3>2, <3>3 DEF VisitInv, Recorded, VisitPc, UnreleasedPc, ReleasedPc
  <2> QED
    BY Zenon, <1>3, <2>3, <2>4, <2>5 DEF StopStep
<1>4. CASE SkipStep
  <2>1. /\ UNCHANGED <<records, shm.proceed>> /\ hpc \in {"entry", "gate"} /\ cursor \in Phases
        /\ hpc' = "entry" /\ cursor' = cursor + 1
        /\ cancelled' = "equipment_execution" => cancelled = "equipment_execution"
    BY Zenon, <1>4 DEF SkipStep
  <2>2. PICK r \in EndReason, g \in Gate :
          visits' = [visits EXCEPT ![cursor].endReason = r, ![cursor].gate = g]
    BY Zenon, <1>4 DEF SkipStep
  <2>3. OthersSame /\ Skipped(cursor, r, g)
    BY Zenon, <2>1, <2>2, VisitFields
  <2>4. \A p \in Phases : p >= cursor => Untouched(p)
    BY Zenon, <2>1 DEF VisitInv
  <2>5. ASSUME NEW p \in Phases PROVE Recorded(p)' /\ (p >= cursor' => Untouched(p)')
    <3>1. CASE p = cursor
      <4>1. Untouched(p) /\ ~(p >= cursor')
        BY <1>0, <2>1, <2>4, <3>1
      <4> QED
        BY Zenon, <2>1, <2>3, <3>1, <4>1 DEF Skipped, Untouched, Recorded
    <3>2. CASE p # cursor
      <4>1. visits'[p] = visits[p] /\ Recorded(p)
        BY Zenon, <1>0, <2>3, <3>2 DEF OthersSame
      <4>2. p >= cursor' => p >= cursor
        BY <1>0, <2>1
      <4>3. Recorded(p)'
        BY Zenon, <2>1, <4>1 DEF Recorded, usable
      <4> QED
        BY Zenon, <2>1, <2>4, <4>1, <4>2, <4>3 DEF Untouched
    <3> QED
      BY Zenon, <3>1, <3>2
  <2>6. AtVisit' = FALSE /\ Loop' \notin LaunchPc /\ hpc' \notin VisitPc
    BY <2>1 DEF AtVisit, Loop, LaunchPc, VisitPc, UnreleasedPc, ReleasedPc
  <2> QED
    BY Zenon, <2>5, <2>6 DEF VisitInv, Recorded, VisitPc, UnreleasedPc, ReleasedPc
<1>5. CASE GateEntered
  <2>1. /\ UNCHANGED <<cursor, records, cancelled, visits, shm.proceed>>
        /\ hpc = "entry" /\ hpc' = "gate"
    BY Zenon, <1>5 DEF GateEntered
  <2>2. \A p \in Phases : Recorded(p)' /\ (Untouched(p) => Untouched(p)')
    BY Zenon, <1>0, <2>1 DEF Recorded, usable, Untouched
  <2>3. AtVisit' = FALSE /\ Loop' \notin LaunchPc /\ hpc' \notin VisitPc
    BY <2>1 DEF AtVisit, Loop, LaunchPc, VisitPc, UnreleasedPc, ReleasedPc
  <2> QED
    BY Zenon, <2>1, <2>2, <2>3 DEF VisitInv, Recorded, VisitPc, UnreleasedPc, ReleasedPc
<1>6. ASSUME NEW c \in [Actors -> Child], NEW g \in Gate, ActivateStep(c, g) PROVE VisitInv'
  <2> DEFINE n == c[Schedule[cursor]].captured + 1
  <2>1. /\ UNCHANGED <<cursor, cancelled, records, shm.proceed>>
        /\ hpc \in {"entry", "gate"} /\ cursor \in Phases /\ hpc' = "arrival"
        /\ cancelled = None /\ usable(Schedule[cursor])
        /\ visits' = [visits EXCEPT ![cursor] = [@ EXCEPT !.activationStored = TRUE, !.gate = g,
                                                          !.activation = n]]
    BY Zenon, <1>6 DEF ActivateStep, available
  <2>2. n \in Nat /\ n > 0
    BY <1>0, <2>1 DEF Child
  <2> HIDE DEF n
  <2>3. OthersSame /\ Activated(cursor, n, g)
    BY Zenon, <2>1, <2>2, VisitFields
  <2>4. \A p \in Phases : p >= cursor => Untouched(p)
    BY Zenon, <2>1 DEF VisitInv
  <2>5. Untouched(cursor) /\ cancelled # "equipment_execution"
    BY <1>0, <2>1, <2>4 DEF None
  <2>6. ASSUME NEW p \in Phases PROVE Recorded(p)' /\ (p > cursor => Untouched(p)')
    <3>1. CASE p = cursor
      <4>1. ~(p > cursor)
        BY <1>0, <3>1
      <4> QED
        BY Zenon, <2>1, <2>2, <2>3, <2>5, <3>1, <4>1 DEF Activated, Untouched, Recorded, usable
    <3>2. CASE p # cursor
      <4>1. visits'[p] = visits[p] /\ Recorded(p)
        BY Zenon, <1>0, <2>3, <3>2 DEF OthersSame
      <4>2. p > cursor => p >= cursor
        BY <1>0
      <4>3. Recorded(p)'
        BY Zenon, <2>1, <4>1 DEF Recorded, usable
      <4> QED
        BY Zenon, <2>1, <2>4, <4>1, <4>2, <4>3 DEF Untouched
    <3> QED
      BY Zenon, <3>1, <3>2
  <2>7. /\ Loop' \notin LaunchPc /\ hpc' \notin {"entry", "gate", "wait2", "release"}
        /\ hpc' \notin ReleasedPc
    BY <2>1 DEF Loop, LaunchPc, ReleasedPc
  <2>8. visits'[cursor'].activationStored /\ cursor' \notin shm'.proceed
    BY Zenon, <2>1, <2>3, <2>5 DEF Activated, Untouched
  <2> QED
    BY Zenon, <2>1, <2>6, <2>7, <2>8 DEF VisitInv, Recorded
<1>7. CASE VisitStep
  <2>1. /\ hpc \in VisitPc /\ AtVisit /\ UNCHANGED <<cursor, cancelled, records>>
        /\ hpc' \in VisitPc
    BY <1>7 DEF VisitStep, VisitPc, AtVisit, VisitMoves, VisitEnds, CollectionCloses, VisitReleased,
      UnreleasedPc, ReleasedPc
  <2>2. cursor \in Phases /\ visits[cursor].activationStored /\ Recorded(cursor)
    BY Zenon, <1>0, <2>1 DEF WalkInv, VisitInv
  <2>3. /\ Loop' \notin LaunchPc /\ hpc' \notin {"entry", "gate"}
    BY <2>1 DEF Loop, LaunchPc, VisitPc, UnreleasedPc, ReleasedPc
  <2>4. ASSUME OthersSame, visits'[cursor].activationStored, Recorded(cursor)',
               \A p \in Phases : p # cursor => (p \in shm'.proceed <=> p \in shm.proceed),
               hpc' \in UnreleasedPc => cursor \notin shm'.proceed,
               hpc' \in {"wait2", "release"} => visits'[cursor].collectionClosed,
               hpc' \in ReleasedPc => cursor \in shm'.proceed
        PROVE  VisitInv'
    <3>1. \A p \in Phases : p # cursor => Recorded(p)'
      BY Zenon, <1>0, <2>1, <2>4 DEF OthersSame, Recorded, usable
    <3>2. \A p \in Phases : p > cursor => Untouched(p)'
      <4>1. ASSUME NEW p \in Phases, p > cursor PROVE Untouched(p)'
        <5>1. p # cursor
          BY <1>0, <4>1
        <5>2. Untouched(p)
          BY Zenon, <2>1, <4>1 DEF VisitInv
        <5> QED
          BY Zenon, <2>4, <5>1, <5>2 DEF OthersSame, Untouched
      <4> QED
        BY Zenon, <4>1
    <3>3. \A p \in Phases : Recorded(p)'
      BY Zenon, <2>1, <2>4, <3>1
    <3> QED
      BY Zenon, <2>1, <2>3, <2>4, <3>2, <3>3 DEF VisitInv, Recorded
  <2>5. CASE VisitMoves
    <3>1. UNCHANGED <<visits, shm>>
      BY Zenon, <2>5 DEF VisitMoves
    <3>2. OthersSame /\ visits'[cursor].activationStored /\ Recorded(cursor)'
      BY Zenon, <2>1, <2>2, <3>1 DEF OthersSame, Recorded, usable
    <3>3. hpc' \in UnreleasedPc => cursor \notin shm'.proceed
      <4>1. hpc' \in UnreleasedPc => hpc \in UnreleasedPc
        BY <2>5 DEF VisitMoves, UnreleasedPc, ReleasedPc
      <4> QED
        BY Zenon, <3>1, <4>1 DEF VisitInv
    <3>4. hpc' \in {"wait2", "release"} => visits'[cursor].collectionClosed
      <4>1. hpc' \in {"wait2", "release"} => hpc \in {"wait2", "release"}
        BY <2>5 DEF VisitMoves, UnreleasedPc, ReleasedPc
      <4> QED
        BY Zenon, <3>1, <4>1 DEF VisitInv
    <3>5. hpc' \in ReleasedPc => cursor \in shm'.proceed
      <4>1. hpc' \in ReleasedPc => hpc \in ReleasedPc
        BY <2>5 DEF VisitMoves, UnreleasedPc, ReleasedPc
      <4> QED
        BY Zenon, <3>1, <4>1 DEF VisitInv
    <3> QED
      BY Zenon, <2>4, <3>1, <3>2, <3>3, <3>4, <3>5
  <2>6. ASSUME NEW r \in EndReason, VisitEnds(r) PROVE VisitInv'
    <3>1. /\ UNCHANGED shm /\ hpc' = "ending"
          /\ OthersSame /\ Marks(cursor, visits[cursor].collectionClosed, r)
      BY Zenon, <2>2, <2>6, VisitFields DEF VisitEnds
    <3>2. visits'[cursor].activationStored /\ Recorded(cursor)'
      BY Zenon, <2>1, <2>2, <3>1 DEF Marks, Recorded, usable
    <3>3. hpc' \notin UnreleasedPc \cup ReleasedPc \cup {"wait2", "release"}
      BY <3>1 DEF UnreleasedPc, ReleasedPc
    <3> QED
      BY Zenon, <2>4, <3>1, <3>2, <3>3
  <2>7. CASE CollectionCloses
    <3>1. /\ UNCHANGED shm /\ hpc = "collect" /\ hpc' = "wait2"
          /\ OthersSame /\ Marks(cursor, TRUE, visits[cursor].endReason)
      BY Zenon, <2>2, <2>7, VisitFields DEF CollectionCloses
    <3>2. visits'[cursor].activationStored /\ Recorded(cursor)' /\ visits'[cursor].collectionClosed
      BY Zenon, <2>1, <2>2, <3>1 DEF Marks, Recorded, usable
    <3>3. hpc \in UnreleasedPc /\ hpc' \notin ReleasedPc
      BY <3>1 DEF UnreleasedPc, ReleasedPc
    <3>4. cursor \notin shm'.proceed
      BY Zenon, <3>1, <3>3 DEF VisitInv
    <3> QED
      BY Zenon, <2>4, <3>1, <3>2, <3>3, <3>4
  <2>8. CASE VisitReleased
    <3>1. /\ hpc = "release" /\ hpc' = "completion"
          /\ OthersSame /\ SameVisit(cursor)
      <4>1. visits' = [visits EXCEPT ![cursor].releaseStored = TRUE] /\ TRUE \in BOOLEAN
        BY Zenon, <2>8 DEF VisitReleased
      <4> QED
        BY Zenon, <2>2, <2>8, <4>1, VisitFields DEF VisitReleased
    <3>2. shm'.proceed = shm.proceed \cup {cursor}
      BY <2>8 DEF VisitReleased, TypeInv, Shm
    <3>3. visits[cursor].collectionClosed
      BY Zenon, <3>1 DEF VisitInv
    <3>4. visits'[cursor].activationStored /\ Recorded(cursor)'
      BY Zenon, <2>1, <2>2, <3>1, <3>3 DEF SameVisit, Recorded, usable
    <3>5. hpc' \notin UnreleasedPc \cup {"wait2", "release"}
      BY <3>1 DEF UnreleasedPc
    <3> QED
      BY Zenon, <2>4, <3>1, <3>2, <3>4, <3>5
  <2> QED
    BY Zenon, <1>7, <2>5, <2>6, <2>7, <2>8 DEF VisitStep
<1>8. ASSUME \A p \in Phases : SameVisit(p), UNCHANGED <<records, shm.proceed>>,
             cancelled' = "equipment_execution" => cancelled = "equipment_execution",
             AtVisit, hpc' = "entry", cursor' = cursor + 1
      PROVE  VisitInv'
  <2>1. \A p \in Phases : Recorded(p)' /\ (Untouched(p) => Untouched(p)')
    BY Zenon, <1>2, <1>8 DEF usable
  <2>2. \A p \in Phases : p >= cursor' => Untouched(p)'
    <3>1. \A p \in Phases : p >= cursor' => p > cursor
      BY <1>0, <1>8
    <3> QED
      BY Zenon, <1>8, <2>1, <3>1 DEF VisitInv
  <2>3. AtVisit' = FALSE /\ Loop' \notin LaunchPc /\ hpc' \notin VisitPc
    BY <1>8 DEF AtVisit, Loop, LaunchPc, VisitPc, UnreleasedPc, ReleasedPc
  <2> QED
    BY Zenon, <2>1, <2>2, <2>3 DEF VisitInv, Recorded, VisitPc, UnreleasedPc, ReleasedPc
<1>9. CASE VisitOver
  <2>1. /\ AtVisit /\ UNCHANGED <<records, cancelled, shm.proceed>>
        /\ hpc' = "entry" /\ cursor' = cursor + 1
        /\ visits' = [visits EXCEPT ![cursor].completionObserved = cursor \in shm.completed]
    BY <1>9 DEF VisitOver, AtVisit, VisitPc
  <2>2. cursor \in Phases /\ (cursor \in shm.completed) \in BOOLEAN
    BY <2>1 DEF WalkInv
  <2>3. OthersSame /\ SameVisit(cursor)
    BY Zenon, <2>1, <2>2, VisitFields
  <2>4. \A p \in Phases : SameVisit(p)
    BY Zenon, <2>3 DEF OthersSame, SameVisit
  <2> QED
    BY Zenon, <1>8, <2>1, <2>4
<1>10. CASE FinishStep
  <2>1. UNCHANGED <<visits, records, cancelled, shm.proceed>>
    BY Zenon, <1>10 DEF FinishStep
  <2>2. \A p \in Phases : Recorded(p)'
    BY Zenon, <1>0, <2>1 DEF Recorded, usable
  <2>3. AtVisit' = FALSE /\ Loop' \notin LaunchPc /\ hpc' \notin VisitPc \cup {"entry", "gate"}
    BY <1>10 DEF FinishStep, AtVisit, Loop, LaunchPc, VisitPc, UnreleasedPc, ReleasedPc
  <2> QED
    BY Zenon, <2>2, <2>3 DEF VisitInv, Recorded, VisitPc, UnreleasedPc, ReleasedPc
<1>11. ASSUME NEW a \in Actors, NEW reaped \in BOOLEAN, StopOver(a, reaped) PROVE VisitInv'
  <2>1. /\ UNCHANGED <<shm.proceed, visits>> /\ hpc = "stopping"
        /\ hpc' = stopping.then /\ Loop = stopping.then
        /\ cancelled' = "equipment_execution" => cancelled = "equipment_execution"
        /\ cursor' = IF stopping.then \in {"entry", "finish"} THEN cursor + 1 ELSE cursor
    BY Zenon, <1>11 DEF StopOver, Loop
  <2>2. stopping.then \in Resumed
    BY Zenon, <2>1 DEF LaunchInv
  <2>3. /\ AtVisit' = FALSE /\ hpc' \notin VisitPc /\ hpc' # "gate" /\ Loop' = Loop
        /\ hpc' = "entry" => AtVisit /\ cursor' = cursor + 1
    BY <2>1, <2>2 DEF VisitPc, UnreleasedPc, ReleasedPc, Resumed, Loop, AtVisit
  <2>4. \A b \in Actors : usable(b)' = usable(b)
    BY <1>11 DEF StopOver, usable
  <2>5. \A p \in Phases : SameVisit(p) /\ (usable(Schedule[p]) => usable(Schedule[p])')
    BY Zenon, <1>0, <2>1, <2>4 DEF SameVisit
  <2>6. \A p \in Phases : Recorded(p)' /\ (Untouched(p) => Untouched(p)')
    BY Zenon, <1>2, <2>1, <2>5
  <2>7. hpc' = "entry" => \A p \in Phases : p >= cursor' => Untouched(p)'
    <3>1. hpc' = "entry" => \A p \in Phases : p >= cursor' => p > cursor
      BY <1>0, <2>3
    <3> QED
      BY Zenon, <2>3, <2>6, <3>1 DEF VisitInv
  <2>8. Loop' \in LaunchPc => \A p \in Phases : Untouched(p)'
    BY Zenon, <2>3, <2>6 DEF VisitInv
  <2> QED
    BY Zenon, <2>3, <2>6, <2>7, <2>8 DEF VisitInv, Recorded, VisitPc, UnreleasedPc, ReleasedPc
<1> QED
  BY Zenon, <1>1, <1>3, <1>4, <1>5, <1>6, <1>7, <1>9, <1>10, <1>11 DEF HostMoves

-----------------------------------------------------------------------------
(* Collection.                                                              *)

LEMMA CollectionByWorker ==
  ASSUME TypeInv, NextInv, ExecutionInv, VisitInv, CollectionInv, NEW a \in Actors, WorkerMoves(a)
  PROVE  CollectionInv'
<1>1. UNCHANGED <<visits, shm.proceed>> /\ shm.completed \subseteq shm'.completed
  BY Zenon DEF WorkerMoves, WorkerFrame, SetsUp, Arrives, Begins, Completes, Leaves, hostVars
<1>2. \A p \in Phases : visits'[p].endReason = "completed" => p \in shm'.completed /\ p \in shm'.proceed
  BY Zenon, <1>1 DEF CollectionInv
<1>3. CASE SetsUp(a) \/ Arrives(a) \/ Leaves(a)
  BY Zenon, <1>1, <1>2, <1>3 DEF SetsUp, Arrives, Leaves, CollectionInv
<1>4. CASE Begins(a)
  <2>1. /\ UNCHANGED shm.completed /\ wpc[a] = "gate"
        /\ shm'.acknowledged = shm.acknowledged \cup {next[a]}
        /\ early' = IF visits[next[a]].collectionClosed THEN early ELSE early \cup {next[a]}
    BY Zenon, <1>4 DEF Begins
  <2>2. next[a] \in Phases
    BY <2>1 DEF NextInv, visitsOf
  <2>3. next[a] \in shm.proceed => visits[next[a]].collectionClosed
    BY Zenon, <2>2 DEF VisitInv
  <2>4. \A p \in shm'.proceed : p \notin early'
    BY <1>1, <2>1, <2>3 DEF CollectionInv
  <2>5. early' \cup shm'.completed \subseteq shm'.acknowledged
    BY <2>1 DEF CollectionInv
  <2> QED
    BY Zenon, <1>2, <2>4, <2>5 DEF CollectionInv
<1>5. CASE Completes(a)
  <2>1. /\ UNCHANGED <<early, shm.acknowledged>> /\ shm'.completed = shm.completed \cup {next[a]}
        /\ wpc[a] = "running"
    BY Zenon, <1>5 DEF Completes
  <2>2. next[a] \in shm.acknowledged
    BY Zenon, <2>1 DEF ExecutionInv
  <2>3. early' \cup shm'.completed \subseteq shm'.acknowledged
    BY <2>1, <2>2 DEF CollectionInv
  <2> QED
    BY Zenon, <1>1, <1>2, <2>1, <2>3 DEF CollectionInv
<1> QED
  BY Zenon, <1>3, <1>4, <1>5 DEF WorkerMoves

LEMMA CollectionByHost ==
  ASSUME TypeInv, WalkInv, VisitInv, CollectionInv, HostKeeps, HostMoves
  PROVE  CollectionInv'
<1>0. UNCHANGED <<early, shm.acknowledged, shm.completed>>
  BY Zenon DEF HostKeeps
<1>1. ASSUME UNCHANGED shm.proceed,
             \A p \in Phases : visits'[p].endReason = "completed" =>
               visits[p].endReason = "completed" \/ (p \in shm.completed /\ p \in shm.proceed)
      PROVE  CollectionInv'
  BY Zenon, <1>0, <1>1 DEF CollectionInv
<1>2. CASE PrepStep \/ LaunchStep \/ GateEntered \/ FinishStep
           \/ \E a \in Actors, reaped \in BOOLEAN : StopOver(a, reaped)
  BY Zenon, <1>1, <1>2 DEF PrepStep, LaunchStep, GateEntered, FinishStep, StopOver
<1>3. ASSUME UNCHANGED shm.proceed, AtVisit,
             visits' = [visits EXCEPT ![cursor].completionObserved = cursor \in shm.completed]
      PROVE  CollectionInv'
  <2>1. cursor \in Phases /\ (cursor \in shm.completed) \in BOOLEAN
    BY <1>3 DEF WalkInv
  <2>2. OthersSame /\ SameVisit(cursor)
    BY Zenon, <1>3, <2>1, VisitFields
  <2> QED
    BY Zenon, <1>1, <1>3, <2>2 DEF OthersSame, SameVisit
<1>4. ASSUME NEW a \in Actors, NEW then \in Resumed, StopStep(a, then) PROVE CollectionInv'
  <2>1. hpc = "ending" => AtVisit
    BY DEF AtVisit, VisitPc
  <2> QED
    BY Zenon, <1>1, <1>3, <1>4, <2>1 DEF StopStep
<1>5. CASE VisitOver
  <2>1. AtVisit
    BY <1>5 DEF VisitOver, AtVisit, VisitPc
  <2> QED
    BY Zenon, <1>3, <1>5, <2>1 DEF VisitOver
<1>6. CASE SkipStep
  <2>1. PICK r \in EndReason \ {"completed", "protocol_violation"}, g \in Gate :
          visits' = [visits EXCEPT ![cursor].endReason = r, ![cursor].gate = g]
    BY Zenon, <1>6 DEF SkipStep
  <2>2. cursor \in Phases /\ r # "completed" /\ r \in EndReason /\ UNCHANGED shm.proceed
    BY Zenon, <1>6 DEF SkipStep
  <2>3. OthersSame /\ Skipped(cursor, r, g)
    BY Zenon, <2>1, <2>2, VisitFields
  <2> QED
    BY Zenon, <1>1, <2>2, <2>3 DEF OthersSame, Skipped
<1>7. ASSUME NEW c \in [Actors -> Child], NEW g \in Gate, ActivateStep(c, g) PROVE CollectionInv'
  <2> DEFINE n == c[Schedule[cursor]].captured + 1
  <2>1. /\ UNCHANGED shm.proceed /\ cursor \in Phases
        /\ visits' = [visits EXCEPT ![cursor] = [@ EXCEPT !.activationStored = TRUE, !.gate = g,
                                                          !.activation = n]]
    BY Zenon, <1>7 DEF ActivateStep
  <2>2. n \in Nat
    BY <2>1, ScheduleType DEF Child
  <2> HIDE DEF n
  <2>3. OthersSame /\ Activated(cursor, n, g)
    BY Zenon, <2>1, <2>2, VisitFields
  <2> QED
    BY Zenon, <1>1, <2>1, <2>3 DEF OthersSame, Activated
<1>8. CASE VisitStep
  <2>1. AtVisit /\ cursor \in Phases
    <3>1. AtVisit
      BY <1>8 DEF VisitStep, AtVisit, VisitPc
    <3> QED
      BY Zenon, <3>1 DEF WalkInv
  <2>2. CASE VisitMoves
    BY Zenon, <1>1, <2>2 DEF VisitMoves
  <2>3. ASSUME NEW r \in EndReason, VisitEnds(r) PROVE CollectionInv'
    <3>1. UNCHANGED shm /\ OthersSame /\ Marks(cursor, visits[cursor].collectionClosed, r)
      BY Zenon, <2>1, <2>3, VisitFields DEF VisitEnds
    <3>2. r = "completed" => cursor \in shm.completed /\ cursor \in shm.proceed
      <4>1. r = "completed" => hpc \in ReleasedPc /\ cursor \in shm.completed
        BY Zenon, <2>3 DEF VisitEnds, ReleasedPc
      <4> QED
        BY Zenon, <4>1 DEF VisitInv
    <3> QED
      BY Zenon, <1>1, <3>1, <3>2 DEF OthersSame, Marks
  <2>4. CASE CollectionCloses
    <3>1. UNCHANGED shm /\ OthersSame /\ Marks(cursor, TRUE, visits[cursor].endReason)
      BY Zenon, <2>1, <2>4, VisitFields DEF CollectionCloses
    <3> QED
      BY Zenon, <1>1, <3>1 DEF OthersSame, Marks
  <2>5. CASE VisitReleased
    <3>1. OthersSame /\ SameVisit(cursor) /\ cursor \notin shm.acknowledged
      <4>1. visits' = [visits EXCEPT ![cursor].releaseStored = TRUE] /\ TRUE \in BOOLEAN
        BY Zenon, <2>5 DEF VisitReleased
      <4> QED
        BY Zenon, <2>1, <2>5, <4>1, VisitFields DEF VisitReleased
    <3>2. shm'.proceed = shm.proceed \cup {cursor}
      BY <2>5 DEF VisitReleased, TypeInv, Shm
    <3>3. \A p \in shm'.proceed : p \notin early'
      BY Zenon, <1>0, <3>1, <3>2 DEF CollectionInv
    <3> QED
      BY Zenon, <1>0, <3>1, <3>2, <3>3 DEF CollectionInv, OthersSame, SameVisit
  <2> QED
    BY Zenon, <1>8, <2>2, <2>3, <2>4, <2>5 DEF VisitStep
<1> QED
  BY Zenon, <1>2, <1>4, <1>5, <1>6, <1>7, <1>8 DEF HostMoves

-----------------------------------------------------------------------------
(* The invariant.                                                           *)

LEMMA InitInv == Init => IInv
<1> SUFFICES ASSUME Init PROVE IInv
  OBVIOUS
<1>1. TypeInv
  <2>1. shm \in Shm
    BY Zenon, ScheduleType DEF Init, Shm
  <2>2. wpc \in [Actors -> WorkerPc]
    BY Zenon DEF Init, WorkerPc
  <2>3. next \in [Actors -> Ordinals]
    BY Zenon, NextVisitIsFirst, ScheduleType DEF Init
  <2>4. records \in [Actors -> Record]
    BY Zenon DEF Init, Record, SetupStatus
  <2>5. child \in [Actors -> Child]
    BY Zenon DEF Init, Child
  <2>6. visits \in [Phases -> Visit]
    <3>1. [outcome |-> "not_reached", observation |-> {}, capture_ordinal |-> 0] \in Gate
      BY DEF Gate, GateOutcomes
    <3>2. "not_reached" \in EndReason /\ 0 \in Nat
      BY DEF EndReason
    <3> QED
      BY Zenon, <3>1, <3>2 DEF Init, Visit
  <2>7. stopping \in [actor : 0..ActorCount, then : Resumed \cup {None}]
    BY SMTT(60), ActorCountAssumption DEF Init
  <2>8. hpc \in HostPc /\ cursor \in Nat \ {0} /\ cancelled \in Cancellation
    BY SMTT(60) DEF Init, HostPc, LaunchPc, Cancellation
  <2> QED
    BY Zenon, <2>1, <2>2, <2>3, <2>4, <2>5, <2>6, <2>7, <2>8 DEF Init, TypeInv
<1>2. LaunchInv
  BY Zenon DEF Init, LaunchInv, Loop, usable
<1>3. AtVisit = FALSE /\ hpc \notin VisitPc \cup {"entry", "gate", "stopping"}
  BY Zenon DEF Init, AtVisit, VisitPc, UnreleasedPc, ReleasedPc
<1>4. WalkInv
  BY Zenon, <1>3 DEF WalkInv, Init
<1>5. NextInv
  <2>1. 0 \in Ordinals
    BY ScheduleType
  <2>2. ASSUME NEW a \in Actors
        PROVE  /\ next[a] \in visitsOf(a) \cup {0}
               /\ \A q \in visitsOf(a) : next[a] # 0 /\ ~(q < next[a])
    <3>1. next[a] = nextVisit(a, 0)
      BY Zenon DEF Init
    <3>2. \A q \in visitsOf(a) : q \in Nat /\ q > 0 /\ next[a] \in Nat
      BY <1>1, ScheduleType DEF visitsOf, TypeInv
    <3>3. /\ nextVisit(a, 0) \in visitsOf(a) \cup {0}
          /\ \A q \in visitsOf(a) : q > 0 => nextVisit(a, 0) # 0 /\ nextVisit(a, 0) <= q
      BY Zenon, <2>1, NextVisitIsFirst
    <3> QED
      BY <3>1, <3>2, <3>3
  <2>3. \A a \in Actors : wpc[a] = "absent"
    BY Zenon DEF Init
  <2>4. shm.completed = {}
    BY Zenon DEF Init
  <2> QED
    BY <2>2, <2>3, <2>4 DEF NextInv
<1>6. ActivationInv
  <2>1. \A a \in Actors : shm.activation[a] = 0 /\ wpc[a] = "absent"
    BY Zenon DEF Init
  <2>2. \A a \in Actors : ~Engaged(a)
    BY <2>1 DEF Engaged
  <2> QED
    BY Zenon, <1>3, <2>1, <2>2 DEF ActivationInv
<1>7. ExecutionInv
  BY Zenon DEF Init, ExecutionInv
<1>8. VisitInv
  <2>1. \A p \in Phases : Untouched(p)
    BY Zenon DEF Init, Untouched
  <2> QED
    BY Zenon, <1>3, <2>1 DEF VisitInv, Untouched, VisitPc, UnreleasedPc, ReleasedPc
<1>9. CollectionInv
  BY Zenon DEF Init, CollectionInv
<1> QED
  BY Zenon, <1>1, <1>2, <1>4, <1>5, <1>6, <1>7, <1>8, <1>9 DEF IInv

\* The steps of the system: a worker, the host, or time.
LEMMA Steps ==
  ASSUME IInv, [Next]_vars
  PROVE  \/ \E a \in Actors : WorkerMoves(a)
         \/ HostMoves
         \/ UNCHANGED <<shm, wpc, next, hpc, cursor, stopping, pending, records, stopped, child,
                        visits, cancelled, asked, early>>
<1>1. ASSUME NEW a \in Actors, Worker(a) PROVE WorkerMoves(a)
  BY Zenon, <1>1, WorkerSteps DEF IInv
<1>2. CASE Host
  BY Zenon, <1>2, HostSteps DEF IInv
<1>3. CASE UNCHANGED vars \/ \E x \in Allowances : TimePasses(x)
  BY Zenon, <1>3 DEF TimePasses, vars, workerVars, hostVars, histVars
<1> QED
  BY Zenon, <1>1, <1>2, <1>3 DEF Next, Finished

LEMMA InductiveStep ==
  ASSUME IInv, [Next]_vars
  PROVE  IInv'
<1>1. TypeInv'
  BY Zenon, TypeStep DEF IInv
<1>2. ASSUME NEW a \in Actors, WorkerMoves(a) PROVE IInv'
  BY Zenon, <1>1, <1>2, LaunchByWorker, WalkByWorker, NextByWorker, ActivationByWorker,
    ExecutionByWorker, VisitByWorker, CollectionByWorker DEF IInv
<1>3. CASE HostMoves
  <2>1. HostKeeps
    BY Zenon, <1>3, HostKeepsWorkers DEF IInv
  <2> QED
    BY Zenon, <1>1, <1>3, <2>1, LaunchByHost, WalkByHost, NextByHost, ActivationByHost,
      ExecutionByHost, VisitByHost, CollectionByHost DEF IInv
<1>4. CASE UNCHANGED <<shm, wpc, next, hpc, cursor, stopping, pending, records, stopped, child,
                       visits, cancelled, asked, early>>
  <2>1. /\ Loop' = Loop /\ AtVisit' = AtVisit /\ (\A a : Engaged(a)' = Engaged(a))
        /\ (\A p : Untouched(p)' = Untouched(p)) /\ (\A a : usable(a)' = usable(a))
        /\ (\A a : available(a)' = available(a))
    BY Zenon, <1>4 DEF Loop, AtVisit, Engaged, Untouched, usable, available
  <2>2. LaunchInv' /\ WalkInv' /\ NextInv'
    BY Zenon, <1>4, <2>1 DEF IInv, LaunchInv, WalkInv, NextInv
  <2>3. ActivationInv' /\ ExecutionInv'
    BY Zenon, <1>4, <2>1 DEF IInv, ActivationInv, ExecutionInv
  <2>4. VisitInv'
    BY Zenon, <1>4, <2>1 DEF IInv, VisitInv
  <2>5. CollectionInv'
    BY Zenon, <1>4 DEF IInv, CollectionInv
  <2> QED
    BY Zenon, <1>1, <2>2, <2>3, <2>4, <2>5 DEF IInv
<1> QED
  BY Zenon, <1>2, <1>3, <1>4, Steps

\* The scheduler's inductive invariant holds in every reachable state.
THEOREM Invariant == Spec => []IInv
<1>1. Init => IInv
  BY InitInv
<1>2. IInv /\ [Next]_vars => IInv'
  BY Zenon, InductiveStep
<1> QED
  BY <1>1, <1>2, PTL DEF Spec

-----------------------------------------------------------------------------
(* The properties that hold whatever the actors do.                         *)

\* Whatever fails, when the scheduler returns its records tell of every actor whether
\* it was launched, is gone, or may still run.
THEOREM ActorsAccounted == Spec => []EveryActorAccounted
<1>1. ASSUME IInv PROVE EveryActorAccounted
  <2> SUFFICES ASSUME NEW a \in Actors
               PROVE  CASE wpc[a] = "absent" -> records[a].quiescence = "never_launched"
                        [] wpc[a] = "exited" -> records[a].quiescence # "never_launched"
                        [] OTHER -> records[a].quiescence = "unresolved"
    BY DEF EveryActorAccounted
  <2>1. records[a].quiescence \in {"never_launched", "unresolved", "reaped"}
    BY <1>1 DEF IInv, TypeInv, Record
  <2>2. /\ wpc[a] = "absent" <=> records[a].quiescence = "never_launched"
        /\ records[a].quiescence = "reaped" => wpc[a] = "exited"
    BY Zenon, <1>1 DEF IInv, LaunchInv
  <2> QED
    BY <2>1, <2>2
<1> QED
  BY <1>1, Invariant, PTL

\* A visit the scheduler records as completed was executed after its collection had
\* closed, also by an actor that does not wait for its release.
THEOREM CompletionsCollected == Spec => []CompletedAfterCollection
<1>1. IInv => CompletedAfterCollection
  BY Zenon DEF IInv, CollectionInv, CompletedAfterCollection
<1> QED
  BY <1>1, Invariant, PTL

LEMMA ActivationStep ==
  ASSUME IInv, [Next]_vars, shm'.activation # shm.activation
  PROVE  \A a \in stopped : wpc[a] = "exited"
<1>1. ~(\E a \in Actors : WorkerMoves(a))
  BY Zenon DEF WorkerMoves, WorkerFrame
<1>2. HostMoves
  BY Zenon, <1>1, Steps
<1>3. PICK c \in [Actors -> Child], g \in Gate : ActivateStep(c, g)
  <2>1. ~PrepStep /\ ~LaunchStep /\ ~SkipStep /\ ~GateEntered /\ ~VisitOver /\ ~FinishStep
    BY Zenon DEF PrepStep, LaunchStep, SkipStep, GateEntered, VisitOver, FinishStep
  <2>2. \A a \in Actors : \A then \in Resumed : ~StopStep(a, then)
    BY Zenon DEF StopStep
  <2>3. \A a \in Actors : \A reaped \in BOOLEAN : ~StopOver(a, reaped)
    BY Zenon DEF StopOver
  <2>4. ~VisitStep
    <3>1. shm \in Shm
      BY DEF IInv, TypeInv
    <3>2. ~VisitMoves /\ ~CollectionCloses /\ \A r \in EndReason : ~VisitEnds(r)
      BY Zenon DEF VisitMoves, VisitEnds, CollectionCloses
    <3>3. ~VisitReleased
      BY <3>1 DEF VisitReleased, Shm
    <3> QED
      BY Zenon, <3>2, <3>3 DEF VisitStep
  <2> QED
    BY Zenon, <1>2, <2>1, <2>2, <2>3, <2>4 DEF HostMoves
<1>4. hpc \in {"entry", "gate"} /\ cancelled = None
  BY Zenon, <1>3 DEF ActivateStep
<1>5. Loop \notin {"finish", "returned"} /\ hpc # "stopping"
  BY <1>4 DEF Loop
<1> QED
  BY Zenon, <1>4, <1>5 DEF IInv, WalkInv

\* No actor is activated while one that the scheduler has stopped may still run.
THEOREM OrphansBlockActivation == Spec => NoActivationOverOrphan
<1>1. IInv /\ [Next]_vars =>
        [shm'.activation # shm.activation => \A a \in stopped : wpc[a] = "exited"]_vars
  BY Zenon, ActivationStep
<1> QED
  BY <1>1, Invariant, PTL DEF Spec, NoActivationOverOrphan
=============================================================================
