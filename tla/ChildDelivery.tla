---------------------------- MODULE ChildDelivery ----------------------------
(***************************************************************************)
(* utils::run_with_stdin: the request goes to a child's stdin from a       *)
(* writer thread while the child's output is collected, and the pipes      *)
(* are bounded.  The child is another program: its script says in which    *)
(* order it reads and writes before it exits.                              *)
(***************************************************************************)
EXTENDS Naturals, Sequences

CONSTANTS
  Input,       \* how many chunks the request has
  PipeSize,    \* how many chunks a pipe holds
  Scripts      \* what the child does: "read", "drain" (to the end of the input), or
               \* write to a stream

ASSUME PipeAssumption == Input \in Nat /\ PipeSize \in Nat \ {0}
ASSUME ScriptsAssumption == Scripts \subseteq Seq({"read", "drain", "stdout", "stderr"})

VARIABLE cd

Streams == {"stdout", "stderr"}
Empty == [s \in Streams |-> 0]

\* The child runs from the spawn to its exit, which closes its ends of the pipes.
DeliveryStarts ==
  {[pc |-> "spawn", script |-> s, child |-> "none", writer |-> "none", written |-> 0,
    error |-> {}, stdin |-> 0, received |-> 0, ended |-> FALSE,
    produced |-> Empty, pipe |-> Empty, collected |-> Empty] : s \in Scripts}

SpawnChild ==
  /\ cd.pc = "spawn"
  /\ \/ cd' = [cd EXCEPT !.pc = "not_launched"]
     \/ cd' = [cd EXCEPT !.pc = "collect", !.child = "running", !.writer = "writing"]

\* write_request: one write of the loop, of as much as the pipe takes.
WriteChunk ==
  /\ cd.writer = "writing" /\ cd.written < Input /\ cd.child = "running" /\ cd.stdin < PipeSize
  /\ cd' = [cd EXCEPT !.written = @ + 1, !.stdin = @ + 1]

WriteFails ==
  /\ cd.writer = "writing" /\ cd.written < Input /\ cd.child = "exited"
  /\ cd' = [cd EXCEPT !.writer = "closed", !.error = {"broken pipe"}]

CloseStdin ==
  /\ cd.writer = "writing" /\ cd.written = Input
  /\ cd' = [cd EXCEPT !.writer = "closed"]

\* Mutant of mayCollect: the output is read once the request is delivered.
mayCollect_AfterDelivery == cd.pc = "collect" /\ cd.writer = "closed"

mayCollect == cd.pc = "collect"

\* wait_with_output: both streams to their end, then the exit status.
CollectChunk ==
  /\ mayCollect
  /\ \E s \in Streams :
       cd.pipe[s] > 0 /\ cd' = [cd EXCEPT !.pipe[s] = @ - 1, !.collected[s] = @ + 1]

CollectEnd ==
  /\ mayCollect /\ cd.pipe = Empty /\ cd.child = "exited"
  /\ cd' = [cd EXCEPT !.pc = "join"]

\* Mutant of delivered: a child that was spawned and collected was sent its request.
delivered_Collected(s) == [s EXCEPT !.pc = "returned", !.error = {}]

delivered(s) == [s EXCEPT !.pc = "returned"]

JoinWriter ==
  /\ cd.pc = "join" /\ cd.writer = "closed"
  /\ cd' = delivered(cd)

Controller == WriteChunk \/ WriteFails \/ CloseStdin \/ CollectChunk \/ CollectEnd \/ JoinWriter

\* The child: it waits for input and for room in its output pipes.
ChildReads ==
  /\ cd.child = "running" /\ cd.script # <<>> /\ Head(cd.script) \in {"read", "drain"}
  /\ \/ cd.stdin > 0 /\ cd' = [cd EXCEPT !.stdin = @ - 1, !.received = @ + 1,
                                 !.script = IF Head(@) = "read" THEN Tail(@) ELSE @]
     \/ cd.stdin = 0 /\ cd.writer = "closed" /\ cd' = [cd EXCEPT !.script = Tail(@), !.ended = TRUE]

ChildWrites ==
  /\ cd.child = "running" /\ cd.script # <<>>
  /\ \E s \in Streams \cap {Head(cd.script)} :
       /\ cd.pipe[s] < PipeSize
       /\ cd' = [cd EXCEPT !.script = Tail(@), !.produced[s] = @ + 1, !.pipe[s] = @ + 1]

ChildExits ==
  /\ cd.child = "running" /\ cd.script = <<>>
  /\ cd' = [cd EXCEPT !.child = "exited"]

Child == ChildReads \/ ChildWrites \/ ChildExits

NextDelivery == SpawnChild \/ Controller \/ Child

DeliverySpec == cd \in DeliveryStarts /\ [][NextDelivery]_cd

-----------------------------------------------------------------------------
(* Properties.                                                              *)

\* The invocation reports the whole output of the child.  When it reports no
\* delivery error the pipe took every byte, and a child that read to the end of its
\* input has the whole request; with one, the child was gone before the last byte.
DeliveryIsTrue ==
  cd.pc = "returned" =>
    /\ cd.collected = cd.produced
    /\ cd.received <= cd.written
    /\ cd.error = {} => cd.written = Input /\ (cd.ended => cd.received = Input)
    /\ cd.error # {} => cd.written < Input /\ ~cd.ended

\* run_with_stdin returns for every child that exits once it is read and written,
\* whichever of its pipes fills first.
DeliveryReturns == (cd.child = "running") ~> (cd.pc = "returned")
=============================================================================
