-------------------------------- MODULE Pipeline --------------------------------
(***************************************************************************)
(* The process group and the pipeline (distributed/__init__.py): one stage *)
(* per process, each with a group object of its own.                       *)
(*                                                                         *)
(* Abstracted: a tensor is the micro-batch it was computed from, or Blank. *)
(* Nothing is transmitted, as in the code: what a process sends stays in   *)
(* its own buffers, recv() leaves the tensor as it was made, and the       *)
(* collectives initialize the group and change nothing else.               *)
(***************************************************************************)
EXTENDS Integers, Sequences, SequencesExt, FiniteSets, FiniteSetsExt

CONSTANTS
  Stages,          \* the ranks, 0..n-1
  MaxMicrobatches, \* bound on num_microbatches
  MaxRequests,     \* bound on the requests somebody waits for
  Blank            \* the content of a tensor that recv() was to fill

\* torchrun numbers the ranks from zero.
ASSUME PipelineAssumption ==
  /\ MaxMicrobatches \in Nat /\ MaxRequests \in Nat
  /\ Cardinality(Stages) \in Nat /\ Stages = 0..(Cardinality(Stages) - 1)

VARIABLES
  schedule,        \* of the pipeline
  microbatches,    \* num_microbatches
  inputs,          \* how many inputs each process passes to forward()
  initialized,     \* of each process's group
  sent,            \* _send_buffers of each process's group, by destination
  waiting,         \* threads in Request.wait() without a timeout
  pipe             \* of each process: what it does, what it has done, its outputs

pipelineVars == <<schedule, microbatches, inputs, initialized, sent, waiting, pipe>>

NumStages == Cardinality(Stages)

PipelineInit ==
  /\ schedule \in {"gpipe", "1f1b", "interleaved"}
  /\ microbatches \in 1..MaxMicrobatches /\ inputs \in 0..microbatches
  /\ initialized = {} /\ sent = [s \in Stages |-> [d \in Stages |-> <<>>]] /\ waiting = 0
  /\ pipe = [s \in Stages |-> [at |-> "idle", log |-> <<>>, outputs |-> <<>>]]

Given == UNCHANGED <<schedule, microbatches, inputs>>
Does(s, what) == pipe' = [pipe EXCEPT ![s].at = what]
-----------------------------------------------------------------------------
\* Also what every collective does to the group, and Send with its buffer unused.
InitializeGroup(s) ==
  /\ s \notin initialized /\ initialized' = initialized \cup {s}
  /\ Given /\ UNCHANGED <<sent, waiting, pipe>>

Destroy(s) ==
  /\ s \in initialized /\ initialized' = initialized \ {s}
  /\ Given /\ UNCHANGED <<sent, waiting, pipe>>

\* broadcast, reduce, all_reduce and barrier are nothing to a process that is alone;
\* asynchronous, they and the others return a request.  Whoever waits for it, or for
\* its future, does so for ever: nothing completes a request.
WaitForCollective(s, alone) ==
  /\ waiting < MaxRequests /\ (alone => NumStages > 1) /\ waiting' = waiting + 1
  /\ initialized' = initialized \cup {s}
  /\ Given /\ UNCHANGED <<sent, pipe>>

\* isend() and irecv() do not even initialize the group.
WaitForMessage(s) ==
  /\ waiting < MaxRequests /\ waiting' = waiting + 1
  /\ Given /\ UNCHANGED <<initialized, sent, pipe>>
-----------------------------------------------------------------------------
Warmup(s) == Min({NumStages - s - 1, microbatches})

GPipe == [i \in 1..microbatches |-> i]

\* The micro-batches in the order of the two loops.
OneForwardOneBackward(s) ==
  [i \in 1..Warmup(s) |-> i] \o [i \in 1..(microbatches - Warmup(s)) |-> Warmup(s) + i]

Order(s) == IF schedule = "gpipe" THEN GPipe ELSE OneForwardOneBackward(s)

Forward(s) ==
  /\ pipe[s].at = "idle"
  /\ Does(s, IF schedule = "interleaved" THEN "failed" ELSE "running")
  /\ Given /\ UNCHANGED <<initialized, sent, waiting>>

Round(s) == Len(pipe[s].log) + 1

\* Stages other than the first use the first input, for its shape.
Lacks(s, m) == IF s = 0 THEN m > inputs ELSE inputs = 0

StageFails(s) ==
  /\ pipe[s].at = "running" /\ Round(s) <= Len(Order(s)) /\ Lacks(s, Order(s)[Round(s)])
  /\ Does(s, "failed")
  /\ Given /\ UNCHANGED <<initialized, sent, waiting>>

\* A round: receive, compute, then send, or output if this is the last stage.
StageForward(s) ==
  LET m    == Order(s)[Round(s)]
      y    == IF s = 0 THEN m ELSE Blank
      last == s = NumStages - 1 IN
  /\ pipe[s].at = "running" /\ Round(s) <= Len(Order(s)) /\ ~Lacks(s, m)
  /\ pipe' = [pipe EXCEPT ![s].log = Append(@, m),
                          ![s].outputs = IF last THEN Append(@, y) ELSE @]
  /\ sent' = IF last THEN sent ELSE [sent EXCEPT ![s][s + 1] = Append(@, y)]
  /\ initialized' = IF last /\ s = 0 THEN initialized ELSE initialized \cup {s}
  /\ Given /\ UNCHANGED waiting

ForwardReturns(s) ==
  /\ pipe[s].at = "running" /\ Round(s) > Len(Order(s)) /\ Does(s, "returned")
  /\ Given /\ UNCHANGED <<initialized, sent, waiting>>

PipelineNext ==
  \E s \in Stages :
    \/ InitializeGroup(s) \/ Destroy(s) \/ WaitForMessage(s)
    \/ \E alone \in BOOLEAN : WaitForCollective(s, alone)
    \/ Forward(s) \/ StageFails(s) \/ StageForward(s) \/ ForwardReturns(s)

PipelineSpec == PipelineInit /\ [][PipelineNext]_pipelineVars
-----------------------------------------------------------------------------
PipelineTypeOK ==
  /\ waiting \in 0..MaxRequests /\ initialized \subseteq Stages
  /\ \A s \in Stages : ToSet(pipe[s].outputs) \subseteq 1..microbatches \cup {Blank}

(* Whatever the schedule, and however few the micro-batches, a stage that returns has
   done each of them once, in order, and for each passed one result to the next stage,
   or out of the last. *)
StagesInOrder ==
  \A s \in Stages :
    pipe[s].at = "returned" =>
      /\ pipe[s].log = GPipe
      /\ Len(IF s = NumStages - 1 THEN pipe[s].outputs ELSE sent[s][s + 1]) = microbatches
=============================================================================
