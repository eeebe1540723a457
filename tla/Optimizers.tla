-------------------------------- MODULE Optimizers --------------------------------
(***************************************************************************)
(* Optimizers of one model, their state and its checkpoints                *)
(* (optim/__init__.py, ElasticTrainer of distributed/__init__.py).         *)
(*                                                                         *)
(* Abstracted: one parameter per group; gradients and moments are values   *)
(* that nobody looks at, and so are the parameters: no step() of the code  *)
(* changes them.  The rate is in Schedules.                                *)
(***************************************************************************)
EXTENDS Integers, Sequences, SequencesExt, FiniteSets

CONSTANTS
  Groups,        \* the parameters of the model, 1..n, each a group of its own
  Optimizers,    \* optimizers made one after another
  MaxStates,     \* bound on the states
  MaxStep,       \* bound on the steps that a state counts
  MaxMoves,      \* bound on the times that the model is moved
  NoState

\* The loop of step() goes through the parameters in order.
ASSUME OptimizerAssumption ==
  /\ MaxStates \in Nat /\ MaxMoves \in Nat
  /\ Cardinality(Groups) \in Nat /\ Groups = 1..Cardinality(Groups)

VARIABLES
  kind,          \* which optimizer: "momentum" is Lion too, "adam" is LAMB too
  moves,         \* Module.to() has made the parameters anew so often
  grads,         \* whether each parameter has a grad, zeros or not, by move
  states,        \* the states made: whose parameter it was made for, and state['step']
  optimizer,     \* of each: the move its parameters are of, and their states
  dict,          \* what a state_dict() has returned: the states, shared; or NoState
  file           \* a checkpoint: "absent" or "partial"

optimizerVars == <<kind, moves, grads, states, optimizer, dict, file>>

OptimizerInit ==
  /\ kind \in {"sgd", "momentum", "adam"} /\ moves = 0
  /\ grads = [m \in 0..MaxMoves |-> [g \in Groups |-> FALSE]] /\ states = <<>>
  /\ optimizer = [o \in Optimizers |-> [move |-> 0, state |-> [g \in Groups |-> NoState]]]
  /\ dict = NoState /\ file = "absent"
-----------------------------------------------------------------------------
\* The optimizer is made again, of the parameters that the model has now.
MakeOptimizer(o) ==
  /\ optimizer' = [optimizer EXCEPT ![o] = [move |-> moves,
                                            state |-> [g \in Groups |-> NoState]]]
  /\ UNCHANGED <<kind, moves, grads, states, dict, file>>

\* to(), half(), cuda(): the model has new parameters, the optimizers keep the old ones.
Apply ==
  /\ moves < MaxMoves /\ moves' = moves + 1
  /\ UNCHANGED <<kind, grads, states, optimizer, dict, file>>

\* A loss of some of the parameters.
Backward(used) ==
  /\ grads' = [grads EXCEPT ![moves] = [g \in Groups |-> g \in used \/ @[g]]]
  /\ UNCHANGED <<kind, moves, states, optimizer, dict, file>>

ZeroGrad(o, to_none) ==
  /\ grads' = [grads EXCEPT ![optimizer[o].move] =
                 [g \in Groups |-> @[g] /\ ~to_none]]
  /\ UNCHANGED <<kind, moves, states, optimizer, dict, file>>

\* Plain SGD has no state; SGD with momentum and Lion have one and do not count.  Adam and
\* LAMB count.
Count(n) == IF kind = "adam" THEN n + 1 ELSE 0

\* One parameter of the loop of step(); a gradient of zeros counts as one.
StepOne(o, acc, g) ==
  IF kind = "sgd" \/ ~grads[optimizer[o].move][g] THEN acc
  ELSE IF acc.state[g] = NoState
  THEN [state |-> [acc.state EXCEPT ![g] = Len(acc.states) + 1],
        states |-> Append(acc.states, [of |-> g, step |-> Count(0)])]
  ELSE [acc EXCEPT !.states[acc.state[g]].step = Count(@)]

Step(o) ==
  LET end == FoldLeft(LAMBDA acc, g : StepOne(o, acc, g),
                      [state |-> optimizer[o].state, states |-> states],
                      [g \in 1..Cardinality(Groups) |-> g]) IN
  /\ Len(end.states) <= MaxStates /\ \A s \in DOMAIN end.states : end.states[s].step <= MaxStep
  /\ states' = end.states /\ optimizer' = [optimizer EXCEPT ![o].state = end.state]
  /\ UNCHANGED <<kind, moves, grads, dict, file>>
-----------------------------------------------------------------------------
\* The states themselves, by group and place in it: later steps change them.
OptimizerStateDict(o) ==
  /\ dict' = optimizer[o].state
  /\ UNCHANGED <<kind, moves, grads, states, optimizer, file>>

\* What the dictionary has no state of keeps the one it has.
LoadOptimizerState(o) ==
  /\ dict # NoState
  /\ optimizer' = [optimizer EXCEPT ![o].state =
                     [g \in Groups |-> IF dict[g] = NoState THEN @[g] ELSE dict[g]]]
  /\ UNCHANGED <<kind, moves, grads, states, dict, file>>

\* Rank 0 empties the file, then raises: a model's tensors hold locks, which cannot be
\* pickled.  Loading such a file raises too.
SaveCheckpoint(rank) ==
  /\ file' = IF rank = 0 THEN "partial" ELSE file
  /\ UNCHANGED <<kind, moves, grads, states, optimizer, dict>>

OptimizerNext ==
  \/ Apply \/ \E used \in SUBSET Groups : Backward(used)
  \/ \E rank \in {0, 1} : SaveCheckpoint(rank)
  \/ \E o \in Optimizers :
       \/ MakeOptimizer(o) \/ Step(o) \/ OptimizerStateDict(o) \/ LoadOptimizerState(o)
       \/ \E to_none \in BOOLEAN : ZeroGrad(o, to_none)

OptimizerSpec == OptimizerInit /\ [][OptimizerNext]_optimizerVars
-----------------------------------------------------------------------------
OptimizerTypeOK ==
  /\ moves \in 0..MaxMoves /\ Len(states) <= MaxStates
  /\ \A o \in Optimizers : /\ optimizer[o].move \in 0..moves
                           /\ kind = "sgd" => \A g \in Groups : optimizer[o].state[g] = NoState

(* Whichever optimizers hand their states on to each other, while they step and while the
   model is moved, an optimizer has for a parameter a state that was made for that
   parameter, and has taken a step. *)
StateFollowsParameter ==
  \A o \in Optimizers, g \in Groups : LET s == optimizer[o].state[g] IN
    s # NoState => states[s].of = g /\ (kind = "adam" => states[s].step > 0)
=============================================================================
