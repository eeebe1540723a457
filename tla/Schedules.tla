------------------------------- MODULE Schedules -------------------------------
(***************************************************************************)
(* The learning rate of a training process: what the schedulers            *)
(* (optim/__init__.py) and the ElasticTrainer (distributed/__init__.py),   *)
(* which adapts it to the number of workers, make of it.                   *)
(*                                                                         *)
(* Abstracted: one parameter group.  The rate is an integer; cosines are   *)
(* per mille, and steps that would not divide it exactly are not taken.    *)
(***************************************************************************)
EXTENDS Integers, Sequences

CONSTANTS
  BaseLR,        \* lr of a new optimizer
  WorldSizes,    \* values of WORLD_SIZE
  MaxEpoch,      \* bound on last_epoch
  MaxLR,         \* bound on what scaling makes of the rate
  NoScheduler

\* Workers are counted from one.
ASSUME ScheduleAssumption ==
  WorldSizes \subseteq Nat \ {0} /\ BaseLR \in Int /\ MaxEpoch \in Nat

VARIABLES
  lr,            \* param_groups[0]['lr']
  scheduler,     \* the scheduler, or NoScheduler
  saved,         \* what state_dict() of the two returned the first time
  world,         \* WORLD_SIZE in the environment
  trainer,       \* ElasticTrainer._current_world_size
  set            \* history: the last rate set, not scaled, and for how many workers

scheduleVars == <<lr, scheduler, saved, world, trainer, set>>

Set(rate) == lr' = rate /\ set' = [lr |-> rate, world |-> trainer]

ScheduleInit ==
  /\ lr = BaseLR /\ scheduler = NoScheduler /\ saved = NoScheduler
  /\ world \in WorldSizes /\ trainer = world /\ set = [lr |-> BaseLR, world |-> world]
-----------------------------------------------------------------------------
\* (1 + cos(pi * k / n)) / 2 per mille, for n = 2 or 4.
Wave(k, n) == <<1000, 853, 500, 146, 0, 146, 500, 853>>[(((k * 4) \div n) % 8) + 1]
Share(rate, permille) == (rate * permille) \div 1000

StepSize == 2         \* StepLR, with gamma = 1/2
TMax == 4             \* CosineAnnealingLR, and T_0 = 2, T_mult = 2 of the warm restarts
WarmupSteps == 2      \* WarmupLR, and half of total_steps, as in OneCycleLR
TotalSteps == 4
DivFactor == 2        \* OneCycleLR, and final_div_factor, with the linear strategy

StepLR(s) ==
  IF s.epoch = 0 \/ s.epoch % StepSize # 0 THEN lr ELSE lr \div 2
CosineAnnealingLR(s) == IF s.epoch = 0 THEN s.base ELSE Share(s.base, Wave(s.epoch, TMax))
WarmRestarts(s) == Share(s.base, Wave(s.cur, s.length))
OneCycleLR(s) ==
  IF s.epoch < WarmupSteps
  THEN BaseLR \div DivFactor + ((BaseLR - BaseLR \div DivFactor) * s.epoch) \div WarmupSteps
  ELSE BaseLR - ((BaseLR - BaseLR \div (DivFactor * DivFactor)) * (s.epoch - WarmupSteps))
                  \div WarmupSteps
\* Below zero after total_steps.
WarmupLR(s) ==
  IF s.epoch < WarmupSteps THEN (s.base * s.epoch) \div WarmupSteps
  ELSE (s.base * (TotalSteps - s.epoch)) \div (TotalSteps - WarmupSteps)

GetLR(s) ==
  CASE s.kind = "step" -> StepLR(s)         [] s.kind = "cosine" -> CosineAnnealingLR(s)
    [] s.kind = "restarts" -> WarmRestarts(s) [] s.kind = "onecycle" -> OneCycleLR(s)
    [] s.kind = "warmup" -> WarmupLR(s)

\* The position of the warm restarts after a step without an epoch.
Restarted(s) ==
  IF s.kind # "restarts" THEN s
  ELSE IF s.cur + 1 < s.length THEN [s EXCEPT !.cur = @ + 1]
  ELSE [s EXCEPT !.cur = 0, !.length = @ * 2]

Stepped(s) ==
  /\ s.epoch <= MaxEpoch /\ s.length <= 4 /\ (s.kind = "step" => lr % 2 = 0)
  /\ scheduler' = s /\ Set(GetLR(s))
  /\ UNCHANGED <<saved, world, trainer>>

SchedulerStep ==
  /\ scheduler # NoScheduler
  /\ Stepped([Restarted(scheduler) EXCEPT !.epoch = @ + 1])

SchedulerStepTo(epoch) ==
  /\ scheduler # NoScheduler
  /\ Stepped([scheduler EXCEPT !.epoch = epoch,
                               !.cur = IF scheduler.kind = "restarts" THEN epoch ELSE @])

\* With a last_epoch the constructor takes the next step.
NewScheduler(kind, last) ==
  LET s == [kind |-> kind, epoch |-> last, base |-> lr, cur |-> last, length |-> 2] IN
  /\ scheduler = NoScheduler
  /\ IF last # -1 THEN Stepped([Restarted(s) EXCEPT !.epoch = @ + 1])
     ELSE /\ scheduler' = s
          /\ UNCHANGED <<lr, saved, world, trainer, set>>
-----------------------------------------------------------------------------
\* state_dict() of both: of the scheduler it has only the epoch.
SchedulerStateDict ==
  /\ scheduler # NoScheduler /\ saved = NoScheduler
  /\ saved' = [lr |-> lr, epoch |-> scheduler.epoch]
  /\ UNCHANGED <<lr, scheduler, world, trainer, set>>

NewOptimizer ==
  /\ Set(BaseLR) /\ scheduler' = NoScheduler
  /\ UNCHANGED <<saved, world, trainer>>

LoadOptimizer ==
  /\ saved # NoScheduler /\ Set(saved.lr)
  /\ UNCHANGED <<scheduler, saved, world, trainer>>

LoadScheduler ==
  /\ NoScheduler \notin {scheduler, saved}
  /\ scheduler' = [scheduler EXCEPT !.epoch = saved.epoch]
  /\ UNCHANGED <<lr, saved, world, trainer, set>>
-----------------------------------------------------------------------------
\* The environment is given another number of workers.
Resize(n) ==
  /\ world' = n /\ n # world
  /\ UNCHANGED <<lr, scheduler, saved, trainer, set>>

HandleWorkerChange ==
  /\ world # trainer /\ (lr * world) % trainer = 0 /\ lr * world <= MaxLR * trainer
  /\ lr' = (lr * world) \div trainer /\ trainer' = world
  /\ UNCHANGED <<scheduler, saved, world, set>>

\* The process starts again, in the environment as it is; what it saved stays.
Restart ==
  /\ scheduler' = NoScheduler /\ trainer' = world
  /\ lr' = BaseLR /\ set' = [lr |-> BaseLR, world |-> world]
  /\ UNCHANGED <<saved, world>>

Kinds == {"step", "cosine", "restarts", "onecycle", "warmup"}

ScheduleNext ==
  \/ SchedulerStep \/ \E epoch \in 0..MaxEpoch : SchedulerStepTo(epoch)
  \/ \E kind \in Kinds, last \in {-1, 0} : NewScheduler(kind, last)
  \/ SchedulerStateDict \/ NewOptimizer \/ LoadOptimizer \/ LoadScheduler
  \/ \E n \in WorldSizes : Resize(n)
  \/ HandleWorkerChange \/ Restart

ScheduleSpec == ScheduleInit /\ [][ScheduleNext]_scheduleVars
-----------------------------------------------------------------------------
ScheduleTypeOK ==
  /\ {world, trainer, set.world} \subseteq WorldSizes /\ lr \in Int
  /\ scheduler # NoScheduler => /\ scheduler.epoch \in -1..MaxEpoch
                                /\ scheduler.cur <= MaxEpoch \/ scheduler.cur < scheduler.length

(* Scaling is exact: however often the workers change and are handled, the rate is the
   one that the scheduler, a loaded state or a new optimizer has set last, times the
   trainer's number of workers over the number when it was set. *)
RateScaled == lr * set.world = set.lr * trainer
=============================================================================
