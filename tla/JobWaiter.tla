------------------------------- MODULE JobWaiter -------------------------------
(***************************************************************************)
(* JobsModule.wait_for_completion() (aethelred/jobs/__init__.py): asks for *)
(* the status of a job until it is terminal, and counts the seconds that   *)
(* it slept against the timeout.                                           *)
(*                                                                         *)
(* Time is in ticks.  A request takes up to Slow ticks, and the server     *)
(* reads the status at some moment of it.                                  *)
(***************************************************************************)
EXTENDS Integers

CONSTANTS
  PollInterval,
  Timeout,
  Slow,
  Never          \* a job that is not done by this tick counts as never done

ASSUME JobAssumption ==
  /\ PollInterval \in Nat \ {0} /\ Timeout \in Nat /\ Slow \in Nat
  /\ Never \in Nat

VARIABLES
  clock,
  doneAt,     \* the tick at which the job becomes completed, failed or cancelled
  elapsed,
  waiter

jobVars == <<clock, doneAt, elapsed, waiter>>

JobInit ==
  /\ clock = 0 /\ doneAt \in 0..Never
  /\ elapsed = 0 /\ waiter = "checks"

Check ==
  /\ waiter = "checks"
  /\ waiter' = IF elapsed < Timeout THEN "asks" ELSE "timed_out"
  /\ UNCHANGED <<clock, doneAt, elapsed>>

\* get(): the status is read after d ticks and received after another e.
Ask ==
  /\ waiter = "asks"
  /\ \E d \in 0..Slow : \E e \in 0..(Slow - d) :
       /\ clock' = clock + d + e
       /\ waiter' = IF doneAt <= clock + d THEN "returned" ELSE "sleeps"
  /\ UNCHANGED <<doneAt, elapsed>>

AskFails ==
  /\ waiter = "asks"
  /\ waiter' = "raised"
  /\ UNCHANGED <<clock, doneAt, elapsed>>

\* Mutant: the last sleep is cut short.
SleepsShort ==
  /\ waiter = "sleeps"
  /\ clock' = clock + PollInterval
  /\ elapsed' = elapsed + 2 * PollInterval
  /\ waiter' = "checks"
  /\ UNCHANGED doneAt

Sleep ==
  /\ waiter = "sleeps"
  /\ clock' = clock + PollInterval
  /\ elapsed' = elapsed + PollInterval
  /\ waiter' = "checks"
  /\ UNCHANGED doneAt

JobNext == Check \/ Ask \/ AskFails \/ Sleep
JobSpec == JobInit /\ [][JobNext]_jobVars
-----------------------------------------------------------------------------
JobTypeOK ==
  /\ clock \in Nat /\ doneAt \in 0..Never /\ elapsed \in Nat
  /\ waiter \in {"checks", "asks", "sleeps", "returned", "raised", "timed_out"}

(* "TimeoutError: If job doesn't complete within timeout": the error never comes before
   the timeout is over, and never for a job that was complete from the start; what is
   returned is complete.  Two promises are not kept, and not claimed: "maximum seconds
   to wait" (the time of the requests is not counted), and that a job which completes
   within the timeout is returned (not one that does during the last sleep). *)
TimeoutNotEarly ==
  /\ waiter = "timed_out" => clock >= Timeout /\ (Timeout > 0 => doneAt > 0)
  /\ waiter = "returned" => doneAt <= clock
=============================================================================
