----------------------------- MODULE CurrentDevice -----------------------------
(***************************************************************************)
(* Which Device is the current one: the class attributes of Device, its    *)
(* context manager, and the Runtime (core/runtime.py), used by several     *)
(* threads without a lock.  A step is what a thread does between two       *)
(* accesses to what the threads share.                                     *)
(*                                                                         *)
(* Abstracted: what a device is (DevicePool), how hardware is detected,    *)
(* thread pools and profilers.                                             *)
(***************************************************************************)
EXTENDS Integers, Sequences, SequencesExt

CONSTANTS
  Objects,       \* Device objects, numbered in the order in which they are made
  Holding,       \* threads
  MaxDepth,      \* bound on open contexts
  NoDevice

ASSUME ObjectAssumption == Objects \subseteq Nat \ {0}

VARIABLES
  accelerator,   \* whether there is a GPU or a TEE
  made,          \* how many objects have been made
  single,        \* the object in Device._instances
  current,       \* Device._current
  stack,         \* _context_stack of each object
  thread,        \* what each thread is doing, with which device
  started,       \* Runtime._initialized
  inside,        \* history: the open contexts, in the order of entering
  base,          \* history: the current device outside of all contexts
  disturbed      \* history: whether threads met, or one initialized, in a context

deviceVars == <<accelerator, made, single, current, stack, thread, started, inside, base,
                disturbed>>

CurrentDeviceInit ==
  /\ accelerator \in BOOLEAN /\ made = 0 /\ started = FALSE
  /\ single = NoDevice /\ current = NoDevice /\ base = NoDevice
  /\ stack = [d \in Objects |-> <<>>] /\ inside = <<>> /\ disturbed = FALSE
  /\ thread = [t \in Holding |-> [at |-> "idle", device |-> NoDevice, was |-> NoDevice]]

Place(t, place) == thread[t].at = place
Moves(t, place) == thread' = [thread EXCEPT ![t].at = place]
MakeDevice == made + 1 \in Objects /\ made' = made + 1
\* Somebody is about to enter or to leave a context.
Amid == \E t \in Holding : Place(t, "enters") \/ Place(t, "exits")

\* Somebody sets Device._current otherwise.
SetCurrent(d) ==
  /\ current' = d
  /\ IF inside = <<>> /\ ~Amid THEN base' = d /\ UNCHANGED disturbed
                               ELSE disturbed' = TRUE /\ UNCHANGED base
-----------------------------------------------------------------------------
\* get_default() finds none set.
GetDefault(t) ==
  /\ Place(t, "idle") /\ current = NoDevice /\ Moves(t, "enumerates")
  /\ UNCHANGED <<accelerator, made, single, current, stack, started, inside, base, disturbed>>

\* The objects are new each time; a CPU is returned, but does not become the default.
EnumerateDevices(t) ==
  /\ Place(t, "enumerates") /\ MakeDevice /\ Moves(t, "idle")
  /\ IF accelerator THEN SetCurrent(made + 1) ELSE UNCHANGED <<current, base, disturbed>>
  /\ UNCHANGED <<accelerator, single, stack, started, inside>>

\* cpu() and tee() do not find the object they are asked for.
GetSingle(t) ==
  /\ Place(t, "idle") /\ single = NoDevice /\ Moves(t, "instantiates")
  /\ UNCHANGED <<accelerator, made, single, current, stack, started, inside, base, disturbed>>

Instantiate(t) ==
  /\ Place(t, "instantiates") /\ MakeDevice /\ Moves(t, "idle") /\ single' = made + 1
  /\ UNCHANGED <<accelerator, current, stack, started, inside, base, disturbed>>

\* Runtime.initialize() finds that it is the first call.
StartRuntime(t) ==
  /\ Place(t, "idle") /\ ~started /\ Moves(t, "starts")
  /\ UNCHANGED <<accelerator, made, single, current, stack, started, inside, base, disturbed>>

\* With a default device, or the first of those it enumerates.
RuntimeStarted(t) ==
  /\ Place(t, "starts") /\ Moves(t, "idle") /\ started' = TRUE
  /\ \/ MakeDevice /\ SetCurrent(made + 1)
     \/ \E d \in 1..made : SetCurrent(d) /\ UNCHANGED made
  /\ UNCHANGED <<accelerator, single, stack, inside>>

Shutdown(t) ==
  /\ Place(t, "idle") /\ started /\ started' = FALSE
  /\ UNCHANGED <<accelerator, made, single, current, stack, thread, inside, base, disturbed>>
-----------------------------------------------------------------------------
Enter(t, d) ==
  /\ Place(t, "idle") /\ d <= made /\ Len(inside) < MaxDepth
  /\ stack' = [stack EXCEPT ![d] = Append(@, current)]
  /\ thread' = [thread EXCEPT ![t].at = "enters", ![t].device = d]
  /\ disturbed' = (disturbed \/ Amid)
  /\ UNCHANGED <<accelerator, made, single, current, started, inside, base>>

Entered(t) ==
  /\ Place(t, "enters") /\ Moves(t, "idle")
  /\ current' = thread[t].device /\ inside' = Append(inside, <<t, thread[t].device>>)
  /\ UNCHANGED <<accelerator, made, single, stack, started, base, disturbed>>

\* The innermost context of the thread.
Innermost(t) == SelectLastInSeq(inside, LAMBDA c : c[1] = t)

Exit(t) ==
  LET d == inside[Innermost(t)][2] IN
  /\ Place(t, "idle") /\ Innermost(t) # 0 /\ stack[d] # <<>>
  /\ thread' = [thread EXCEPT ![t].at = "exits", ![t].was = Last(stack[d])]
  /\ stack' = [stack EXCEPT ![d] = Front(@)]
  /\ disturbed' = (disturbed \/ Amid \/ Innermost(t) # Len(inside))
  /\ UNCHANGED <<accelerator, made, single, current, started, inside, base>>

Exited(t) ==
  /\ Place(t, "exits") /\ Moves(t, "idle")
  /\ current' = thread[t].was /\ inside' = RemoveAt(inside, Innermost(t))
  /\ UNCHANGED <<accelerator, made, single, stack, started, base, disturbed>>

CurrentDeviceNext ==
  \E t \in Holding :
    \/ GetDefault(t) \/ EnumerateDevices(t) \/ GetSingle(t) \/ Instantiate(t)
    \/ StartRuntime(t) \/ RuntimeStarted(t) \/ Shutdown(t)
    \/ Entered(t) \/ Exit(t) \/ Exited(t)
    \/ \E d \in Objects : Enter(t, d)

CurrentDeviceSpec == CurrentDeviceInit /\ [][CurrentDeviceNext]_deviceVars
-----------------------------------------------------------------------------
CurrentDeviceTypeOK ==
  /\ {single, current, base} \subseteq (1..made) \cup {NoDevice} /\ made \in Objects \cup {0}
  /\ \A d \in Objects : ToSet(stack[d]) \subseteq (1..made) \cup {NoDevice}

(* As long as contexts are left in the reverse order of entering, whichever threads
   enter them, and nobody comes between, the current device is that of the context
   entered last, and outside of all contexts what it was before. *)
ContextRestored ==
  ~disturbed => current = IF inside = <<>> THEN base ELSE Last(inside)[2]
=============================================================================
