---------------------------------- MODULE Modules ----------------------------------
(***************************************************************************)
(* The tree of an nn.Module (nn/__init__.py): what attributes register,    *)
(* what named_parameters() and state_dict() list and what                  *)
(* load_state_dict() expects. A parameter may be tied: held under several  *)
(* names of a module, or by several modules.                               *)
(*                                                                         *)
(* Abstracted: the values of parameters and buffers, which load_state_dict *)
(* leaves as they are; hooks; train(); a module shared by two parents is   *)
(* one module, with a key for each way to it.                              *)
(***************************************************************************)
EXTENDS Integers, Sequences, FiniteSets, SequencesExt

CONSTANTS
  Mods,        \* the modules, numbered so that a parent comes before its children
  Names,       \* attribute names, 0..k: the containers' keys are numbers
  Parameters,  \* the Parameter objects there are to register
  MaxPlain,    \* bound on the ordinary attributes
  Nothing

ASSUME ModuleAssumption ==
  /\ Cardinality(Mods) \in Nat /\ Mods = 1..Cardinality(Mods)
  /\ Nothing \notin {"kept", "volatile"} /\ Nothing \notin Parameters

VARIABLES
  params,      \* _parameters of each module: the parameter by name, or Nothing
  order,       \* the names in _parameters of each module, in the order of that dictionary
  buffers,     \* _buffers of each module: "kept" or "volatile" by name, or Nothing
  children,    \* _modules of each module
  plain        \* the names that are ordinary attributes of each module

moduleVars == <<params, order, buffers, children, plain>>

ModuleInit ==
  /\ params = [m \in Mods |-> [n \in Names |-> Nothing]]
  /\ order = [m \in Mods |-> <<>>] /\ plain = [m \in Mods |-> {}]
  /\ buffers = [m \in Mods |-> [n \in Names |-> Nothing]]
  /\ children = [m \in Mods |-> [n \in Names |-> Nothing]]

Child(m, n) == children[m][n]
-----------------------------------------------------------------------------
\* __setattr__: what registers itself under a name takes it from the others; a name that has a
\* parameter already keeps its place.
SetParameter(m, n, p) ==
  /\ params' = [params EXCEPT ![m][n] = p]
  /\ order' = [order EXCEPT ![m] = IF params[m][n] = Nothing THEN Append(@, n) ELSE @]
  /\ plain' = [plain EXCEPT ![m] = @ \ {n}]
  /\ buffers' = [buffers EXCEPT ![m][n] = Nothing]
  /\ children' = [children EXCEPT ![m][n] = Nothing]

Unregister(m, n) ==
  /\ params' = [params EXCEPT ![m][n] = Nothing]
  /\ order' = [order EXCEPT ![m] = RemoveFirst(@, n)]

SetBuffer(m, n, kind) ==
  /\ buffers' = [buffers EXCEPT ![m][n] = kind]
  /\ plain' = [plain EXCEPT ![m] = @ \ {n}] /\ Unregister(m, n)
  /\ children' = [children EXCEPT ![m][n] = Nothing]

SetModule(m, n, c) ==
  /\ m < c /\ children' = [children EXCEPT ![m][n] = c]
  /\ plain' = [plain EXCEPT ![m] = @ \ {n}] /\ Unregister(m, n)
  /\ buffers' = [buffers EXCEPT ![m][n] = Nothing]

\* Any other value hides what is registered, which stays.
SetPlain(m, n) ==
  /\ n \notin plain[m] /\ \A k \in Mods \ {m} : plain[k] = {}
  /\ Cardinality(plain[m]) < MaxPlain /\ plain' = [plain EXCEPT ![m] = @ \cup {n}]
  /\ UNCHANGED <<params, order, buffers, children>>

\* What is registered goes first.
DelAttr(m, n) ==
  \/ params[m][n] # Nothing /\ Unregister(m, n) /\ UNCHANGED <<buffers, children, plain>>
  \/ params[m][n] = Nothing /\ UNCHANGED <<params, order>>
     /\ \/ /\ buffers[m][n] # Nothing /\ buffers' = [buffers EXCEPT ![m][n] = Nothing]
           /\ UNCHANGED <<children, plain>>
        \/ /\ buffers[m][n] = Nothing /\ Child(m, n) # Nothing
           /\ children' = [children EXCEPT ![m][n] = Nothing] /\ UNCHANGED <<buffers, plain>>
        \/ /\ buffers[m][n] = Nothing /\ Child(m, n) = Nothing /\ n \in plain[m]
           /\ plain' = [plain EXCEPT ![m] = @ \ {n}] /\ UNCHANGED <<buffers, children>>

\* append() of the containers, which have no parameters or buffers of their own: under the
\* number of the modules there are, which after a deletion may be taken.
AppendModule(m, c) ==
  LET n == Cardinality({k \in Names : Child(m, k) # Nothing}) IN
  /\ m < c /\ n \in Names /\ params[m][n] = Nothing /\ buffers[m][n] = Nothing
  /\ children' = [children EXCEPT ![m][n] = c]
  /\ UNCHANGED <<params, order, buffers, plain>>
-----------------------------------------------------------------------------
\* What own[m] has of each module m below and including one, with the names on the way.
Paths(own, below) ==
  LET f[m \in Mods] ==
        {<<n>> : n \in own[m]} \cup
        UNION {{<<n>> \o path : path \in f[below[m][n]]} : n \in {k \in Names : below[m][k] # Nothing}}
  IN f

ParameterNames == [m \in Mods |-> {n \in Names : params[m][n] # Nothing}]
Kept == [m \in Mods |-> {n \in Names : buffers[m][n] = "kept"}]
AnyBuffer == [m \in Mods |-> {n \in Names : buffers[m][n] # Nothing}]

\* The memo of named_parameters(), one for each module: the i-th name of _parameters is listed
\* unless an earlier one has the same parameter.
FirstName(m, i) == \A j \in 1..(i - 1) : params[m][order[m][j]] # params[m][order[m][i]]
ListedNames == [m \in Mods |-> {order[m][i] : i \in {j \in DOMAIN order[m] : FirstName(m, j)}}]

NamedParameters(m) == Paths(ListedNames, children)[m]
NamedBuffers(m) == Paths(AnyBuffer, children)[m]

ModuleStateDict(m) == Paths([k \in Mods |-> ParameterNames[k] \cup Kept[k]], children)[m]

\* load_state_dict() with strict: the keys it misses and those it does not expect.
Wanted(m) == Paths(ParameterNames, children)[m] \cup Paths(Kept, children)[m]
LoadModuleState(m, keys) == [missing |-> Wanted(m) \ keys, unexpected |-> keys \ Wanted(m)]

ModuleNext ==
  \/ \E m \in Mods, n \in Names :
       \/ SetPlain(m, n) \/ DelAttr(m, n)
       \/ \E p \in Parameters : SetParameter(m, n, p)
       \/ \E kind \in {"kept", "volatile"} : SetBuffer(m, n, kind)
       \/ \E c \in Mods : SetModule(m, n, c)
  \/ \E m, c \in Mods : AppendModule(m, c)

ModuleSpec == ModuleInit /\ [][ModuleNext]_moduleVars
-----------------------------------------------------------------------------
ModuleTypeOK ==
  \A m \in Mods, n \in Names :
    /\ Child(m, n) = Nothing \/ Child(m, n) \in {c \in Mods : c > m}
    /\ params[m][n] # Nothing => buffers[m][n] = Nothing
    /\ (params[m][n] # Nothing \/ buffers[m][n] # Nothing) => Child(m, n) = Nothing

(* Whatever has been set, tied, hidden, deleted or appended: the dictionary that a module's
   state_dict() returns is what its load_state_dict() wants, no key less or more; each key is
   the name of a registered parameter or of a buffer; and what named_parameters() yields, from
   which an optimizer is made, is all saved, with each parameter that a module holds there
   under one of its names and no other. *)
RoundTrip ==
  \A m \in Mods :
    /\ LoadModuleState(m, ModuleStateDict(m)) = [missing |-> {}, unexpected |-> {}]
    /\ ModuleStateDict(m) \subseteq Paths(ParameterNames, children)[m] \cup NamedBuffers(m)
    /\ NamedParameters(m) \subseteq ModuleStateDict(m)
    /\ \A n \in ParameterNames[m] :
         \E k \in ListedNames[m] : \A l \in ListedNames[m] : params[m][l] = params[m][n] <=> l = k
=============================================================================
