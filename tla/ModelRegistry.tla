---------------------------- MODULE ModelRegistry ----------------------------
(***************************************************************************)
(* The client of the model registry (models/registry.py): what the chain   *)
(* keeps of a circuit, and the RegisteredModel objects that an application *)
(* holds of it.  The chain is external: it has one model per model hash,   *)
(* and decides when a model becomes active.                                *)
(*                                                                         *)
(* Abstracted: names, owners, tags and the other metadata, pages.          *)
(***************************************************************************)
EXTENDS Circuits

CONSTANT MaxModels

VARIABLES
  chain,
  models     \* RegisteredModel objects

registryVars == <<circuits, chain, models>>

Registered(circuit, status) ==
  [model |-> circuit.model, vkHash |-> Hash("bytes", circuit.vk),
   binaryHash |-> Hash("bytes", circuit.binary), framework |-> circuit.framework,
   status |-> status]

RegistryInit == CircuitsInit /\ chain = {} /\ models = {}

BuildForRegistry == CircuitsNext /\ UNCHANGED <<chain, models>>

\* Mutant: the hash of the proving key.
RegisterProvingKey(circuit) ==
  /\ Cardinality(chain) < MaxModels
  /\ \A m \in chain : m.model # circuit.model
  /\ \E status \in {"pending", "active"} :
       chain' = chain \cup {[Registered(circuit, status) EXCEPT !.vkHash = circuit.pkHash]}
  /\ models' = models \cup {Registered(circuit, "active")}
  /\ UNCHANGED circuits

\* register(): the object says active, whatever the chain says now or later.
Register(circuit) ==
  /\ Cardinality(chain) < MaxModels
  /\ \A m \in chain : m.model # circuit.model
  /\ \E status \in {"pending", "active"} : chain' = chain \cup {Registered(circuit, status)}
  /\ models' = models \cup {Registered(circuit, "active")}
  /\ UNCHANGED circuits

Activate(m) ==
  /\ m \in chain /\ m.status = "pending"
  /\ chain' = (chain \ {m}) \cup {[m EXCEPT !.status = "active"]}
  /\ UNCHANGED <<circuits, models>>

\* get(), get_by_hash(), list(), and update_metadata() once it has submitted.
GetModel(m) ==
  /\ m \in chain /\ models' = models \cup {m}
  /\ UNCHANGED <<circuits, chain>>

Deprecate(m) ==
  /\ m \in chain
  /\ chain' = (chain \ {m}) \cup {[m EXCEPT !.status = "deprecated"]}
  /\ UNCHANGED <<circuits, models>>

RegistryNext ==
  \/ BuildForRegistry
  \/ \E c \in circuits : Register(c)
  \/ \E m \in chain : Activate(m) \/ GetModel(m) \/ Deprecate(m)

RegistrySpec == RegistryInit /\ [][RegistryNext]_registryVars
-----------------------------------------------------------------------------
RegistryTypeOK ==
  \A m \in chain \cup models :
    /\ m.status \in {"pending", "active", "deprecated"}
    /\ m.vkHash \in {Hash("bytes", c.vk) : c \in circuits}
=============================================================================
