---------------------------- MODULE ProofPipeline ----------------------------
(***************************************************************************)
(* From a circuit to a verdict: ProofGenerator (proofs/generator.py), and  *)
(* the TEE, zkML and unified verifiers (proofs/verifier.py), which keep no *)
(* state: a verdict is a function of the state in which it is asked for.   *)
(*                                                                         *)
(* External: the enclaves that attest, and circuits and proofs of other    *)
(* origin.  The proofs themselves are simulated in the code: with          *)
(* AETHELRED_PRODUCTION_MODE set, both sides raise.                        *)
(*                                                                         *)
(* Abstracted: certificates and quotes (the code accepts any), times and   *)
(* sizes that are estimated, names and descriptions, error texts.          *)
(***************************************************************************)
EXTENDS Circuits

CONSTANTS
  LastDate,     \* bound on time, in days
  MaxAge,       \* max_attestation_age: the last day on which it is fresh
  MaxProofs,
  AttestedBy,   \* platforms, known to the verifier or not
  Absent

VARIABLES
  date, production, attestations, proofs

proofVars == <<circuits, date, production, attestations, proofs>>

ProofSystems == {"groth16", "plonk", "ezkl", "stark", "unspecified"}
Backends == ProofSystems \ {"unspecified"}
Platforms == {"sgx", "sev", "sev_snp", "tdx", "nitro"}
Outputs == {"placeholder", "output"}

ASSUME ProofAssumption == /\ LastDate \in Nat /\ MaxAge \in Nat
                          /\ \A output \in Outputs : Hash("output", output) # Absent

ProofInit ==
  /\ CircuitsInit /\ date = 0 /\ production \in BOOLEAN
  /\ attestations = {} /\ proofs = {}

NextDate ==
  /\ date < LastDate /\ date' = date + 1
  /\ UNCHANGED <<circuits, production, attestations, proofs>>

Build ==
  CircuitsNext /\ UNCHANGED <<date, production, attestations, proofs>>

\* An application builds a Circuit itself, with keys that belong together.
OwnCircuit(file, input) ==
  /\ MayMake
  /\ Make(Circuit("application", "pytorch", file, input, 8,
                  [vk |-> "OWN_KEY", pkHash |-> Hash("bytes", "OWN_KEY"), binary |-> "OWN_BINARY"]))
  /\ UNCHANGED <<date, production, attestations, proofs>>
-----------------------------------------------------------------------------
\* An enclave attests, perhaps to an output; its clock may be ahead.
Attest(platform, at, output) ==
  /\ attestations = {}
  /\ attestations' = {[platform |-> platform, at |-> at,
                       data |-> IF output = Absent THEN Absent ELSE Hash("output", output)]}
  /\ UNCHANGED <<circuits, date, production, proofs>>

AddProof(p) ==
  /\ Cardinality(proofs) < MaxProofs /\ proofs' = proofs \cup {p}
  /\ UNCHANGED <<circuits, date, production, attestations>>

\* Mutant: the hashes of the key and of the circuit change places.
ProveSwapsHashes(circuit, input, output) ==
  [inputs |-> <<Hash("input", input), Hash("output", output)>>,
   vkHash |-> Hash("bytes", circuit.binary), circuitHash |-> circuit.pkHash]

\* _prove_groth16() and the others: they differ in a prefix.
Prove(circuit, input, output) ==
  [inputs |-> <<Hash("input", input), Hash("output", output)>>, vkHash |-> circuit.pkHash,
   circuitHash |-> Hash("bytes", circuit.binary)]

\* generate(), one by one in generate_batch(): the model is not run, so without
\* output_data the output is a placeholder; a config does not choose the system.
Generated(circuit, input, output, attestation) ==
  [type |-> IF attestation = Absent THEN "zkml" ELSE "hybrid",
   zk |-> Prove(circuit, input, output), tee |-> attestation,
   inputHash |-> Hash("input", input), outputHash |-> Hash("output", output), modelHash |-> circuit.model]

\* generate() and generate_hybrid(), which adds an attestation that it does not read.
Generate(circuit, input, output, system, attestation) ==
  /\ system \in Backends /\ ~production
  /\ input = circuit.input
  /\ attestation # Absent => output = "placeholder"
  /\ AddProof(Generated(circuit, input, output, attestation))

\* A proof that a validator made in an enclave.
TEEProof(attestation, input, output, file) ==
  AddProof([type |-> "tee", zk |-> Absent, tee |-> attestation, inputHash |-> Hash("input", input),
            outputHash |-> Hash("output", output), modelHash |-> Hash("file", file)])
-----------------------------------------------------------------------------
Fresh(attestation, day) == day - attestation.at <= MaxAge

TEEVerify(attestation, expectedData, day) ==
  CASE ~Fresh(attestation, day) -> "expired"
    [] attestation.platform \notin Platforms -> "unknown"
    [] expectedData \notin {Absent, attestation.data} -> "invalid"
    [] OTHER -> "valid"

\* The stub accepts any proof, except that in production it raises.
ZKVerify(zk, key) ==
  IF zk.inputs # <<>> /\ Hash("bytes", key) = zk.vkHash /\ ~production THEN "valid" ELSE "invalid"

TEEStatus(p, day) ==
  IF p.tee = Absent THEN "invalid" ELSE TEEVerify(p.tee, p.outputHash, day)
\* Asked of proofs that generate() made, which have such a part.
ZKStatus(p, key) == IF key = "" THEN "invalid" ELSE ZKVerify(p.zk, key)

\* Unlike a TEE proof, a hybrid one is not compared with what the enclave attested.
HybridStatus(p, key, day) ==
  IF /\ p.tee # Absent /\ TEEVerify(p.tee, Absent, day) = "valid"
     /\ ZKStatus(p, key) = "valid"
  THEN "valid" ELSE "invalid"

\* verify(): what is expected is looked at before the proof.
Status(p, key, expected, day) ==
  IF \E field \in DOMAIN expected : expected[field] # p[field] THEN "invalid"
  ELSE CASE p.type = "tee"    -> TEEStatus(p, day)
         [] p.type = "zkml"   -> ZKStatus(p, key)
         [] p.type = "hybrid" -> HybridStatus(p, key, day)

ProofNext ==
  \/ NextDate \/ Build
  \/ \E file \in Files, input \in Inputs :
       \/ OwnCircuit(file, input)
       \/ \E a \in attestations, output \in Outputs : TEEProof(a, input, output, file)
  \/ \E c \in circuits, input \in Inputs, output \in Outputs, system \in ProofSystems,
        a \in attestations \cup {Absent} : Generate(c, input, output, system, a)
  \/ \E platform \in AttestedBy, at \in {0, LastDate}, output \in Outputs \cup {Absent} :
       Attest(platform, at, output)

ProofSpec == ProofInit /\ [][ProofNext]_proofVars
-----------------------------------------------------------------------------
ProofTypeOK ==
  /\ CircuitsTypeOK /\ date \in 0..LastDate /\ production \in BOOLEAN
  /\ \A a \in attestations : a.platform \in AttestedBy /\ a.at \in 0..LastDate
  /\ \A p \in proofs : p.type \in {"zkml", "tee", "hybrid"} /\ p.tee \in attestations \cup {Absent}

\* What a caller may expect of a proof: any fields, and perhaps one of them wrongly.
Expectations(p) ==
  LET fields == {"inputHash", "outputHash", "modelHash"} IN
  {[f \in given |-> IF f = wrong THEN Hash(f, Absent) ELSE p[f]] :
     given \in SUBSET fields, wrong \in fields \cup {"none"}}

AsExpected(p, expected) == \A field \in DOMAIN expected : expected[field] = p[field]
WellAttested(p) == p.tee # Absent => p.tee.platform \in Platforms /\ date <= p.tee.at + MaxAge

(* From generate() to verify(), for circuits that the application built with keys that
   belong together: whoever has the key finds their proofs valid if and only if all that
   he expects of the proof is so, and the enclave that attested, if any, is known and did
   so recently.  Nothing is said of the circuits that the tools make, whose proofs no
   key of theirs verifies, nor of who made an attestation or a proof, which are not
   looked at. *)
ProofsHoldUp ==
  \A c \in circuits, p \in proofs, output \in Outputs :
    c.tool = "application" /\ p = Generated(c, c.input, output, p.tee) =>
      \A expected \in Expectations(p) :
        Status(p, c.vk, expected, date) = "valid" <=> AsExpected(p, expected) /\ WellAttested(p)
=============================================================================
