--------------------------- MODULE MCApplications ---------------------------
\* What an application uses beside the node's interfaces, for TLC: keys, provenance,
\* proofs, wrappers, devices, models and their training, compliance.  A behaviour is one
\* of them, whose name is its part; they share nothing but the circuits, which the proofs
\* and the registry are about.
EXTENDS Wallet, Provenance, ProofPipeline, ModelRegistry, Integrations, DevicePool,
  CurrentDevice, DataParallel, Pipeline, Schedules, Layers, Modules, Optimizers,
  Compliance, Scrubber, Quantization

CONSTANT Parts    \* the parts that a run is of
CONSTANTS h1, h2, h3, o1, i1, v1, v2, k1, w1, w2, t1, t2, a1, a2   \* model values

MCFiles == {[suffix |-> ".pt", size |-> 1, directory |-> FALSE],
            [suffix |-> "", size |-> 1, directory |-> TRUE]}
MCValues == {[kind |-> "bytes", of |-> 1], [kind |-> "map", of |-> <<"__bytes__", 1>>],
             [kind |-> "set", of |-> {1, 2}]}
MCNewShapes == {<<2, 3>>, <<3>>}
MCInputShapes == {<<>>, <<3>>, <<3, 2>>, <<2, 3, 4>>}
MCSamples == {{}, {"credit_card"}, {"email", "ssn", "phone", "ip_address", "npi", "passport"}}
MCWidth == <<3, 1>>
MCScore == <<8, 9>>
MCBatchValues == -2..3

VARIABLE part

trustVars == <<walletVars, provenanceVars, circuits, date, production, attestations, proofs,
               chain, models, integrationVars>>
deviceSideVars == <<devicePoolVars, deviceVars, dataParallelVars, pipelineVars, scheduleVars>>
modelVars == <<tensors, layerVars, moduleVars, optimizerVars, quantizationVars>>
dataVars == <<complianceVars, scrubberVars>>
applicationVars == <<trustVars, deviceSideVars, modelVars, dataVars, part>>

\* What only one part chooses is fixed in the others.
TrustInit ==
  /\ WalletInit /\ ProofInit /\ chain = {} /\ models = {}
  /\ part # "proofs" => ~production
  /\ ProvenanceInit /\ (part # "provenance" => ~didkit)
  /\ IntegrationInit /\ (part \notin {"middleware", "wrapper"} => sink = "none")
  /\ part # "middleware" => ~web.processed

DeviceInit ==
  /\ DevicePoolInit /\ CurrentDeviceInit /\ (part # "device" => ~accelerator)
  /\ DataParallelInit /\ (part # "parallel" => sizes = <<>>)
  /\ PipelineInit /\ (part # "pipeline" => schedule = "gpipe" /\ microbatches = 1 /\ inputs = 0)
  /\ ScheduleInit /\ (part # "schedule" => world = 1)

ModelInit ==
  /\ TensorInit /\ LayerInit /\ (part # "layers" => x = <<>>)
  /\ ModuleInit /\ OptimizerInit /\ (part # "optimizer" => kind = "sgd")
  /\ CalibrationInit /\ (part # "calibration" => method = "min_max" /\ scheme = "symmetric")
  /\ ConversionInit /\ (part # "conversion" => /\ granularity = "per_tensor" /\ ~dynamic
                                               /\ \A pl \in Places : model[pl] = "plain")

DataInit ==
  /\ ComplianceInit
  /\ part # "compliance" => ~strict_mode /\ \A f \in ComplianceFrameworks : frameworks[f] = 0
  /\ ScrubberInit
  /\ part \notin {"sanitizer", "presidio"} => \A p \in Patterns : finds[p] = {} /\ operators[p] = "keep"

Init == part \in Parts /\ TrustInit /\ DeviceInit /\ ModelInit /\ DataInit
-----------------------------------------------------------------------------
PartOfTrust ==
  \/ part = "wallet" /\ WalletNext
     /\ UNCHANGED <<provenanceVars, proofVars, chain, models, integrationVars>>
  \/ part = "provenance" /\ ProvenanceNext
     /\ UNCHANGED <<walletVars, proofVars, chain, models, integrationVars>>
  \/ part = "circuits" /\ CircuitsNext
     /\ UNCHANGED <<walletVars, provenanceVars, date, production, attestations, proofs,
                    chain, models, integrationVars>>
  \/ part = "proofs" /\ ProofNext
     /\ UNCHANGED <<walletVars, provenanceVars, chain, models, integrationVars>>
  \/ part = "registry" /\ RegistryNext
     /\ UNCHANGED <<walletVars, provenanceVars, date, production, attestations, proofs,
                    integrationVars>>
  \/ part = "middleware" /\ MiddlewareNext
     /\ UNCHANGED <<walletVars, provenanceVars, proofVars, chain, models>>
  \/ part = "wrapper" /\ WrapperNext
     /\ UNCHANGED <<walletVars, provenanceVars, proofVars, chain, models>>

\* Nothing restores a device that somebody else has replaced: no further from there.
PartOfDevices ==
  \/ part = "pool" /\ DevicePoolNext
     /\ UNCHANGED <<deviceVars, dataParallelVars, pipelineVars, scheduleVars>>
  \/ part = "device" /\ ~disturbed /\ CurrentDeviceNext
     /\ UNCHANGED <<devicePoolVars, dataParallelVars, pipelineVars, scheduleVars>>
  \/ part = "parallel" /\ DataParallelNext
     /\ UNCHANGED <<devicePoolVars, deviceVars, pipelineVars, scheduleVars>>
  \/ part = "pipeline" /\ PipelineNext
     /\ UNCHANGED <<devicePoolVars, deviceVars, dataParallelVars, scheduleVars>>
  \/ part = "schedule" /\ ScheduleNext
     /\ UNCHANGED <<devicePoolVars, deviceVars, dataParallelVars, pipelineVars>>

PartOfModels ==
  \/ part = "tensors" /\ TensorNext
     /\ UNCHANGED <<layerVars, moduleVars, optimizerVars, quantizationVars>>
  \/ part = "layers" /\ LayerNext
     /\ UNCHANGED <<tensors, moduleVars, optimizerVars, quantizationVars>>
  \/ part = "modules" /\ ModuleNext
     /\ UNCHANGED <<tensors, layerVars, optimizerVars, quantizationVars>>
  \/ part = "optimizer" /\ OptimizerNext
     /\ UNCHANGED <<tensors, layerVars, moduleVars, quantizationVars>>
  \/ part = "calibration" /\ CalibrationNext
     /\ UNCHANGED <<tensors, layerVars, moduleVars, optimizerVars>>
  \/ part = "conversion" /\ ConversionNext
     /\ UNCHANGED <<tensors, layerVars, moduleVars, optimizerVars>>

PartOfData ==
  \/ part = "compliance" /\ ComplianceNext /\ UNCHANGED scrubberVars
  \/ part = "sanitizer" /\ Sanitize /\ UNCHANGED complianceVars
  \/ part = "presidio" /\ PresidioNext /\ UNCHANGED complianceVars

Next ==
  \/ PartOfTrust /\ UNCHANGED <<deviceSideVars, modelVars, dataVars, part>>
  \/ PartOfDevices /\ UNCHANGED <<trustVars, modelVars, dataVars, part>>
  \/ PartOfModels /\ UNCHANGED <<trustVars, deviceSideVars, dataVars, part>>
  \/ PartOfData /\ UNCHANGED <<trustVars, deviceSideVars, modelVars, part>>

Spec == Init /\ [][Next]_applicationVars
-----------------------------------------------------------------------------
(* The type invariants of the parts. *)
ApplicationsTypeOK ==
  /\ part = "wallet" => WalletTypeOK
  /\ part = "provenance" => ProvenanceTypeOK
  /\ part \in {"circuits", "proofs", "registry"} => CircuitsTypeOK /\ ProofTypeOK /\ RegistryTypeOK
  /\ part \in {"middleware", "wrapper"} => IntegrationTypeOK
  /\ part = "pool" => DevicePoolTypeOK
  /\ part = "device" => CurrentDeviceTypeOK
  /\ part = "parallel" => DataParallelTypeOK
  /\ part = "pipeline" => PipelineTypeOK
  /\ part = "schedule" => ScheduleTypeOK
  /\ part = "tensors" => TensorTypeOK
  /\ part = "layers" => LayerTypeOK
  /\ part = "modules" => ModuleTypeOK
  /\ part = "optimizer" => OptimizerTypeOK
  /\ part \in {"calibration", "conversion"} => QuantizationTypeOK
  /\ part = "compliance" => ComplianceTypeOK
  /\ part \in {"sanitizer", "presidio"} => ScrubberTypeOK

(* The device side: streams are handed out once, and the current device is restored. *)
DevicesShared == /\ part = "pool" => OneUserPerStream
                 /\ part = "device" => ContextRestored

(* Distributed training: parameters among buckets and ranks, micro-batches among stages,
   and what it goes on with after its workers, its state or its model have changed. *)
TrainingHolds == /\ part = "parallel" => DividedInOrder
                 /\ part = "pipeline" => StagesInOrder
                 /\ part = "schedule" => RateScaled
                 /\ part = "optimizer" => StateFollowsParameter

(* What a model is made of: tensors have the shapes they were promised with and stay in
   their storage, layers that fit keep the rows, a module loads what it saved, and
   quantization represents what calibration has seen. *)
ModelsHold == /\ part = "tensors" => PromiseKept /\ ViewsInBounds
              /\ part = "layers" => FitKeepsRows
              /\ part = "modules" => RoundTrip
              /\ part = "calibration" => ObservedInRange

(* Personal data: stricter checks find no less, and scrubbing is exact. *)
DataGuarded == /\ part = "compliance" => StricterFails
               /\ part \in {"sanitizer", "presidio"} => ScrubbedExactly
=============================================================================
