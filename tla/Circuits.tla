------------------------------- MODULE Circuits -------------------------------
(***************************************************************************)
(* From a model file to a circuit: ModelConverter (models/converter.py)    *)
(* and HardwareCompiler with its three strategies                          *)
(* (models/hardware_compiler.py).  Each call is one action; a call that    *)
(* raises changes nothing, so its condition is a guard.                    *)
(*                                                                         *)
(* Both tools stand for others (ezkl, Vitis AI, TensorRT): the binary and  *)
(* the keys are the constants of the code, SHA-256 is injective.           *)
(*                                                                         *)
(* Abstracted: shapes (an input has a number of elements), metrics and     *)
(* estimates, intermediate and saved files, the optimization options.      *)
(***************************************************************************)
EXTENDS Integers, FiniteSets

CONSTANTS
  Files,        \* model files: their suffix, size in MB, and whether a directory
  Inputs,       \* numbers of elements of an input
  Bits,         \* quantization_bits that are asked for
  MaxCircuits

VARIABLE circuits

\* The inputs, outputs, files and bytes that are hashed differ from one another.
Hash(kind, x) == [k \in {kind} |-> x]

Classical == {"sklearn", "xgboost", "lightgbm"}
Frameworks == {"pytorch", "tensorflow", "onnx", "keras"} \cup Classical
SupportedBits == {4, 8, 16, 32}

\* The framework that a file name stands for.
DetectFramework(file) ==
  CASE file.suffix \in {".pt", ".pth", ".ckpt"} -> "pytorch"
    [] file.suffix = ".onnx" -> "onnx"
    [] file.suffix = ".h5" -> "tensorflow"
    [] file.suffix = ".keras" -> "keras"
    [] file.suffix \in {".pkl", ".joblib"} -> "sklearn"
    [] file.suffix \in {".json", ".ubj", ".model"} -> "xgboost"
    [] file.suffix = ".txt" -> "lightgbm"
    [] OTHER -> IF file.directory THEN "tensorflow" ELSE "unknown"

\* _generate_keys(): the two keys have nothing in common.
ConverterKeys == [vk |-> "VERIFICATION_KEY_PLACEHOLDER",
                  pkHash |-> Hash("bytes", "PROVING_KEY_PLACEHOLDER"),
                  binary |-> "CIRCUIT_BINARY_PLACEHOLDER"]
CompilerKeys(binary) ==
  [vk |-> "VERIFICATION_KEY", pkHash |-> Hash("bytes", "proving_key"), binary |-> binary]
NoKeys == [vk |-> "", pkHash |-> <<>>, binary |-> ""]

Circuit(tool, framework, file, input, bits, keys) ==
  [tool |-> tool, framework |-> framework, model |-> Hash("file", file), input |-> input,
   bits |-> bits, vk |-> keys.vk, pkHash |-> keys.pkHash, binary |-> keys.binary]

Make(circuit) == circuits' = circuits \cup {circuit}
MayMake == Cardinality(circuits) < MaxCircuits

CircuitsInit == circuits = {}
-----------------------------------------------------------------------------
\* The hash needs a file: a directory, as TensorFlow saves one, raises in the end.
Convert(file, framework, input, bits) ==
  /\ ~file.directory
  /\ Make(Circuit("converter", framework, file, input, bits, ConverterKeys))

\* from_pytorch(), from_tensorflow()
FromNetwork(file, framework, input, bits) ==
  /\ framework \in {"pytorch", "tensorflow"} /\ bits \in SupportedBits
  /\ Convert(file, framework, input, bits)

\* from_onnx(), and from_sklearn(), from_xgboost(), from_lightgbm(), which do not
\* quantize and say 16.
FromOther(file, framework, input, bits) ==
  /\ \/ framework = "onnx" /\ bits \in SupportedBits
     \/ framework \in Classical /\ bits = 16
  /\ Convert(file, framework, input, bits)

\* from_config() and convert_with_calibration(), with a framework or without;
\* the latter does not validate its configuration.
FromConfig(file, framework, input, bits, calibrated) ==
  /\ bits \in SupportedBits \/ calibrated
  /\ LET known == IF framework = "detect" THEN DetectFramework(file) ELSE framework IN
     known \in Frameworks /\ Convert(file, known, input, bits)
-----------------------------------------------------------------------------
Vitis == {"xilinx_u280", "xilinx_u55c"}
TensorRT == {"nvidia_a100", "nvidia_h100", "nvidia_l40s"}
TEE == {"intel_sgx", "amd_sev_snp", "intel_tdx", "aws_nitro"}
Targets == Vitis \cup TensorRT \cup TEE \cup {"cpu", "auto"}
Precisions == {"fp32", "fp16", "int8", "int4", "mixed", "auto"}
Profiles == {"latency", "throughput", "balanced", "power_efficient", "cost_optimized"}

\* What a profile says of a target; 0 is no limit.  Two targets have no profile.
Profiled == (Vitis \cup TensorRT \cup TEE) \ {"nvidia_l40s", "intel_tdx"}
SupportsInt4 == Vitis \cup {"nvidia_h100"}
TEEMemory(target) ==
  CASE target = "intel_sgx" -> 256 [] target = "aws_nitro" -> 8192 [] OTHER -> 0

SelectOptimalTarget(input, profile) ==
  CASE profile \in {"latency", "power_efficient"} -> "xilinx_u280"
    [] profile = "throughput" -> IF input > 100000 THEN "nvidia_h100" ELSE "nvidia_a100"
    [] profile = "cost_optimized" -> "aws_nitro"
    [] OTHER -> IF input < 10000 THEN "xilinx_u280"
                ELSE IF input < 100000 THEN "nvidia_a100" ELSE "nvidia_h100"

\* The strategies say what they were asked for, not always what they did.
CompileVitis(file, input, target, zkml) ==
  /\ target \in Vitis
  /\ Make(Circuit(target, "vitis_ai", file, input, 8,
                  IF zkml THEN CompilerKeys("FPGA_CIRCUIT_BINARY") ELSE NoKeys))

CompileTensorRT(file, input, target, precision, zkml) ==
  /\ target \in TensorRT
  /\ Make(Circuit(target, "tensorrt", file, input,
                  IF precision \in {"int8", "auto"} THEN 8 ELSE 16,
                  IF zkml THEN CompilerKeys("GPU_CIRCUIT_BINARY") ELSE NoKeys))

\* Whatever enable_zkml is.
CompileTEE(file, input, target) ==
  /\ target \in TEE
  /\ TEEMemory(target) # 0 => file.size <= TEEMemory(target)
  /\ Make(Circuit(target, "tee", file, input, 32, CompilerKeys("TEE_CIRCUIT_BINARY")))

Compile(file, input, asked, profile, precision, zkml) ==
  LET target == IF asked = "auto" THEN SelectOptimalTarget(input, profile) ELSE asked IN
  /\ ~file.directory /\ target \in Profiled
  /\ precision = "int4" => target \in SupportsInt4
  /\ \/ CompileVitis(file, input, target, zkml)
     \/ CompileTensorRT(file, input, target, precision, zkml)
     \/ CompileTEE(file, input, target)

CircuitsNext ==
  MayMake /\ \E file \in Files, input \in Inputs :
    \/ \E framework \in Frameworks \cup {"detect"}, bits \in Bits :
         \/ FromNetwork(file, framework, input, bits) \/ FromOther(file, framework, input, bits)
         \/ \E calibrated \in BOOLEAN : FromConfig(file, framework, input, bits, calibrated)
    \/ \E target \in Targets, profile \in Profiles, precision \in Precisions, zkml \in BOOLEAN :
         Compile(file, input, target, profile, precision, zkml)

CircuitsSpec == CircuitsInit /\ [][CircuitsNext]_circuits
-----------------------------------------------------------------------------
CircuitsTypeOK ==
  \A c \in circuits : /\ c.model \in {Hash("file", f) : f \in Files} /\ c.input \in Inputs
                      /\ c.bits \in Bits \cup SupportedBits
=============================================================================
