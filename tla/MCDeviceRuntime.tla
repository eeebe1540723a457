---------------------------- MODULE MCDeviceRuntime ----------------------------
\* The parts of the device runtime, for TLC: a behaviour is one of the pool, of
\* the streams, or of the cache, which share nothing.
EXTENDS MCMemoryPool, MCStreams, JITCache

CONSTANTS c1, c2, k1, k2, k3

VARIABLE part

allVars == <<poolVars, streamVars, cacheVars, part>>

Init == /\ part \in {"pool", "streams", "cache"}
        /\ PoolInit /\ StreamInit /\ CacheInit

PartOfPool == part = "pool" /\ PoolNext /\ UNCHANGED <<streamVars, cacheVars, part>>
PartOfStreams ==
  part = "streams" /\ StreamNext /\ UNCHANGED <<poolVars, cacheVars, part>>
PartOfCache == part = "cache" /\ CacheNext /\ UNCHANGED <<poolVars, streamVars, part>>

Next == PartOfPool \/ PartOfStreams \/ PartOfCache
Spec == Init /\ [][Next]_allVars

RuntimeSymmetry == BlockSymmetry \cup StreamSymmetry

(* The type invariants of the parts. *)
DeviceTypeOK == PoolTypeOK /\ StreamTypeOK /\ CacheTypeOK
=============================================================================
