----------------------------- MODULE MCMemoryPool -----------------------------
\* MemoryPool for TLC: the first class holds blocks of size 1, the second those
\* of sizes 2 to 4, larger blocks have no class.
EXTENDS MemoryPool, TLC

CONSTANTS b1, b2, b3

MCSizeClasses == <<1, 4>>
BlockSymmetry == Permutations(Blocks)
=============================================================================
