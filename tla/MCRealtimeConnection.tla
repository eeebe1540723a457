------------------------ MODULE MCRealtimeConnection ------------------------
\* RealtimeConnection for TLC.  The connections are model values that no
\* definition tells apart, so safety runs may permute them.
EXTENDS RealtimeConnection, TLC

ConnSymmetry == Permutations(Conns)
=============================================================================
