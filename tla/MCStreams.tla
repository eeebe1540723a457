------------------------------- MODULE MCStreams -------------------------------
\* Streams for TLC: a command, and one that depends on the first command; for
\* liveness also one that waits for an event, and one that signals it.
EXTENDS Streams, TLC

CONSTANTS s1, s2, e1, t1, t2

MCWork == {Plain, [Plain EXCEPT !.needs = <<1>>]}
MCEventWork == MCWork \cup {[Plain EXCEPT !.awaits = e] : e \in Events}
                      \cup {[Plain EXCEPT !.signals = e] : e \in Events}
StreamSymmetry == Permutations(Streams) \cup Permutations(Threads)
=============================================================================
