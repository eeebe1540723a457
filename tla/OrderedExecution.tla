--------------------------- MODULE OrderedExecution ---------------------------
(***************************************************************************)
(* What the streams of a device promise (aethelred/core/runtime.py,        *)
(* Stream): "operations within a stream execute in order, while operations *)
(* in different streams may execute concurrently", and an operation begins *)
(* only after those it depends on.                                         *)
(***************************************************************************)
EXTENDS Naturals, Sequences, SequencesExt

CONSTANTS Streams, Commands

VARIABLES
  issued,   \* for each stream, its commands in the order they were issued
  after,    \* the commands that a command depends on
  begun,
  ended

Issue(s, c, needed) ==
  /\ \A r \in Streams : c \notin ToSet(issued[r])
  /\ issued' = [issued EXCEPT ![s] = Append(@, c)]
  /\ after' = [after EXCEPT ![c] = needed]
  /\ UNCHANGED <<begun, ended>>

BeginNext(s, n) ==
  LET c == issued[s][n] IN
  /\ c \notin begun
  /\ \A m \in 1..(n - 1) : issued[s][m] \in ended
  /\ after[c] \subseteq ended
  /\ begun' = begun \cup {c}
  /\ UNCHANGED <<issued, after, ended>>

End(c) ==
  /\ c \in begun \ ended
  /\ ended' = ended \cup {c}
  /\ UNCHANGED <<issued, after, begun>>

OrderInit ==
  /\ issued = [s \in Streams |-> <<>>]
  /\ after = [c \in Commands |-> {}]
  /\ begun = {} /\ ended = {}

OrderNext ==
  \/ \E s \in Streams, c \in Commands, needed \in SUBSET Commands :
       Issue(s, c, needed)
  \/ \E s \in Streams : \E n \in DOMAIN issued[s] : BeginNext(s, n)
  \/ \E c \in Commands : End(c)

OrderSpec == OrderInit /\ [][OrderNext]_<<issued, after, begun, ended>>
=============================================================================
