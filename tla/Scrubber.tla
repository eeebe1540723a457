------------------------------ MODULE Scrubber ------------------------------
(***************************************************************************)
(* The two scrubbers of personal data: the one of patterns                 *)
(* (compliance/sanitizer.py) and the one around Presidio, with its batches *)
(* (compliance/presidio_scrubber.py).                                      *)
(*                                                                         *)
(* Abstracted: a text is its positions, and what a pattern or Presidio     *)
(* finds in it is given: sets of disjoint spans.  A replacement is a       *)
(* number of characters that are not the text's.  Both scrubbers replace   *)
(* from the last find to the first, in a text that changes under them.     *)
(***************************************************************************)
EXTENDS Integers, Sequences, SequencesExt, FiniteSets, FiniteSetsExt, TLC

CONSTANTS
  Length,        \* of the text
  Patterns,      \* what finds: 1..n, in order; the last is a recognizer added by the caller
  Width,         \* [pattern -> how many characters replace what it finds]
  Score,         \* [pattern -> its confidence]
  Required,      \* the patterns whose type a framework of the scrubber names
  Threshold, Shown, MaxConcurrent,
  Calls,         \* the texts of a batch: calls of scrub()
  Pending        \* no result

ASSUME ScrubberAssumption ==
  /\ Length \in Nat
  /\ IsFiniteSet(Patterns) /\ Patterns # {} /\ Patterns = 1..Cardinality(Patterns)
  /\ Width \in [Patterns -> Nat] /\ Score \in [Patterns -> Int]
  /\ Threshold \in Int /\ Shown \in Nat /\ MaxConcurrent \in Nat /\ IsFiniteSet(Calls)

VARIABLES
  finds,         \* what each pattern finds in the text
  operators,     \* what the configuration does with each
  custom,        \* the caller's recognizer has been added
  clean,         \* the last result of the scrubber of patterns, or Pending
  stage,         \* of each call: "queued", "analyzing" or "ended"
  result,        \* of each call: text, findings and compliance_passed, or Pending
  batch          \* compliance_passed of the batch, or Pending

scrubberVars == <<finds, operators, custom, clean, stage, result, batch>>

Positions == 1..Length
Spans == {s \in Positions \X Positions : s[1] <= s[2]}
Meet(s, t) == s[1] <= t[2] /\ t[1] <= s[2]
Apart(spans) == \A s, t \in spans : s # t => ~Meet(s, t)
\* Hashing and encrypting put something in the place of a find, as replacing does.
Operators == {"replace", "mask", "redact", "keep"}

\* The members of a set in an order, the pairs of what comes before what.
Listed(S, order) ==
  [k \in 1..Cardinality(S) |->
     CHOOSE m \in S : Cardinality({l \in S : <<l, m>> \in order}) = k - 1]

\* A stable sort by the keys of the places.
Sorted(s, key) ==
  LET place == Listed(DOMAIN s, {p \in (DOMAIN s) \X (DOMAIN s) :
                                   \/ key[p[1]] < key[p[2]]
                                   \/ key[p[1]] = key[p[2]] /\ p[1] < p[2]}) IN
  [k \in DOMAIN s |-> s[place[k]]]
ByStart(found) == Sorted(found, [k \in DOMAIN found |-> found[k].span[1]])
ByScore(found) ==
  LET left == ByStart(found) IN Sorted(left, [k \in DOMAIN left |-> -Score[left[k].by]])

\* What the patterns find, pattern by pattern and from left to right.
Matches(by) ==
  LET all == UNION {{[by |-> p, span |-> s] : s \in finds[p]} : p \in by} IN
  Listed(all, {p \in all \X all :
                 \/ p[1].by < p[2].by
                 \/ p[1].by = p[2].by /\ p[1].span[1] < p[2].span[1]})

\* What is found with enough confidence.
Sure(found) ==
  FoldLeft(LAMBDA kept, m : IF Score[m.by] >= Threshold THEN Append(kept, m) ELSE kept,
           <<>>, found)

\* result[:start] + replacement + result[end:], with the places of the original text; a
\* slice ends where the text does.
Replaced(text, span, replacement) ==
  SubSeq(text, 1, Min({span[1] - 1, Len(text)})) \o replacement
    \o SubSeq(text, span[2] + 1, Len(text))

Original(span) == [i \in 1..(span[2] - span[1] + 1) |-> span[1] + i - 1]
Filler(width) == [i \in 1..width |-> 0]
Text == Original(<<1, Length>>)

\* The finds are replaced from the last to the first.
Replacing(found, put) ==
  FoldLeft(LAMBDA text, m : Replaced(text, m.span, put[m]), Text,
           Sorted(found, [k \in DOMAIN found |-> -found[k].span[1]]))
-----------------------------------------------------------------------------
\* Finds of the same span are one: the surest, where the first was.
Deduplicate(found) ==
  FoldLeft(LAMBDA seen, m :
             LET same == {i \in DOMAIN seen : seen[i].span = m.span} IN
             IF same = {} THEN Append(seen, m)
             ELSE IF Score[m.by] > Score[seen[Min(same)].by]
                  THEN ReplaceAt(seen, Min(same), m) ELSE seen,
           <<>>, found)

Scan == ByStart(Deduplicate(Sure(Matches(Patterns))))

\* The scrubber of patterns.  Finds that overlap are replaced one after the other, by
\* places that the later replacement has moved.
Sanitize ==
  /\ clean' = [text |-> Replacing(Scan, [m \in Range(Scan) |-> Filler(Width[m.by])]),
               findings |-> Scan]
  /\ UNCHANGED <<finds, operators, custom, stage, result, batch>>
-----------------------------------------------------------------------------
\* Mutant: a find is kept unless it overlaps the one kept before it.
FilterLast(found) ==
  ByStart(FoldLeft(LAMBDA kept, m : IF kept # <<>> /\ Meet(m.span, Last(kept).span)
                                    THEN kept ELSE Append(kept, m),
                   <<>>, ByScore(Sure(found))))

\* The surest finds that do not overlap.
FilterAndDedupe(found) ==
  ByStart(FoldLeft(LAMBDA kept, m : IF \E i \in DOMAIN kept : Meet(m.span, kept[i].span)
                                    THEN kept ELSE Append(kept, m),
                   <<>>, ByScore(Sure(found))))

\* A mask shows the last characters, unless they are all there is.
ApplyOperator(m) ==
  LET size == m.span[2] - m.span[1] + 1
      operator == operators[m.by] IN
  CASE operator = "redact" -> <<>>
    [] operator = "keep" -> Original(m.span)
    [] operator = "mask" -> IF size <= Shown THEN Filler(size)
         ELSE Filler(size - Shown) \o Original(<<m.span[2] - Shown + 1, m.span[2]>>)
    [] OTHER -> Filler(Width[m.by])

Anonymize(found) == Replacing(found, [m \in Range(found) |-> ApplyOperator(m)])

\* Only what was found and kept can fail a check.
CheckCompliance(found) ==
  \A i \in DOMAIN found : ~(found[i].by \in Required /\ operators[found[i].by] = "keep")

AddCustomRecognizer ==
  /\ ~custom /\ custom' = TRUE
  /\ UNCHANGED <<finds, operators, clean, stage, result, batch>>

\* A call gets a place in the semaphore, and waits for the analyzer's thread.
StartScrub(c) ==
  /\ stage[c] = "queued" /\ Cardinality({d \in Calls : stage[d] = "analyzing"}) < MaxConcurrent
  /\ stage' = [stage EXCEPT ![c] = "analyzing"]
  /\ UNCHANGED <<finds, operators, custom, clean, result, batch>>

\* An analysis that raises has found nothing; the recognizers are those of this moment.
\* When the rest raises, the text comes back as it was, and has failed.
EndScrub(c, analyzed, raises) ==
  LET added == IF custom THEN {Max(Patterns)} ELSE {}
      own == IF analyzed THEN Patterns \ {Max(Patterns)} ELSE {}
      found == FilterAndDedupe(Matches(own \cup added)) IN
  /\ stage[c] = "analyzing" /\ stage' = [stage EXCEPT ![c] = "ended"]
  /\ result' = [result EXCEPT ![c] =
       IF raises THEN [text |-> Text, findings |-> <<>>, passed |-> FALSE]
       ELSE [text |-> Anonymize(found), findings |-> found, passed |-> CheckCompliance(found)]]
  /\ UNCHANGED <<finds, operators, custom, clean, batch>>

EndBatch ==
  /\ batch = Pending /\ \A c \in Calls : stage[c] = "ended"
  /\ batch' = \A c \in Calls : result[c].passed
  /\ UNCHANGED <<finds, operators, custom, clean, stage, result>>
-----------------------------------------------------------------------------
ScrubberInit ==
  /\ finds \in [Patterns -> {S \in SUBSET Spans : Apart(S)}]
  /\ operators \in {[p \in Patterns |-> o] : o \in Operators} \cup
                   {[p \in Patterns |-> IF p = 1 THEN "keep" ELSE "mask"]}
  /\ custom = FALSE /\ clean = Pending /\ stage = [c \in Calls |-> "queued"]
  /\ result = [c \in Calls |-> Pending] /\ batch = Pending

PresidioNext ==
  \/ AddCustomRecognizer \/ EndBatch
  \/ \E c \in Calls : StartScrub(c) \/ \E analyzed, raises \in BOOLEAN : EndScrub(c, analyzed, raises)

ScrubberNext == Sanitize \/ PresidioNext
ScrubberSpec == ScrubberInit /\ [][ScrubberNext]_scrubberVars
-----------------------------------------------------------------------------
ScrubberTypeOK ==
  /\ \A c \in Calls : result[c] # Pending => stage[c] = "ended"
  /\ Cardinality({c \in Calls : stage[c] = "analyzing"}) <= MaxConcurrent
  /\ batch \in BOOLEAN \cup {Pending}

Outside(found) == {i \in Positions : \A k \in DOMAIN found : ~Meet(<<i, i>>, found[k].span)}
Visible(found) ==
  UNION {{i \in Positions : operators[m.by] \in {"keep", "mask"} /\ Meet(<<i, i>>, m.span)} :
           m \in Range(found)}
\* What is left of the text: in order, all that is outside the finds, no more than visible.
Exact(text, found, visible) ==
  LET left == Range(text) \ {0} IN
  /\ \A i, j \in DOMAIN text : i < j /\ 0 \notin {text[i], text[j]} => text[i] < text[j]
  /\ Outside(found) \subseteq left /\ left \subseteq Outside(found) \cup visible

(* A scrubbed text has lost exactly what was found in it: nothing of a find is left but what
   keeping or masking shows, everything else is there once and in order, and the
   replacements neither damage each other nor the rest.  The scrubber around Presidio
   keeps this whatever is found; the one of patterns when no finds overlap. *)
ScrubbedExactly ==
  /\ \A c \in Calls : result[c] # Pending =>
       Exact(result[c].text, result[c].findings, Visible(result[c].findings))
  /\ clean # Pending /\ Apart({m.span : m \in Range(clean.findings)}) =>
       Exact(clean.text, clean.findings, {})
=============================================================================
