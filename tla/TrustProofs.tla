----------------------------- MODULE TrustProofs -----------------------------
(***************************************************************************)
(* For any number of coroutines, credentials, issuers and days: who is     *)
(* told that credentials are valid was told so on grounds.  For any        *)
(* wallets, signers and signatures: a signature verifies with the keys it  *)
(* was made with.  For any models, inputs, proofs and days: an accepted    *)
(* proof has its grounds.  For any bodies, limits and calls: the wrappers  *)
(* forward and record what runs through them as it is.  For any data and   *)
(* agreements: who asks for more of a check of compliance fails no less.   *)
(* For any text and patterns: scrubbing takes exactly what was found.      *)
(***************************************************************************)
EXTENDS Provenance, Wallet, ProofPipeline, Integrations, Compliance, Scrubber, SequenceLemmas

(* Credentials and presentations. *)

CheckRecord == [by : {"nobody", "data", "credential", "presentation"}, 
                at : {"told", "executor", "verifies"}, creds : Seq(Credentials),
                next : Nat, since : Nat, errors : BOOLEAN, cached : BOOLEAN]

Grounded(k, c) ==
  \E day \in k.since..today :
    IF k.by = "data" THEN ~Expired(c, day) ELSE ~Objections(c, day)

\* The verifier has looked at the i-th credential.
Looked(k, i) == /\ k.at = "verifies" => i < k.next
                /\ k.at = "executor" /\ k.by # "data" => i <= k.next

\* What was looked at without an error had its grounds; what is verified exists, and a
\* verifier in use stays.
CheckHolds(k) ==
  /\ k \in CheckRecord
  /\ k.since <= today
  /\ \A i \in 1..Len(k.creds) : k.creds[i] \in Exist
  /\ k.at = "verifies" => k.by # "data"
  /\ k.by # "data" => verifier # Unknown \/ k.creds = <<>>
  /\ ~k.errors /\ ~k.cached =>
       \A i \in 1..Len(k.creds) : Looked(k, i) => Grounded(k, k.creds[i])

GroundsInvariant ==
  /\ today \in Nat /\ credential = [c \in Credentials |-> credential[c]]
  /\ verdict \in [Credentials -> BOOLEAN \cup {Unknown}]
  /\ check \in [Checkers -> CheckRecord]
  /\ \A t \in Checkers : CheckHolds(check[t])

LEMMA GroundsStart == ProvenanceInit => GroundsInvariant
<1> SUFFICES ASSUME ProvenanceInit PROVE GroundsInvariant
  OBVIOUS
<1>1. NoCheck \in CheckRecord
  <2>1. <<>> \in Seq(Credentials)
    OBVIOUS
  <2>2. QED
    BY <2>1 DEF NoCheck, CheckRecord
<1>2. CheckHolds(NoCheck)
  BY <1>1 DEF CheckHolds, NoCheck, ProvenanceInit
<1>3. QED
  BY <1>1, <1>2 DEF GroundsInvariant, ProvenanceInit

(* A step of one coroutine, at one moment. *)
LEMMA OneCheckChanges ==
  ASSUME GroundsInvariant, NEW t \in Checkers, NEW k, CheckHolds(k),
         check' = [check EXCEPT ![t] = k], UNCHANGED <<today, verifier, credential>>,
         verdict' \in [Credentials -> BOOLEAN \cup {Unknown}]
  PROVE  GroundsInvariant'
<1>1. k \in CheckRecord
  BY DEF CheckHolds
<1>2. check' \in [Checkers -> CheckRecord]
  BY <1>1 DEF GroundsInvariant
<1>3. ASSUME NEW u \in Checkers PROVE CheckHolds(check[u])'
  <2>1. CheckHolds(check'[u])
    BY DEF GroundsInvariant
  <2>2. QED
    BY <2>1 DEF CheckHolds, Exist, Looked, Grounded, Expired, Objections
<1>4. QED
  BY <1>2, <1>3 DEF GroundsInvariant

(* A day more is a day more to have had grounds on. *)
LEMMA ADayMore == GroundsInvariant /\ NextDay => GroundsInvariant'
<1> SUFFICES ASSUME GroundsInvariant, NextDay PROVE GroundsInvariant'
  OBVIOUS
<1>1. /\ today \in Nat /\ today' = today + 1 /\ check' = check
      /\ verifier' = verifier /\ credential' = credential
  BY DEF GroundsInvariant, NextDay
<1>2. ASSUME NEW t \in Checkers PROVE CheckHolds(check[t])'
  <2> DEFINE k == check[t]
  <2>1. CheckHolds(k) /\ k.since \in Nat
    BY DEF GroundsInvariant, CheckRecord
  <2>2. k.since..today \subseteq k.since..today'
    BY <1>1, <2>1
  <2>3. ASSUME NEW c, Grounded(k, c) PROVE Grounded(k, c)'
    BY <1>1, <2>2, <2>3 DEF Grounded, Expired, Objections
  <2>4. k.since <= today'
    BY <1>1, <2>1 DEF CheckHolds
  <2>5. QED
    BY <1>1, <2>1, <2>3, <2>4 DEF CheckHolds, Exist, Looked
<1>3. QED
  BY <1>1, <1>2 DEF GroundsInvariant, NextDay

(* Before there is a verifier, nobody has called it. *)
LEMMA VerifierComes ==
  ASSUME GroundsInvariant, NEW oracles, NEW allowed, NEW age, GetVerifier(oracles, allowed, age)
  PROVE  GroundsInvariant'
<1>1. /\ verifier = Unknown /\ check' = check /\ today' = today /\ credential' = credential
      /\ verdict' = verdict
  BY DEF GetVerifier
<1>2. ASSUME NEW t \in Checkers PROVE CheckHolds(check[t])'
  <2> DEFINE k == check[t]
  <2>1. CheckHolds(k)
    BY DEF GroundsInvariant
  <2>2. CASE k.by = "data"
    BY <1>1, <2>1, <2>2 DEF CheckHolds, Exist, Looked, Grounded, Expired
  <2>3. CASE k.creds = <<>>
    BY <1>1, <2>1, <2>3 DEF CheckHolds
  <2>4. QED
    BY <1>1, <2>1, <2>2, <2>3 DEF CheckHolds
<1>3. QED
  BY <1>1, <1>2 DEF GroundsInvariant

(* A credential that is being checked is not issued again. *)
LEMMA CredentialComes ==
  ASSUME GroundsInvariant, NEW c \in Credentials, NEW i, NEW n, IssueCredential(c, i, n)
  PROVE  GroundsInvariant'
<1>1. /\ credential[c] = Unknown /\ check' = check /\ today' = today /\ verifier' = verifier
      /\ verdict' = verdict
  BY DEF IssueCredential
<1>2. PICK r : credential' = [credential EXCEPT ![c] = r]
  BY DEF IssueCredential
<1>3. credential' = [d \in Credentials |-> credential'[d]]
  BY <1>2 DEF GroundsInvariant
<1>4. ASSUME NEW d \in Exist PROVE d \in Credentials /\ credential'[d] = credential[d]
  BY <1>1, <1>2 DEF Exist, GroundsInvariant
<1>5. ASSUME NEW t \in Checkers PROVE CheckHolds(check[t])'
  <2> DEFINE k == check[t]
  <2>1. CheckHolds(k)
    BY DEF GroundsInvariant
  <2>2. \A j \in 1..Len(k.creds) : k.creds[j] \in Exist /\ k.creds[j] \in Exist'
    BY <2>1, <1>4 DEF CheckHolds, Exist
  <2>3. ASSUME NEW d \in Exist, Grounded(k, d) PROVE Grounded(k, d)'
    <3>1. PICK day \in k.since..today :
            IF k.by = "data" THEN ~Expired(d, day) ELSE ~Objections(d, day)
      BY <2>3 DEF Grounded
    <3>2. IF k.by = "data" THEN ~Expired(d, day)' ELSE ~Objections(d, day)'
      BY <3>1, <1>1, <1>4 DEF Expired, Objections
    <3>3. QED
      BY <3>2, <1>1 DEF Grounded
  <2>4. QED
    BY <1>1, <2>1, <2>2, <2>3 DEF CheckHolds, Looked
<1>6. QED
  BY <1>1, <1>3, <1>5 DEF GroundsInvariant
(* TrustedData begins, or answers at once. *)
LEMMA DataBegins ==
  ASSUME GroundsInvariant, NEW t \in Checkers, NEW c \in Exist,
         VerifyCached(t, c) \/ VerifyData(t, c)
  PROVE  GroundsInvariant'
<1>1. c \in Credentials /\ today \in Nat /\ verdict \in [Credentials -> BOOLEAN \cup {Unknown}]
  BY DEF Exist, GroundsInvariant
<1>2. <<c>> \in Seq(Credentials) /\ Len(<<c>>) = 1 /\ <<c>>[1] = c
  BY <1>1
<1> DEFINE K(at, errors, cached) ==
      [by |-> "data", at |-> at, creds |-> <<c>>, next |-> 1, since |-> today,
       errors |-> errors, cached |-> cached]
<1>3. ASSUME NEW at \in {"told", "executor"}, NEW errors \in BOOLEAN,
             NEW cached \in BOOLEAN, ~errors /\ ~cached => ~Expired(c, today)
      PROVE  CheckHolds(K(at, errors, cached))
  <2>1. K(at, errors, cached) \in CheckRecord
    BY <1>1, <1>2 DEF CheckRecord
  <2>2. ~errors /\ ~cached => Grounded(K(at, errors, cached), c)
    BY <1>1, <1>3 DEF Grounded
  <2>3. QED
    BY <2>1, <2>2, <1>1, <1>2 DEF CheckHolds
<1>4. CASE VerifyCached(t, c)
  <2>1. verdict[c] \in BOOLEAN
    BY <1>1, <1>4 DEF VerifyCached
  <2>2. check' = [check EXCEPT ![t] = K("told", ~verdict[c], TRUE)]
    BY <1>4 DEF VerifyCached
  <2>3. CheckHolds(K("told", ~verdict[c], TRUE))
    BY <2>1, <1>3
  <2>4. QED
    BY <1>1, <1>4, <2>2, <2>3, OneCheckChanges DEF VerifyCached
<1>5. CASE VerifyData(t, c)
  <2>1. Expired(c, today) \in BOOLEAN
    BY DEF Expired
  <2>2. PICK at \in {"told", "executor"} :
          check' = [check EXCEPT ![t] = K(at, Expired(c, today), FALSE)]
    BY <1>5 DEF VerifyData, Begins
  <2>3. CheckHolds(K(at, Expired(c, today), FALSE))
    BY <2>1, <1>3
  <2>4. verdict' \in [Credentials -> BOOLEAN \cup {Unknown}]
    BY <1>1, <1>5, <2>1 DEF VerifyData
  <2>5. QED
    BY <1>5, <2>2, <2>3, <2>4, OneCheckChanges DEF VerifyData
<1>6. QED
  BY <1>4, <1>5

(* What didkit finds may add errors and takes none away. *)
LEMMA DataEnds ==
  ASSUME GroundsInvariant, NEW t \in Checkers, DataVerified(t)
  PROVE  GroundsInvariant'
<1> DEFINE k == check[t]
<1>1. CheckHolds(k) /\ k \in CheckRecord /\ k.at = "executor" /\ k.by = "data"
  BY DEF GroundsInvariant, DataVerified
<1>2. PICK found \in BOOLEAN :
        /\ check' = [check EXCEPT ![t].at = "told", ![t].errors = @ \/ found]
        /\ verdict' = [verdict EXCEPT ![Head(check[t].creds)] = ~(check[t].errors \/ found)]
  BY DEF DataVerified
<1> DEFINE e == [k EXCEPT !.at = "told", !.errors = @ \/ found]
<1>3. check' = [check EXCEPT ![t] = e]
  BY <1>2 DEF GroundsInvariant
<1>4. e \in CheckRecord
  BY <1>1 DEF CheckRecord
<1>5. CheckHolds(e)
  BY <1>1, <1>4 DEF CheckHolds, CheckRecord, Looked, Grounded
<1>6. verdict' \in [Credentials -> BOOLEAN \cup {Unknown}]
  BY <1>2 DEF GroundsInvariant
<1>7. QED
  BY <1>3, <1>5, <1>6, OneCheckChanges DEF DataVerified

(* The verifier begins, having looked at nothing. *)
LEMMA VerifierBegins ==
  ASSUME GroundsInvariant, NEW t \in Checkers, NEW by \in {"credential", "presentation"},
         NEW creds \in Seq(Credentials), CallVerifier(t, by, creds)
  PROVE  GroundsInvariant'
<1>1. PICK mismatch \in BOOLEAN : Begins(t, by, creds, "verifies", mismatch)
  BY DEF CallVerifier
<1> DEFINE k == [by |-> by, at |-> "verifies", creds |-> creds, next |-> 1, since |-> today,
                 errors |-> mismatch, cached |-> FALSE]
<1>2. check' = [check EXCEPT ![t] = k]
  BY <1>1 DEF Begins
<1>3. k \in CheckRecord /\ today \in Nat
  BY DEF CheckRecord, GroundsInvariant
<1>4. \A i \in 1..Len(creds) : creds[i] \in Exist
  BY DEF CallVerifier, ToSet
<1>5. verifier # Unknown
  BY DEF CallVerifier
<1>6. CheckHolds(k)
  BY <1>3, <1>4, <1>5 DEF CheckHolds, Looked
<1>7. QED
  BY <1>2, <1>6, OneCheckChanges DEF CallVerifier, GroundsInvariant

(* A call goes on: it forgets no errors, and has grounds for what it has looked at since. *)
LEMMA CallGoesOn ==
  ASSUME GroundsInvariant, NEW t \in Checkers, NEW errors \in BOOLEAN,
         NEW at \in {"told", "executor", "verifies"}, NEW next \in Nat,
         CheckHolds([check[t] EXCEPT !.errors = errors, !.at = at, !.next = next]),
         check' = [check EXCEPT ![t].errors = errors, ![t].at = at, ![t].next = next],
         UNCHANGED <<today, verifier, credential, verdict>>
  PROVE  GroundsInvariant'
<1>1. check' = [check EXCEPT ![t] = [check[t] EXCEPT !.errors = errors, !.at = at, !.next = next]]
  BY DEF GroundsInvariant
<1>2. QED
  BY <1>1, OneCheckChanges DEF GroundsInvariant

(* Whatever the verifier has looked at, it has looked at by now. *)
LEMMA VerifierLooks ==
  ASSUME GroundsInvariant, NEW t \in Checkers, VerifierObjects(t)
  PROVE  GroundsInvariant'
<1> DEFINE k == check[t]
           o == Objections(k.creds[k.next], today)
           at == IF didkit THEN "executor" ELSE k.at
           next == IF didkit THEN k.next ELSE k.next + 1
           e == [k EXCEPT !.errors = k.errors \/ o, !.at = at, !.next = next]
<1>1. CheckHolds(k) /\ k \in CheckRecord /\ k.at = "verifies" /\ k.next <= Len(k.creds)
  BY DEF GroundsInvariant, VerifierObjects
<1>2. /\ today \in Nat /\ k.since \in Nat /\ k.since <= today /\ k.next \in Nat
      /\ k.errors \in BOOLEAN /\ k.by # "data" /\ at \in {"executor", "verifies"} /\ next \in Nat
  BY <1>1 DEF CheckHolds, CheckRecord, GroundsInvariant
<1>3. o \in BOOLEAN
  BY DEF Objections
<1>4. check' = [check EXCEPT ![t].errors = k.errors \/ o, ![t].at = at, ![t].next = next]
  BY DEF VerifierObjects, GroundsInvariant
<1>5. e \in CheckRecord
  BY <1>1, <1>2, <1>3 DEF CheckRecord
<1>6. /\ e.by = k.by /\ e.creds = k.creds /\ e.since = k.since /\ e.cached = k.cached
      /\ e.at = at /\ e.next = next
  BY <1>1 DEF CheckRecord
<1>7. e.errors = (k.errors \/ o)
  BY <1>1 DEF CheckRecord
<1>8. ~o => Grounded(e, k.creds[k.next])
  BY <1>2, <1>6 DEF Grounded
<1>9. ASSUME NEW i \in 1..Len(k.creds), Looked(e, i), ~e.errors, ~e.cached
      PROVE  Grounded(e, k.creds[i])
  <2>1. ~k.errors /\ ~o /\ ~k.cached
    BY <1>6, <1>7, <1>9
  <2>2. i = k.next \/ i < k.next
    <3> HIDE DEF e
    <3>1. i \in Nat
      BY <1>2
    <3>2. CASE didkit
      BY <1>2, <1>6, <1>9, <3>1, <3>2 DEF Looked
    <3>3. CASE ~didkit
      BY <1>1, <1>2, <1>6, <1>9, <3>1, <3>3 DEF Looked
    <3>4. QED
      BY <3>2, <3>3
  <2>3. CASE i = k.next
    BY <1>8, <2>1, <2>3
  <2>4. CASE i < k.next
    <3>1. Looked(k, i)
      BY <1>1, <2>4 DEF Looked
    <3>2. Grounded(k, k.creds[i])
      BY <3>1, <1>1, <2>1, <1>9 DEF CheckHolds
    <3>3. QED
      BY <3>2, <1>6 DEF Grounded
  <2>5. QED
    BY <2>2, <2>3, <2>4
<1>10. CheckHolds(e)
  <2> HIDE DEF e, at, next, o
  <2>1. QED
    BY <1>1, <1>2, <1>5, <1>6, <1>9 DEF CheckHolds
<1>11. QED
  <2> HIDE DEF o
  <2>1. k.errors \/ o \in BOOLEAN
    BY <1>2, <1>3
  <2>2. QED
    BY <1>2, <1>4, <1>10, <2>1, CallGoesOn DEF VerifierObjects

(* didkit has verified what the verifier looked at last. *)
LEMMA VerifierGoesOn ==
  ASSUME GroundsInvariant, NEW t \in Checkers, VerifierContinues(t)
  PROVE  GroundsInvariant'
<1> DEFINE k == check[t]
           at == IF k.next > Len(k.creds) THEN "told" ELSE "verifies"
<1>1. /\ CheckHolds(k) /\ k \in CheckRecord /\ k.at = "executor" /\ k.by # "data"
      /\ k.next \in Nat /\ at \in {"told", "executor", "verifies"}
  BY DEF GroundsInvariant, VerifierContinues, CheckRecord
<1>2. PICK found \in BOOLEAN :
        check' = [check EXCEPT ![t].errors = @ \/ found, ![t].next = @ + 1,
                               ![t].at = IF check[t].next > Len(check[t].creds) THEN "told" ELSE "verifies"]
  BY DEF VerifierContinues
<1> DEFINE errors == k.errors \/ found
           next == k.next + 1
           e == [k EXCEPT !.errors = errors, !.at = at, !.next = next]
<1>3. e \in CheckRecord
  <2>1. errors \in BOOLEAN /\ next \in Nat
    BY <1>1 DEF CheckRecord
  <2> HIDE DEF at, k, errors, next
  <2>2. QED
    BY <1>1, <2>1 DEF CheckRecord
<1>4. /\ e.by = k.by /\ e.creds = k.creds /\ e.since = k.since /\ e.cached = k.cached
      /\ e.at = at /\ e.next = k.next + 1
  BY <1>1 DEF CheckRecord
<1>5. e.errors = (k.errors \/ found)
  BY <1>1 DEF CheckRecord
<1>6. ASSUME NEW i \in 1..Len(k.creds), Looked(e, i), ~e.errors, ~e.cached
      PROVE  Grounded(e, k.creds[i])
  <2>1. Looked(k, i)
    <3> HIDE DEF e
    <3>1. CASE k.next > Len(k.creds)
      BY <1>1, <3>1 DEF Looked, CheckRecord
    <3>2. CASE ~(k.next > Len(k.creds))
      BY <1>1, <1>4, <1>6, <3>2 DEF Looked
    <3>3. QED
      BY <3>1, <3>2
  <2>2. ~k.errors /\ ~k.cached
    BY <1>4, <1>5, <1>6
  <2>3. Grounded(k, k.creds[i])
    BY <1>1, <1>6, <2>1, <2>2 DEF CheckHolds
  <2>4. QED
    BY <2>3, <1>4 DEF Grounded
<1>7. CheckHolds(e)
  <2> HIDE DEF e, at
  <2>1. QED
    BY <1>1, <1>3, <1>4, <1>6 DEF CheckHolds
<1>8. check' = [check EXCEPT ![t] = e]
  BY <1>2 DEF GroundsInvariant
<1>9. QED
  BY <1>7, <1>8, OneCheckChanges DEF VerifierContinues, GroundsInvariant

(* The verifier stops when it has looked at every credential. *)
LEMMA VerifierStops ==
  ASSUME GroundsInvariant, NEW t \in Checkers, VerifierEnds(t)
  PROVE  GroundsInvariant'
<1> DEFINE k == check[t]
           at == IF didkit /\ k.by = "presentation" THEN "executor" ELSE "told"
           e == [k EXCEPT !.at = at]
<1>1. /\ CheckHolds(k) /\ k \in CheckRecord /\ k.at = "verifies" /\ k.next > Len(k.creds)
      /\ k.next \in Nat /\ at \in {"told", "executor"}
  BY DEF GroundsInvariant, VerifierEnds, CheckRecord
<1>2. e \in CheckRecord
  BY <1>1 DEF CheckRecord
<1>3. /\ e.by = k.by /\ e.creds = k.creds /\ e.since = k.since /\ e.cached = k.cached
      /\ e.at = at /\ e.next = k.next
  BY <1>1 DEF CheckRecord
<1>4. e.errors = k.errors
  BY <1>1 DEF CheckRecord
<1>5. \A i \in 1..Len(k.creds) : Looked(k, i)
  BY <1>1 DEF Looked
<1>6. CheckHolds(e)
  <2> HIDE DEF e, at
  <2>1. QED
    BY <1>1, <1>2, <1>3, <1>4, <1>5 DEF CheckHolds, Grounded
<1>7. check' = [check EXCEPT ![t] = e]
  BY DEF GroundsInvariant, VerifierEnds
<1>8. QED
  BY <1>6, <1>7, OneCheckChanges DEF VerifierEnds, GroundsInvariant

LEMMA OneCheckStep ==
  ASSUME GroundsInvariant, NEW t \in Checkers, CheckStep(t)
  PROVE  GroundsInvariant'
<1>1. CASE \E c \in Exist : VerifyCached(t, c) \/ VerifyData(t, c)
  BY <1>1, DataBegins
<1>2. CASE \E c \in Exist : CallVerifier(t, "credential", <<c>>)
  <2>1. PICK c \in Exist : CallVerifier(t, "credential", <<c>>)
    BY <1>2
  <2>2. <<c>> \in Seq(Credentials)
    BY DEF Exist
  <2>3. QED
    BY <2>1, <2>2, VerifierBegins
<1>3. CASE \E creds \in Presentations : CallVerifier(t, "presentation", creds)
  <2>1. PICK n \in 0..2 : \E creds \in [1..n -> Exist] : CallVerifier(t, "presentation", creds)
    BY <1>3 DEF Presentations
  <2>2. PICK creds \in [1..n -> Exist] : CallVerifier(t, "presentation", creds)
    BY <2>1
  <2>3. creds \in Seq(Credentials)
    BY DEF Exist
  <2>4. QED
    BY <2>2, <2>3, VerifierBegins
<1>4. QED
  BY <1>1, <1>2, <1>3, DataEnds, VerifierLooks, VerifierGoesOn, VerifierStops DEF CheckStep

LEMMA GroundsStay == GroundsInvariant /\ [ProvenanceNext]_provenanceVars => GroundsInvariant'
<1> SUFFICES ASSUME GroundsInvariant, [ProvenanceNext]_provenanceVars PROVE GroundsInvariant'
  OBVIOUS
<1>1. ASSUME UNCHANGED <<today, verifier, credential, verdict, check>> PROVE GroundsInvariant'
  <2>1. /\ today' = today /\ verifier' = verifier /\ credential' = credential
        /\ verdict' = verdict /\ check' = check
    BY <1>1
  <2>2. ASSUME NEW t \in Checkers PROVE CheckHolds(check[t])'
    <3>1. CheckHolds(check[t])
      BY DEF GroundsInvariant
    <3>2. QED
      BY <2>1, <3>1 DEF CheckHolds, Exist, Looked, Grounded, Expired, Objections
  <2>3. QED
    BY <2>1, <2>2 DEF GroundsInvariant
<1>2. CASE (\E o \in Oracles, i \in Issuers : RegisterOracle(o, i)) \/ UNCHANGED provenanceVars
  BY <1>1, <1>2 DEF RegisterOracle, provenanceVars
<1>3. QED
  BY <1>2, ADayMore, VerifierComes, CredentialComes, OneCheckStep DEF ProvenanceNext

(* Whoever is told that credentials are valid was told so on grounds: see ToldOnGrounds. *)
THEOREM VerdictsHaveGrounds == ProvenanceSpec => []ToldOnGrounds
<1>1. GroundsInvariant => ToldOnGrounds
  <2> SUFFICES ASSUME GroundsInvariant, NEW t \in Checkers, check[t].at = "told",
                      ~check[t].errors, ~check[t].cached, NEW c \in ToSet(check[t].creds)
               PROVE  Grounded(check[t], c)
    BY DEF ToldOnGrounds, Grounded
  <2>1. CheckHolds(check[t]) /\ check[t].creds \in Seq(Credentials)
    BY DEF GroundsInvariant, CheckRecord
  <2>2. PICK i \in 1..Len(check[t].creds) : c = check[t].creds[i]
    BY <2>1 DEF ToSet
  <2>3. Looked(check[t], i)
    BY DEF Looked
  <2>4. QED
    BY <2>1, <2>2, <2>3 DEF CheckHolds
<1>2. QED
  BY <1>1, GroundsStart, GroundsStay, PTL DEF ProvenanceSpec
-----------------------------------------------------------------------------
(* The keys of wallets. *)

Lineage == [origin : Holders, restored : BOOLEAN]
Own(h) == [origin |-> h, restored |-> FALSE]

\* The holder for whom keys were generated.
Founder(o) == o \in Holders /\ Exists(o) /\ lineage[o] = Own(o)

\* The keys k of a holder h, of the lineage l: a restored public key is a derived one.
Inherits(k, h, l) ==
  /\ k.secret \in {l.origin, Zeros}
  /\ IF l.restored THEN k.public \in DerivedKeys ELSE k.public = l.origin
  /\ k.address # NoHolder => k.kem = h

\* What has been taken from the keys of the origin o.
FromOrigin(k, o) ==
  Founder(o) /\ k.classical = holder[o].classical /\ k.secret \in {o, Zeros}

KeysInvariant ==
  /\ holder = [h \in Holders |-> holder[h]] /\ lineage \in [Holders -> Lineage]
  /\ \A h \in Holders :
       IF Exists(h)
       THEN /\ holder[h] \in HolderRecord /\ Inherits(holder[h], h, lineage[h])
            /\ FromOrigin(holder[h], lineage[h].origin)
       ELSE lineage[h] = Own(h)
  /\ \A e \in exports : FromOrigin(e, e.origin)
  /\ \A s \in signatures : /\ s.by \in Holders /\ Exists(s.by)
                           /\ FromOrigin(s, lineage[s.by].origin)
  /\ \A x \in exchanges : x.secret = HybridKeyExchange(0, <<x.to, x.ciphertext>>)

LEMMA KeysStart == WalletInit => KeysInvariant
<1> SUFFICES ASSUME WalletInit PROVE KeysInvariant
  OBVIOUS
<1>1. lineage \in [Holders -> Lineage]
  BY DEF WalletInit, Lineage
<1>2. QED
  BY <1>1 DEF WalletInit, KeysInvariant, Exists, Own

(* A new holder: with keys of its own, or with keys of a founder's line. *)
LEMMA HolderComes ==
  ASSUME KeysInvariant, NEW h \in Holders, ~Exists(h), NEW r \in HolderRecord, NEW l \in Lineage,
         holder' = [holder EXCEPT ![h] = r], lineage' = [lineage EXCEPT ![h] = l],
         UNCHANGED <<exports, signatures, exchanges>>,
         Inherits(r, h, l), l = Own(h) \/ FromOrigin(r, l.origin)
  PROVE  KeysInvariant'
<1>1. /\ holder' = [g \in Holders |-> holder'[g]] /\ lineage' \in [Holders -> Lineage]
      /\ exports' = exports /\ signatures' = signatures /\ exchanges' = exchanges
  BY DEF KeysInvariant
<1>2. \A g \in Holders : /\ holder'[g] = IF g = h THEN r ELSE holder[g]
                         /\ lineage'[g] = IF g = h THEN l ELSE lineage[g]
  BY DEF KeysInvariant
<1>3. r # NoHolder
  BY WalletAssumption
<1>4. ASSUME NEW o, Founder(o) PROVE Founder(o)' /\ holder'[o] = holder[o]
  BY <1>2, <1>4 DEF Founder, Exists
<1>5. ASSUME NEW k, NEW o, FromOrigin(k, o)
      PROVE  Founder(o)' /\ k.classical = holder'[o].classical /\ k.secret \in {o, Zeros}
  BY <1>4, <1>5 DEF FromOrigin
<1>6. Founder(l.origin)' /\ r.classical = holder'[l.origin].classical /\ r.secret \in {l.origin, Zeros}
  <2>1. CASE l = Own(h)
    <3>1. l.origin = h
      BY <2>1 DEF Own
    <3>2. QED
      BY <3>1, <2>1, <1>2, <1>3 DEF Founder, Exists, Inherits
  <2>2. CASE FromOrigin(r, l.origin)
    BY <2>2, <1>5
  <2>3. QED
    BY <2>1, <2>2
<1>7. ASSUME NEW g \in Holders
      PROVE  (IF Exists(g)
              THEN /\ holder[g] \in HolderRecord /\ Inherits(holder[g], g, lineage[g])
                   /\ FromOrigin(holder[g], lineage[g].origin)
              ELSE lineage[g] = Own(g))'
  <2>1. CASE g = h
    BY <2>1, <1>2, <1>3, <1>6 DEF Exists, Inherits, FromOrigin
  <2>2. CASE g # h
    <3>1. holder'[g] = holder[g] /\ lineage'[g] = lineage[g]
      BY <2>2, <1>2
    <3>2. CASE Exists(g)
      <4>1. /\ holder[g] \in HolderRecord /\ Inherits(holder[g], g, lineage[g])
            /\ FromOrigin(holder[g], lineage[g].origin)
        BY <3>2 DEF KeysInvariant
      <4>2. Exists(g)'
        BY <3>1, <3>2 DEF Exists
      <4>3. QED
        BY <3>1, <4>1, <4>2, <1>5 DEF Inherits, FromOrigin
    <3>3. CASE ~Exists(g)
      BY <3>1, <3>3 DEF KeysInvariant, Exists, Own
    <3>4. QED
      BY <3>2, <3>3
  <2>3. QED
    BY <2>1, <2>2
<1>8. ASSUME NEW e \in exports PROVE FromOrigin(e, e.origin)'
  <2>1. FromOrigin(e, e.origin)
    BY DEF KeysInvariant
  <2>2. QED
    BY <2>1, <1>5 DEF FromOrigin
<1>9. ASSUME NEW s \in signatures
      PROVE  s.by \in Holders /\ Exists(s.by)' /\ FromOrigin(s, lineage[s.by].origin)'
  <2>1. s.by \in Holders /\ Exists(s.by) /\ FromOrigin(s, lineage[s.by].origin)
    BY DEF KeysInvariant
  <2>2. s.by # h
    BY <2>1
  <2>3. lineage'[s.by] = lineage[s.by] /\ holder'[s.by] = holder[s.by]
    BY <2>1, <2>2, <1>2
  <2>4. QED
    BY <2>1, <2>3, <1>5 DEF FromOrigin, Exists
<1>10. QED
  BY <1>1, <1>7, <1>8, <1>9 DEF KeysInvariant

(* New keys, or those that an export has kept, in a wallet. *)
LEMMA WalletComes ==
  ASSUME KeysInvariant, NEW h \in Holders, ~Exists(h), NEW c \in ClassicalKeys,
         NEW secret \in SecretKeys, NEW public \in PublicKeys, NEW l \in Lineage,
         NewWallet(h, c, [secret |-> secret, public |-> public]),
         lineage' = [lineage EXCEPT ![h] = l], UNCHANGED <<exports, signatures, exchanges>>,
         secret \in {l.origin, Zeros},
         IF l.restored THEN public \in DerivedKeys ELSE public = l.origin,
         \/ l = Own(h)
         \/ Founder(l.origin) /\ c = holder[l.origin].classical
  PROVE  KeysInvariant'
<1> DEFINE r == [classical |-> c, secret |-> secret, public |-> public, kem |-> h,
                 address |-> AddressFrom(c, public), closed |-> FALSE]
<1>1. holder' = [holder EXCEPT ![h] = r]
  BY DEF NewWallet, KyberKeyPair
<1>2. r \in HolderRecord
  BY DEF HolderRecord
<1>3. Inherits(r, h, l)
  BY DEF Inherits
<1>4. l = Own(h) \/ FromOrigin(r, l.origin)
  BY DEF FromOrigin
<1>5. QED
  BY <1>1, <1>2, <1>3, <1>4, HolderComes

LEMMA OwnKeys ==
  ASSUME KeysInvariant, NEW h \in Holders, ~Exists(h)
  PROVE  /\ Own(h) \in Lineage /\ lineage = [lineage EXCEPT ![h] = Own(h)]
         /\ h \in SecretKeys /\ h \in PublicKeys /\ h \in ClassicalKeys
<1>1. lineage \in [Holders -> Lineage] /\ lineage[h] = Own(h)
  BY DEF KeysInvariant
<1>2. QED
  BY <1>1 DEF Own, Lineage, SecretKeys, PublicKeys, ClassicalKeys

LEMMA NewWalletComes ==
  ASSUME KeysInvariant, NEW h \in Holders, CreateWallet(h) \/ FromMnemonic(h)
  PROVE  KeysInvariant'
<1>1. ~Exists(h) /\ lineage' = lineage /\ UNCHANGED <<exports, signatures, exchanges>>
  BY DEF CreateWallet, FromMnemonic
<1>2. PICK c \in ClassicalKeys : NewWallet(h, c, [secret |-> h, public |-> h])
  BY DEF CreateWallet, FromMnemonic, DilithiumKeyPair, ClassicalKeys
<1>3. Own(h).origin = h /\ Own(h).restored = FALSE
  BY DEF Own
<1>4. QED
  BY <1>1, <1>2, <1>3, OwnKeys, WalletComes

LEMMA ExportComesBack ==
  ASSUME KeysInvariant, NEW h \in Holders, NEW e \in exports, FromExport(h, e)
  PROVE  KeysInvariant'
<1> DEFINE l == [origin |-> e.origin, restored |-> TRUE]
<1>1. /\ ~Exists(h) /\ lineage' = [lineage EXCEPT ![h] = l]
      /\ UNCHANGED <<exports, signatures, exchanges>>
  BY DEF FromExport
<1>2. FromOrigin(e, e.origin) /\ e.origin \in Holders /\ holder[e.origin] \in HolderRecord
  BY DEF KeysInvariant, FromOrigin, Founder
<1>3. /\ l \in Lineage /\ l.origin = e.origin /\ l.restored = TRUE
      /\ e.secret \in SecretKeys /\ e.classical \in ClassicalKeys
  BY <1>2 DEF Lineage, FromOrigin, SecretKeys, HolderRecord
<1>4. DerivedPublicKey(e.secret) \in DerivedKeys /\ DerivedPublicKey(e.secret) \in PublicKeys
  BY <1>3 DEF DerivedKeys, PublicKeys
<1>5. NewWallet(h, e.classical, [secret |-> e.secret, public |-> DerivedPublicKey(e.secret)])
  BY DEF FromExport, DilithiumFromSecretKey
<1>6. Founder(l.origin) /\ e.classical = holder[l.origin].classical /\ e.secret \in {l.origin, Zeros}
  BY <1>2, <1>3 DEF FromOrigin
<1> HIDE DEF l
<1>7. QED
  BY <1>1, <1>3, <1>4, <1>5, <1>6, WalletComes

LEMMA SignerComes ==
  ASSUME KeysInvariant, NEW h \in Holders, NEW from \in Holders, NewSigner(h, from)
  PROVE  KeysInvariant'
<1> DEFINE R(k) == [classical |-> k.classical, secret |-> k.secret, public |-> k.public,
                    kem |-> NoHolder, address |-> NoHolder, closed |-> FALSE]
<1>1. /\ ~Exists(h) /\ lineage' = [lineage EXCEPT ![h] = lineage[from]]
      /\ lineage[from] \in Lineage /\ UNCHANGED <<exports, signatures, exchanges>>
  BY DEF NewSigner, KeysInvariant
<1>2. CASE from = h
  <2> DEFINE r == R([classical |-> h, secret |-> h, public |-> h])
  <2>1. holder' = [holder EXCEPT ![h] = r]
    BY <1>2 DEF NewSigner
  <2>2. lineage[from] = Own(h) /\ Own(h).origin = h /\ Own(h).restored = FALSE
    BY <1>1, <1>2 DEF KeysInvariant, Own
  <2>3. r \in HolderRecord
    BY DEF HolderRecord, ClassicalKeys, SecretKeys, PublicKeys
  <2>4. Inherits(r, h, lineage[from])
    BY <2>2 DEF Inherits
  <2>5. QED
    BY <1>1, <2>1, <2>2, <2>3, <2>4, HolderComes
<1>3. CASE from # h
  <2> DEFINE k == holder[from]
             r == R(k)
  <2>1. Exists(from) /\ holder' = [holder EXCEPT ![h] = r]
    BY <1>3 DEF NewSigner
  <2>2. /\ k \in HolderRecord /\ Inherits(k, from, lineage[from])
        /\ FromOrigin(k, lineage[from].origin)
    BY <2>1 DEF KeysInvariant
  <2>3. r \in HolderRecord
    BY <2>2 DEF HolderRecord
  <2>4. Inherits(r, h, lineage[from]) /\ FromOrigin(r, lineage[from].origin)
    BY <2>2 DEF Inherits, FromOrigin
  <2>5. QED
    BY <1>1, <2>1, <2>3, <2>4, HolderComes
<1>4. QED
  BY <1>2, <1>3

(* A closed wallet has zeros for the secret that its signatures need. *)
LEMMA WalletCloses ==
  ASSUME KeysInvariant, NEW h \in Holders, Close(h)
  PROVE  KeysInvariant'
<1> DEFINE k == [holder[h] EXCEPT !.secret = Zeros, !.closed = TRUE]
<1>1. Exists(h) /\ lineage' = lineage /\ UNCHANGED <<exports, signatures, exchanges>>
  BY DEF Close, IsWallet
<1>2. holder[h] \in HolderRecord /\ Inherits(holder[h], h, lineage[h])
  BY <1>1 DEF KeysInvariant
<1>3. holder' = [holder EXCEPT ![h] = k]
  BY DEF Close, KeysInvariant
<1>4. /\ k \in HolderRecord /\ k.classical = holder[h].classical /\ k.secret = Zeros
      /\ k.public = holder[h].public /\ k.kem = holder[h].kem /\ k.address = holder[h].address
  <2> DEFINE addresses == {NoHolder} \cup {AddressFrom(c, p) : c \in ClassicalKeys, p \in PublicKeys}
  <2>1. holder[h] \in [classical : ClassicalKeys, secret : SecretKeys, public : PublicKeys,
                       kem : Holders \cup {NoHolder}, address : addresses, closed : BOOLEAN]
    BY <1>2 DEF HolderRecord
  <2>2. Zeros \in SecretKeys
    BY DEF SecretKeys
  <2> HIDE DEF addresses
  <2>3. k \in [classical : ClassicalKeys, secret : SecretKeys, public : PublicKeys,
               kem : Holders \cup {NoHolder}, address : addresses, closed : BOOLEAN]
    BY <2>1, <2>2
  <2>4. QED
    BY <2>1, <2>3 DEF HolderRecord, addresses
<1>5. /\ k # NoHolder /\ Inherits(k, h, lineage[h])
  BY <1>2, <1>4, WalletAssumption DEF Inherits
<1> HIDE DEF k
<1>6. \A g \in Holders : holder'[g] = IF g = h THEN k ELSE holder[g]
  BY <1>3 DEF KeysInvariant
<1>7. ASSUME NEW o, Founder(o) PROVE Founder(o)' /\ holder'[o].classical = holder[o].classical
  BY <1>1, <1>4, <1>5, <1>6, <1>7 DEF Founder, Exists
<1>8. ASSUME NEW j, NEW o, FromOrigin(j, o)
      PROVE  Founder(o)' /\ j.classical = holder'[o].classical /\ j.secret \in {o, Zeros}
  BY <1>7, <1>8 DEF FromOrigin
<1>9. ASSUME NEW g \in Holders
      PROVE  (IF Exists(g)
              THEN /\ holder[g] \in HolderRecord /\ Inherits(holder[g], g, lineage[g])
                   /\ FromOrigin(holder[g], lineage[g].origin)
              ELSE lineage[g] = Own(g))'
  <2>1. CASE g = h
    <3>1. FromOrigin(holder[h], lineage[h].origin)
      BY <1>1 DEF KeysInvariant
    <3>2. QED
      BY <2>1, <3>1, <1>1, <1>4, <1>5, <1>6, <1>8 DEF Exists, Inherits, FromOrigin
  <2>2. CASE g # h
    <3>1. holder'[g] = holder[g] /\ lineage'[g] = lineage[g]
      BY <2>2, <1>1, <1>6
    <3>2. CASE Exists(g)
      <4>1. /\ holder[g] \in HolderRecord /\ Inherits(holder[g], g, lineage[g])
            /\ FromOrigin(holder[g], lineage[g].origin)
        BY <3>2 DEF KeysInvariant
      <4>2. Exists(g)'
        BY <3>1, <3>2 DEF Exists
      <4>3. QED
        BY <3>1, <4>1, <4>2, <1>8 DEF Inherits, FromOrigin
    <3>3. CASE ~Exists(g)
      BY <3>1, <3>3 DEF KeysInvariant, Exists, Own
    <3>4. QED
      BY <3>2, <3>3
  <2>3. QED
    BY <2>1, <2>2
<1>10. ASSUME NEW e \in exports PROVE FromOrigin(e, e.origin)'
  <2>1. FromOrigin(e, e.origin)
    BY DEF KeysInvariant
  <2>2. QED
    BY <2>1, <1>8 DEF FromOrigin
<1>11. ASSUME NEW s \in signatures
       PROVE  s.by \in Holders /\ Exists(s.by)' /\ FromOrigin(s, lineage[s.by].origin)'
  <2>1. s.by \in Holders /\ Exists(s.by) /\ FromOrigin(s, lineage[s.by].origin)
    BY DEF KeysInvariant
  <2>2. Exists(s.by)'
    BY <2>1, <1>5, <1>6 DEF Exists
  <2>3. QED
    BY <2>1, <2>2, <1>1, <1>8 DEF FromOrigin
<1>12. QED
  BY <1>1, <1>3, <1>6, <1>9, <1>10, <1>11 DEF KeysInvariant

(* What is signed, exported or encapsulated is what a holder has. *)
LEMMA KeysAreUsed ==
  ASSUME KeysInvariant, UNCHANGED <<holder, lineage>>,
         \A e \in exports' : e \in exports \/ FromOrigin(e, e.origin),
         \A s \in signatures' : s \in signatures \/ /\ s.by \in Holders /\ Exists(s.by)
                                                    /\ FromOrigin(s, lineage[s.by].origin),
         \A x \in exchanges' : x \in exchanges \/ x.secret = HybridKeyExchange(0, <<x.to, x.ciphertext>>)
  PROVE  KeysInvariant'
<1>1. holder' = holder /\ lineage' = lineage
  OBVIOUS
<1>2. ASSUME NEW k, NEW o, FromOrigin(k, o) PROVE FromOrigin(k, o)'
  BY <1>1, <1>2 DEF FromOrigin, Founder, Exists
<1>3. ASSUME NEW g \in Holders
      PROVE  (IF Exists(g)
              THEN /\ holder[g] \in HolderRecord /\ Inherits(holder[g], g, lineage[g])
                   /\ FromOrigin(holder[g], lineage[g].origin)
              ELSE lineage[g] = Own(g))'
  BY <1>1, <1>2 DEF KeysInvariant, Exists, Inherits, Own
<1>4. \A e \in exports' : FromOrigin(e, e.origin)'
  BY <1>2 DEF KeysInvariant
<1>5. ASSUME NEW s \in signatures'
      PROVE  s.by \in Holders /\ Exists(s.by)' /\ FromOrigin(s, lineage[s.by].origin)'
  <2>1. s.by \in Holders /\ Exists(s.by) /\ FromOrigin(s, lineage[s.by].origin)
    BY DEF KeysInvariant
  <2>2. QED
    BY <2>1, <1>1, <1>2 DEF Exists
<1>6. \A x \in exchanges' : x.secret = HybridKeyExchange(0, <<x.to, x.ciphertext>>)
  BY DEF KeysInvariant
<1>7. holder' = [h \in Holders |-> holder'[h]] /\ lineage' \in [Holders -> Lineage]
  BY <1>1 DEF KeysInvariant
<1>8. QED
  BY <1>3, <1>4, <1>5, <1>6, <1>7 DEF KeysInvariant

LEMMA KeysStay == KeysInvariant /\ [WalletNext]_walletVars => KeysInvariant'
<1> SUFFICES ASSUME KeysInvariant, [WalletNext]_walletVars PROVE KeysInvariant'
  OBVIOUS
<1>1. CASE UNCHANGED walletVars
  BY <1>1, KeysAreUsed DEF walletVars
<1>2. ASSUME NEW h \in Holders, SignTransaction(h) PROVE KeysInvariant'
  <2> DEFINE s == [by |-> h, classical |-> holder[h].classical, secret |-> holder[h].secret]
  <2>1. /\ Exists(h) /\ signatures' = signatures \cup {s}
        /\ UNCHANGED <<holder, exports, exchanges, lineage>>
    BY <1>2 DEF SignTransaction
  <2>2. FromOrigin(holder[h], lineage[h].origin)
    BY <2>1 DEF KeysInvariant
  <2>3. s.by \in Holders /\ Exists(s.by) /\ FromOrigin(s, lineage[s.by].origin)
    BY <2>1, <2>2 DEF FromOrigin
  <2> HIDE DEF s
  <2>4. QED
    BY <2>1, <2>3, KeysAreUsed
<1>3. ASSUME NEW h \in Holders, ExportKeys(h) PROVE KeysInvariant'
  <2> DEFINE e == [classical |-> holder[h].classical, secret |-> holder[h].secret,
                   kem |-> holder[h].kem, address |-> holder[h].address, origin |-> lineage[h].origin]
  <2>1. /\ Exists(h) /\ exports' = exports \cup {e}
        /\ UNCHANGED <<holder, signatures, exchanges, lineage>>
    BY <1>3 DEF ExportKeys, IsWallet
  <2>2. FromOrigin(holder[h], lineage[h].origin)
    BY <2>1 DEF KeysInvariant
  <2>3. FromOrigin(e, e.origin)
    BY <2>2 DEF FromOrigin
  <2> HIDE DEF e
  <2>4. QED
    BY <2>1, <2>3, KeysAreUsed
<1>4. ASSUME NEW h \in Holders, Encapsulate(h) PROVE KeysInvariant'
  <2> DEFINE n == Cardinality(exchanges)
             x == [to |-> h, ciphertext |-> n, secret |-> HybridKeyExchange(0, <<holder[h].kem, n>>)]
  <2>1. /\ IsWallet(h) /\ exchanges' = exchanges \cup {x}
        /\ UNCHANGED <<holder, exports, signatures, lineage>>
    BY <1>4 DEF Encapsulate, EncapsulateKyber
  <2>2. holder[h].kem = h
    BY <2>1 DEF KeysInvariant, IsWallet, Inherits
  <2>3. x.secret = HybridKeyExchange(0, <<x.to, x.ciphertext>>)
    BY <2>2
  <2> HIDE DEF x
  <2>4. QED
    BY <2>1, <2>3, KeysAreUsed
<1>5. QED
  BY <1>1, <1>2, <1>3, <1>4, NewWalletComes, ExportComesBack, SignerComes, WalletCloses DEF WalletNext

(* A signature verifies with no keys but those of the holder it was made for, and with
   those as they were generated; a secret is shared with the wallet that it was sent to:
   see KeysFit. *)
THEOREM KeysAlwaysFit == WalletSpec => []KeysFit
<1>1. KeysInvariant => KeysFit
  <2> SUFFICES ASSUME KeysInvariant, NEW h \in Holders, Exists(h)
               PROVE  /\ \A s \in signatures :
                           LET fits == lineage[h].origin = lineage[s.by].origin
                                       /\ s.secret # Zeros IN
                           /\ Verifies(h, s) => fits
                           /\ fits /\ ~lineage[h].restored => Verifies(h, s)
                      /\ IsWallet(h) => \A x \in exchanges :
                           /\ Opened(h, x) = x.secret => lineage[h].origin = lineage[x.to].origin
                           /\ h = x.to => Opened(h, x) = x.secret
    BY DEF KeysFit
  <2>1. /\ Inherits(holder[h], h, lineage[h])
        /\ FromOrigin(holder[h], lineage[h].origin)
    BY DEF KeysInvariant
  <2>2. ASSUME NEW s \in signatures
        PROVE  Verifies(h, s) <=> /\ lineage[h].origin = lineage[s.by].origin
                                  /\ ~lineage[h].restored
                                  /\ s.secret # Zeros
    <3>1. FromOrigin(s, lineage[s.by].origin)
      BY DEF KeysInvariant
    <3>2. /\ lineage[h].origin \in Holders /\ lineage[s.by].origin \in Holders
          /\ Zeros \notin Holders /\ s.secret \in SecretKeys
      BY <2>1, <3>1, WalletAssumption DEF FromOrigin, Founder, SecretKeys
    <3>3. CASE lineage[h].restored
      <4>1. holder[h].public \in DerivedKeys
        BY <2>1, <3>3 DEF Inherits
      <4>2. holder[h].public # s.secret
        BY <4>1, <3>2, WalletAssumption
      <4>3. QED
        BY <3>3, <4>2 DEF Verifies, VerifyDilithium
    <3>4. CASE ~lineage[h].restored
      <4>1. holder[h].public = lineage[h].origin
        BY <2>1, <3>4 DEF Inherits
      <4>2. /\ s.secret \in {lineage[s.by].origin, Zeros}
            /\ s.classical = holder[lineage[s.by].origin].classical
            /\ holder[h].classical = holder[lineage[h].origin].classical
        BY <2>1, <3>1 DEF FromOrigin
      <4>3. QED
        BY <3>2, <3>4, <4>1, <4>2 DEF Verifies, VerifyECDSA, VerifyDilithium
    <3>5. QED
      BY <3>3, <3>4
  <2>3. ASSUME IsWallet(h), NEW x \in exchanges PROVE Opened(h, x) = x.secret <=> h = x.to
    <3>1. holder[h].kem = h
      BY <2>1, <2>3 DEF IsWallet, Inherits
    <3>2. x.secret = <<0, <<x.to, x.ciphertext>>>>
      BY DEF KeysInvariant, HybridKeyExchange
    <3>3. Opened(h, x) = <<0, <<h, x.ciphertext>>>>
      BY <3>1 DEF Opened, HybridKeyExchange, DecapsulateKyber
    <3>4. QED
      BY <3>2, <3>3
  <2>4. QED
    BY <2>2, <2>3
<1>2. QED
  BY <1>1, KeysStart, KeysStay, PTL DEF WalletSpec
-----------------------------------------------------------------------------
(* Proofs and verdicts on them. *)

\* What holds of a circuit once it is made: its keys belong together if the application
\* built it.
CircuitFits(c) ==
  /\ c.model \in {Hash("file", f) : f \in Files} /\ c.input \in Inputs
  /\ c.bits \in Bits \cup SupportedBits
  /\ c.tool = "application" => c.vk # "" /\ Hash("bytes", c.vk) = c.pkHash

\* A proof is of an enclave, or was generated from a circuit, which production forbids.
ProofFits(p) ==
  \/ /\ p.type = "tee" /\ p.tee \in attestations
     /\ p.outputHash \in {Hash("output", output) : output \in Outputs}
  \/ /\ p.type \in {"zkml", "hybrid"} /\ ~production
     /\ IF p.type = "zkml" THEN p.tee = Absent ELSE p.tee \in attestations
     /\ \E c \in circuits : \/ p = Generated(c, c.input, "output", p.tee)
                            \/ p = Generated(c, c.input, "placeholder", p.tee)

VerdictInvariant ==
  /\ date \in 0..LastDate /\ production \in BOOLEAN
  /\ \A c \in circuits : CircuitFits(c)
  /\ \A a \in attestations : a.platform \in AttestedBy /\ a.at \in 0..LastDate
  /\ \A p \in proofs : ProofFits(p)
-----------------------------------------------------------------------------
(* Nothing is asked of the keys of a circuit that a tool made. *)
LEMMA ToolCircuit ==
  ASSUME NEW tool, tool # "application", NEW framework, NEW file \in Files, NEW input \in Inputs,
         NEW bits \in Bits \cup SupportedBits, NEW keys
  PROVE  CircuitFits(Circuit(tool, framework, file, input, bits, keys))
<1> DEFINE c == Circuit(tool, framework, file, input, bits, keys)
<1>1. c.model = Hash("file", file) /\ c.input = input /\ c.bits = bits /\ c.tool = tool
  BY DEF Circuit
<1> HIDE DEF c
<1>2. CircuitFits(c)
  BY <1>1 DEF CircuitFits
<1>3. QED
  BY <1>2 DEF c

LEMMA OwnCircuitFits ==
  ASSUME NEW framework, NEW file \in Files, NEW input \in Inputs,
         NEW bits \in Bits \cup SupportedBits, NEW keys,
         keys.pkHash = Hash("bytes", "OWN_KEY"), keys.vk = "OWN_KEY"
  PROVE  CircuitFits(Circuit("application", framework, file, input, bits, keys))
<1> DEFINE c == Circuit("application", framework, file, input, bits, keys)
<1>1. /\ c.model = Hash("file", file) /\ c.input = input /\ c.bits = bits
      /\ c.pkHash = keys.pkHash /\ c.tool = "application" /\ c.vk = keys.vk
  BY DEF Circuit
<1> HIDE DEF c
<1>2. CircuitFits(c)
  BY <1>1 DEF CircuitFits
<1>3. QED
  BY <1>2 DEF c

(* Whatever is built: one circuit more, from a file and an input. *)
LEMMA CircuitIsBuilt ==
  ASSUME CircuitsNext
  PROVE  \E c : circuits' = circuits \cup {c} /\ CircuitFits(c)
<1>1. PICK file \in Files, input \in Inputs :
        \/ \E framework \in Frameworks \cup {"detect"}, bits \in Bits :
             \/ FromNetwork(file, framework, input, bits) \/ FromOther(file, framework, input, bits)
             \/ \E calibrated \in BOOLEAN : FromConfig(file, framework, input, bits, calibrated)
        \/ \E target \in Targets, profile \in Profiles, precision \in Precisions, zkml \in BOOLEAN :
             Compile(file, input, target, profile, precision, zkml)
  BY DEF CircuitsNext
<1>2. ASSUME NEW framework, NEW bits \in Bits, Convert(file, framework, input, bits)
      PROVE  \E c : circuits' = circuits \cup {c} /\ CircuitFits(c)
  <2>1. CircuitFits(Circuit("converter", framework, file, input, bits, ConverterKeys))
    BY ToolCircuit
  <2>2. QED
    BY <1>2, <2>1 DEF Convert, Make
<1>3. ASSUME NEW target, target # "application", NEW framework, NEW bits \in {8, 16, 32},
             NEW keys, Make(Circuit(target, framework, file, input, bits, keys))
      PROVE  \E c : circuits' = circuits \cup {c} /\ CircuitFits(c)
  <2>1. bits \in Bits \cup SupportedBits
    BY DEF SupportedBits
  <2>2. CircuitFits(Circuit(target, framework, file, input, bits, keys))
    BY <1>3, <2>1, ToolCircuit
  <2>3. QED
    BY <1>3, <2>2 DEF Make
<1>4. ASSUME NEW framework \in Frameworks \cup {"detect"}, NEW bits \in Bits,
             \/ FromNetwork(file, framework, input, bits) \/ FromOther(file, framework, input, bits)
             \/ \E calibrated \in BOOLEAN : FromConfig(file, framework, input, bits, calibrated)
      PROVE  \E c : circuits' = circuits \cup {c} /\ CircuitFits(c)
  <2>1. \E known : Convert(file, known, input, bits)
    BY <1>4 DEF FromNetwork, FromOther, FromConfig
  <2>2. QED
    BY <1>2, <2>1
<1>5. ASSUME NEW asked, NEW profile, NEW precision, NEW zkml,
             Compile(file, input, asked, profile, precision, zkml)
      PROVE  \E c : circuits' = circuits \cup {c} /\ CircuitFits(c)
  <2>1. PICK target : \/ CompileVitis(file, input, target, zkml)
                      \/ CompileTensorRT(file, input, target, precision, zkml)
                      \/ CompileTEE(file, input, target)
    BY <1>5 DEF Compile
  <2>2. CASE CompileVitis(file, input, target, zkml)
    <3> DEFINE keys == IF zkml THEN CompilerKeys("FPGA_CIRCUIT_BINARY") ELSE NoKeys
    <3>1. Make(Circuit(target, "vitis_ai", file, input, 8, keys)) /\ target # "application"
      BY <2>2 DEF CompileVitis, Vitis
    <3> HIDE DEF keys
    <3>2. QED
      BY <1>3, <3>1
  <2>3. CASE CompileTensorRT(file, input, target, precision, zkml)
    <3> DEFINE keys == IF zkml THEN CompilerKeys("GPU_CIRCUIT_BINARY") ELSE NoKeys
               bits == IF precision \in {"int8", "auto"} THEN 8 ELSE 16
    <3>1. Make(Circuit(target, "tensorrt", file, input, bits, keys)) /\ target # "application"
      BY <2>3 DEF CompileTensorRT, TensorRT
    <3>2. bits \in {8, 16, 32}
      OBVIOUS
    <3> HIDE DEF keys, bits
    <3>3. QED
      BY <1>3, <3>1, <3>2
  <2>4. CASE CompileTEE(file, input, target)
    <3> DEFINE keys == CompilerKeys("TEE_CIRCUIT_BINARY")
    <3>1. Make(Circuit(target, "tee", file, input, 32, keys)) /\ target # "application"
      BY <2>4 DEF CompileTEE, TEE
    <3> HIDE DEF keys
    <3>2. QED
      BY <1>3, <3>1
  <2>5. QED
    BY <2>1, <2>2, <2>3, <2>4
<1>6. QED
  BY <1>1, <1>4, <1>5
-----------------------------------------------------------------------------
LEMMA VerdictStart == ProofInit => VerdictInvariant
  BY ProofAssumption DEF ProofInit, CircuitsInit, VerdictInvariant

(* Circuits, attestations and proofs are kept, and what is new fits. *)
LEMMA ProofsStay ==
  ASSUME VerdictInvariant, circuits \subseteq circuits', attestations \subseteq attestations',
         production' = production, NEW p, ProofFits(p)
  PROVE  ProofFits(p)'
  BY DEF ProofFits

LEMMA CircuitComes ==
  ASSUME VerdictInvariant, NEW c, CircuitFits(c), circuits' = circuits \cup {c},
         UNCHANGED <<date, production, attestations, proofs>>
  PROVE  VerdictInvariant'
<1>1. \A d \in circuits' : CircuitFits(d)
  BY DEF VerdictInvariant
<1>2. \A p \in proofs : ProofFits(p)'
  BY ProofsStay DEF VerdictInvariant
<1>3. QED
  BY <1>1, <1>2 DEF VerdictInvariant

LEMMA ProofComes ==
  ASSUME VerdictInvariant, NEW p, ProofFits(p), AddProof(p)
  PROVE  VerdictInvariant'
<1>1. /\ proofs' = proofs \cup {p} /\ circuits' = circuits /\ date' = date
      /\ production' = production /\ attestations' = attestations
  BY DEF AddProof
<1>2. ProofFits(p)' /\ \A q \in proofs : ProofFits(q)'
  BY <1>1, ProofsStay DEF VerdictInvariant
<1>3. \A q \in proofs' : ProofFits(q)'
  BY <1>1, <1>2
<1>4. QED
  BY <1>1, <1>3 DEF VerdictInvariant

LEMMA AttestationComes ==
  ASSUME VerdictInvariant, NEW platform \in AttestedBy, NEW at \in {0, LastDate}, NEW output,
         Attest(platform, at, output)
  PROVE  VerdictInvariant'
<1> DEFINE a == [platform |-> platform, at |-> at,
                 data |-> IF output = Absent THEN Absent ELSE Hash("output", output)]
<1>1. /\ attestations = {} /\ attestations' = {a} /\ proofs' = proofs /\ circuits' = circuits
      /\ date' = date /\ production' = production
  BY DEF Attest
<1>2. a.platform \in AttestedBy /\ a.at \in 0..LastDate
  BY ProofAssumption
<1> HIDE DEF a
<1>3. \A p \in proofs : ProofFits(p)'
  BY <1>1, ProofsStay DEF VerdictInvariant
<1>4. QED
  BY <1>1, <1>2, <1>3 DEF VerdictInvariant

LEMMA GeneratedFits ==
  ASSUME NEW c \in circuits, NEW output \in Outputs, NEW a \in attestations \cup {Absent},
         NEW input, input = c.input, ~production
  PROVE  ProofFits(Generated(c, input, output, a))
<1> DEFINE p == Generated(c, input, output, a)
<1>1. p.tee = a /\ p.type = IF a = Absent THEN "zkml" ELSE "hybrid"
  BY DEF Generated
<1>2. \/ p = Generated(c, c.input, "output", p.tee)
      \/ p = Generated(c, c.input, "placeholder", p.tee)
  BY <1>1 DEF Outputs
<1> HIDE DEF p
<1>3. ProofFits(p)
  BY <1>1, <1>2 DEF ProofFits
<1>4. QED
  BY <1>3 DEF p

LEMMA VerdictStep == VerdictInvariant /\ [ProofNext]_proofVars => VerdictInvariant'
<1> SUFFICES ASSUME VerdictInvariant, [ProofNext]_proofVars
             PROVE  VerdictInvariant'
  OBVIOUS
<1>1. CASE UNCHANGED proofVars
  <2>1. circuits' = circuits /\ date' = date /\ production' = production
        /\ attestations' = attestations /\ proofs' = proofs
    BY <1>1 DEF proofVars
  <2>2. \A p \in proofs : ProofFits(p)'
    BY <2>1, ProofsStay DEF VerdictInvariant
  <2>3. QED
    BY <2>1, <2>2 DEF VerdictInvariant
<1>2. CASE NextDate
  <2>1. circuits' = circuits /\ date' \in 0..LastDate /\ production' = production
        /\ attestations' = attestations /\ proofs' = proofs
    BY <1>2, ProofAssumption DEF NextDate, VerdictInvariant
  <2>2. \A p \in proofs : ProofFits(p)'
    BY <2>1, ProofsStay DEF VerdictInvariant
  <2>3. QED
    BY <2>1, <2>2 DEF VerdictInvariant
<1>3. CASE Build
  <2>1. PICK c : circuits' = circuits \cup {c} /\ CircuitFits(c)
    BY <1>3, CircuitIsBuilt DEF Build
  <2>2. QED
    BY <1>3, <2>1, CircuitComes DEF Build
<1>4. ASSUME NEW file \in Files, NEW input \in Inputs, OwnCircuit(file, input)
      PROVE  VerdictInvariant'
  <2> DEFINE keys == [vk |-> "OWN_KEY", pkHash |-> Hash("bytes", "OWN_KEY"), binary |-> "OWN_BINARY"]
             c == Circuit("application", "pytorch", file, input, 8, keys)
  <2>1. circuits' = circuits \cup {c} /\ UNCHANGED <<date, production, attestations, proofs>>
    BY <1>4 DEF OwnCircuit, Make
  <2>2. keys.pkHash = Hash("bytes", "OWN_KEY") /\ keys.vk = "OWN_KEY"
    OBVIOUS
  <2>3. 8 \in Bits \cup SupportedBits
    BY DEF SupportedBits
  <2> HIDE DEF keys
  <2>4. CircuitFits(c)
    BY <2>2, <2>3, OwnCircuitFits
  <2> HIDE DEF c
  <2>5. QED
    BY <2>1, <2>4, CircuitComes
<1>5. ASSUME NEW file \in Files, NEW input \in Inputs, NEW a \in attestations,
             NEW output \in Outputs, TEEProof(a, input, output, file)
      PROVE  VerdictInvariant'
  <2> DEFINE p == [type |-> "tee", zk |-> Absent, tee |-> a, inputHash |-> Hash("input", input),
                   outputHash |-> Hash("output", output), modelHash |-> Hash("file", file)]
  <2>1. AddProof(p)
    BY <1>5 DEF TEEProof
  <2>2. p.type = "tee" /\ p.tee = a /\ p.outputHash = Hash("output", output)
    OBVIOUS
  <2> HIDE DEF p
  <2>3. QED
    BY <2>1, <2>2, ProofComes DEF ProofFits
<1>6. ASSUME NEW c \in circuits, NEW input \in Inputs, NEW output \in Outputs,
             NEW system \in ProofSystems, NEW a \in attestations \cup {Absent},
             Generate(c, input, output, system, a)
      PROVE  VerdictInvariant'
  <2> DEFINE p == Generated(c, input, output, a)
  <2>1. AddProof(p) /\ input = c.input /\ ~production
    BY <1>6 DEF Generate
  <2>2. ProofFits(p)
    BY <2>1, GeneratedFits
  <2> HIDE DEF p
  <2>3. QED
    BY <2>1, <2>2, ProofComes
<1>7. ASSUME NEW platform \in AttestedBy, NEW at \in {0, LastDate},
             NEW output \in Outputs \cup {Absent}, Attest(platform, at, output)
      PROVE  VerdictInvariant'
  BY <1>7, AttestationComes
<1>8. QED
  BY <1>1, <1>2, <1>3, <1>4, <1>5, <1>6, <1>7 DEF ProofNext
-----------------------------------------------------------------------------
\* A proof and what a verifier says of it.
LEMMA OwnKeyVerifies ==
  ASSUME VerdictInvariant, ~production, NEW c \in circuits, c.tool = "application",
         NEW p, NEW output, p = Generated(c, c.input, output, p.tee)
  PROVE  ZKStatus(p, c.vk) = "valid"
<1>1. c.vk # "" /\ Hash("bytes", c.vk) = c.pkHash
  BY DEF VerdictInvariant, CircuitFits
<1>2. p.zk = Prove(c, c.input, output)
  BY DEF Generated
<1>3. p.zk.inputs = <<Hash("input", c.input), Hash("output", output)>> /\ p.zk.vkHash = c.pkHash
  BY <1>2 DEF Prove
<1>4. p.zk.inputs # <<>>
  BY <1>3
<1>5. QED
  BY <1>1, <1>3, <1>4 DEF ZKStatus, ZKVerify

LEMMA AttestationCounts ==
  ASSUME VerdictInvariant, NEW a \in attestations
  PROVE  TEEVerify(a, Absent, date) = "valid" <=> a.platform \in Platforms /\ date <= a.at + MaxAge
<1>1. date \in Int /\ a.at \in Int /\ MaxAge \in Int
  BY ProofAssumption DEF VerdictInvariant
<1>2. Fresh(a, date) <=> date <= a.at + MaxAge
  BY <1>1 DEF Fresh
<1>3. QED
  BY <1>2 DEF TEEVerify

LEMMA HoldsUp ==
  ASSUME VerdictInvariant, NEW c \in circuits, NEW p \in proofs, NEW output, NEW expected,
         c.tool = "application", p = Generated(c, c.input, output, p.tee)
  PROVE  Status(p, c.vk, expected, date) = "valid" <=> AsExpected(p, expected) /\ WellAttested(p)
<1>1. p.type = IF p.tee = Absent THEN "zkml" ELSE "hybrid"
  BY DEF Generated
<1>2. ~production /\ (p.tee = Absent \/ p.tee \in attestations)
  BY <1>1 DEF VerdictInvariant, ProofFits
<1>3. ZKStatus(p, c.vk) = "valid"
  BY <1>2, OwnKeyVerifies
<1>4. CASE p.tee = Absent
  BY <1>1, <1>3, <1>4 DEF Status, AsExpected, WellAttested
<1>5. CASE p.tee # Absent
  <2>1. HybridStatus(p, c.vk, date) = "valid" <=> WellAttested(p)
    BY <1>2, <1>3, <1>5, AttestationCounts DEF HybridStatus, WellAttested
  <2>2. QED
    BY <1>1, <1>5, <2>1 DEF Status, AsExpected
<1>6. QED
  BY <1>4, <1>5

(* For any circuits, attestations, proofs and dates: a proof from a circuit of the
   application's own verifies with its key, until its attestation is too old. *)
THEOREM ProofsKeepUp == ProofSpec => []ProofsHoldUp
<1>1. ASSUME VerdictInvariant PROVE ProofsHoldUp
  <2>1. ASSUME NEW c \in circuits, NEW p \in proofs, NEW output \in Outputs,
               c.tool = "application", p = Generated(c, c.input, output, p.tee),
               NEW expected \in Expectations(p)
        PROVE  Status(p, c.vk, expected, date) = "valid" <=> AsExpected(p, expected) /\ WellAttested(p)
    BY <1>1, <2>1, HoldsUp
  <2>2. QED
    BY <2>1 DEF ProofsHoldUp
<1>2. QED
  BY <1>1, VerdictStart, VerdictStep, PTL DEF ProofSpec
-----------------------------------------------------------------------------
(* The middleware and the wrapped calls. *)

Bytes == Seq(Nat)
Emissions == [output : Bytes, truncated : BOOLEAN, input : Nat, inputTruncated : BOOLEAN]
Client == [started : BOOLEAN, bytes : Bytes, ended : BOOLEAN]
Starts == {"none", "held", "overtaken", "sent"}
Exchange == [processed : BOOLEAN, read : Nat, captured : Nat, requestTruncated : BOOLEAN,
             sent : Bytes, start : Starts, buffered : Bytes, streamed : BOOLEAN,
             emitted : Emissions \cup {Unset}, ended : BOOLEAN, client : Client]

\* What was captured of the request is its beginning.
RequestFits(w) ==
  /\ w.read <= MaxBody /\ w.captured <= MaxCapture
  /\ w.requestTruncated => w.read > MaxCapture
  /\ ~w.requestTruncated => w.captured = w.read

\* While the start is held all is in the buffer; once it was sent the client has all of
\* it, unless the application has returned without an end; what is not processed
\* passes; and once a record was refused, the client has a rest.
AllWithClient(w) == w.buffered = <<>> /\ w.client.bytes = w.sent
AllInBuffer(w) == w.client.bytes = <<>> /\ w.buffered = w.sent
RestWithClient(w) ==
  \E lost \in Len(w.buffered)..Len(w.sent) :
    w.client.bytes = SubSeq(w.sent, lost + 1, Len(w.sent))

PassedFits(w) ==
  /\ AllWithClient(w) /\ w.start = "none" /\ w.emitted = Unset /\ ~w.streamed
  /\ w.client.ended \/ w.client.bytes # <<>> => w.client.started
BufferedFits(w) ==
  /\ AllInBuffer(w) /\ w.emitted = Unset /\ ~w.client.started /\ ~w.client.ended
StreamedFits(w) ==
  /\ w.start = "sent" /\ w.client.started /\ w.emitted \in Emissions
  /\ AllWithClient(w) /\ w.emitted.truncated /\ IsPrefix(w.emitted.output, w.client.bytes)
EndedFits(w) ==
  /\ w.client.started /\ w.emitted \in Emissions
  /\ w.client.ended /\ w.emitted.output = w.client.bytes
  /\ AllWithClient(w) \/ (AllInBuffer(w) /\ w.ended)

ResponseFits(w) ==
  /\ Len(w.sent) <= MaxBody /\ Len(w.buffered) <= MaxCapture
  /\ ~w.processed => PassedFits(w)
  /\ w.processed /\ ~w.streamed /\ w.start # "sent" => BufferedFits(w)
  /\ w.processed /\ ~w.streamed /\ w.start = "sent" => EndedFits(w)
  /\ w.processed /\ w.streamed /\ ~Refused(w) => StreamedFits(w)
  /\ w.processed /\ w.streamed /\ Refused(w) => RestWithClient(w)

WebFits(w) == w \in Exchange /\ RequestFits(w) /\ ResponseFits(w)
-----------------------------------------------------------------------------
LEMMA PrefixOfItself ==
  ASSUME NEW S, NEW s \in Seq(S)
  PROVE  IsPrefix(s, s) /\ IsPrefix(<<>>, s)
<1>1. Len(s) \in Nat /\ Len(<<>>) = 0 /\ Len(s) <= Len(s)
  BY LenProperties, EmptySeq
<1>2. SubSeq(<<>>, 1, 0) = <<>> /\ SubSeq(s, 1, 0) = <<>>
  BY SubSeqEmpty
<1>3. QED
  BY <1>1, <1>2 DEF IsPrefix

LEMMA PrefixOfLonger ==
  ASSUME NEW S, NEW s \in Seq(S), NEW t \in Seq(S), NEW u \in Seq(S), IsPrefix(s, t)
  PROVE  IsPrefix(s, t \o u)
<1>1. Len(s) \in Nat /\ Len(t) \in Nat /\ Len(u) \in Nat /\ Len(s) <= Len(t)
  BY LenProperties DEF IsPrefix
<1>2. /\ t \o u \in Seq(S) /\ Len(t \o u) = Len(t) + Len(u)
      /\ \A i \in 1..Len(t) + Len(u) : (t \o u)[i] = IF i <= Len(t) THEN t[i] ELSE u[i - Len(t)]
  BY ConcatProperties
<1> DEFINE both == t \o u
           a == SubSeq(t, 1, Len(s))
           b == SubSeq(both, 1, Len(s))
<1> HIDE DEF both
<1>3. \A i \in 1..Len(s) : t[i] \in S /\ both[i] = t[i]
  <2>1. \A i \in 1..Len(s) : i \in 1..Len(t) /\ i \in 1..Len(t) + Len(u) /\ i <= Len(t)
    BY <1>1
  <2>2. \A i \in 1..Len(t) : t[i] \in S
    BY ElementOfSeq
  <2>3. QED
    BY <1>2, <2>1, <2>2 DEF both
<1>4. /\ a \in Seq(S) /\ Len(a) = Len(s) /\ \A i \in 1..Len(s) : a[i] = t[i]
  <2>1. \A i \in 1..Len(s) : t[i] \in S
    BY <1>3
  <2>2. QED
    BY <1>1, <2>1, SubSeqProperties
<1>5. /\ b \in Seq(S) /\ Len(b) = Len(s) /\ \A i \in 1..Len(s) : b[i] = both[i]
  <2>1. \A i \in 1..Len(s) : both[i] \in S
    BY <1>3
  <2>2. QED
    BY <1>1, <2>1, SubSeqProperties
<1> HIDE DEF a, b
<1>6. Len(a) = Len(b) /\ \A i \in 1..Len(a) : a[i] = b[i]
  BY <1>3, <1>4, <1>5
<1>7. a = b
  BY <1>4, <1>5, <1>6, SeqEqual
<1>8. QED
  BY <1>1, <1>2, <1>7 DEF IsPrefix, a, b, both

LEMMA ChunkIsBytes ==
  ASSUME web \in Exchange, NEW n \in Nat
  PROVE  Chunk(n) \in Bytes /\ Len(Chunk(n)) = n
<1>1. Len(web.sent) \in Nat
  BY LenProperties DEF Exchange, Bytes
<1>2. \A i \in 1..n : Len(web.sent) + i \in Nat
  BY <1>1
<1>3. QED
  BY <1>2 DEF Chunk, Bytes

(* What the client is told of a body and of the end. *)
ClientTold(w, bytes, ended, left) ==
  [w EXCEPT !.client.bytes = bytes, !.client.ended = ended, !.buffered = left]
Sending(w, sent, buffered, streamed) ==
  [w EXCEPT !.sent = sent, !.buffered = buffered, !.streamed = streamed]
Passed(w, sent, started, bytes, ended) ==
  [w EXCEPT !.sent = sent, !.client.started = started, !.client.bytes = bytes, !.client.ended = ended]

\* What Emitted() and ClientTold() leave.
EmittedOf(e, w, output, truncated) ==
  /\ e \in Exchange /\ e.start = "sent" /\ e.emitted \in Emissions
  /\ e.emitted.output = output /\ e.emitted.truncated = truncated
  /\ e.client.started /\ e.client.bytes = w.client.bytes /\ e.client.ended = w.client.ended
  /\ e.processed = w.processed /\ e.read = w.read /\ e.captured = w.captured
  /\ e.requestTruncated = w.requestTruncated /\ e.sent = w.sent
  /\ e.buffered = w.buffered /\ e.streamed = w.streamed /\ e.ended = w.ended
ToldOf(e, w, bytes, ended, left) ==
  /\ e \in Exchange /\ e.client.bytes = bytes /\ e.client.ended = ended
  /\ e.buffered = left /\ e.client.started = w.client.started
  /\ e.processed = w.processed /\ e.read = w.read /\ e.captured = w.captured
  /\ e.requestTruncated = w.requestTruncated /\ e.sent = w.sent
  /\ e.start = w.start /\ e.emitted = w.emitted
  /\ e.streamed = w.streamed /\ e.ended = w.ended

RecordedOf(e, w, output, truncated, bytes, ended, left) ==
  /\ e \in Exchange /\ e.start = "sent" /\ e.emitted \in Emissions
  /\ e.emitted.output = output /\ e.emitted.truncated = truncated
  /\ e.client.started /\ e.client.bytes = bytes /\ e.client.ended = ended
  /\ e.processed = w.processed /\ e.read = w.read /\ e.captured = w.captured
  /\ e.requestTruncated = w.requestTruncated /\ e.sent = w.sent
  /\ e.buffered = left /\ e.streamed = w.streamed /\ e.ended = w.ended

(* Fields of what wrapped_send() leaves. *)
LEMMA EmittedFields ==
  ASSUME NEW w \in Exchange, NEW output \in Bytes, NEW truncated \in BOOLEAN
  PROVE  EmittedOf(Emitted(w, output, truncated), w, output, truncated)
<1> DEFINE e == Emitted(w, output, truncated)
           m == [output |-> output, truncated |-> truncated,
                 input |-> w.captured, inputTruncated |-> w.requestTruncated]
           sets == Emissions \cup {Unset}
           c == w.client
           d == [c EXCEPT !.started = TRUE]
           bytes == Bytes
<1>1. m \in Emissions /\ m.output = output /\ m.truncated = truncated
  BY DEF Emissions, Exchange
<1>2. m \in sets
  BY <1>1
<1>3. c \in [started : BOOLEAN, bytes : bytes, ended : BOOLEAN]
  BY DEF Exchange, Client
<1>4. e = [w EXCEPT !.emitted = m, !.start = "sent", !.client = d]
  BY DEF Emitted
<1> HIDE DEF m, sets, c, bytes
<1>5. d \in [started : BOOLEAN, bytes : bytes, ended : BOOLEAN] /\ d.started
      /\ d.bytes = c.bytes /\ d.ended = c.ended
  BY <1>3
<1> HIDE DEF d, e
<1> DEFINE client == Client
           starts == Starts
           nats == Nat
<1>6. /\ w \in [processed : BOOLEAN, read : nats, captured : nats, requestTruncated : BOOLEAN,
                sent : bytes, start : starts, buffered : bytes, streamed : BOOLEAN,
                emitted : sets, ended : BOOLEAN, client : client]
      /\ d \in client /\ "sent" \in starts
  BY <1>5 DEF Exchange, bytes, sets, Client, Starts
<1> HIDE DEF client, starts, nats
<1>7. e \in [processed : BOOLEAN, read : nats, captured : nats, requestTruncated : BOOLEAN,
             sent : bytes, start : starts, buffered : bytes, streamed : BOOLEAN,
             emitted : sets, ended : BOOLEAN, client : client]
  BY <1>2, <1>4, <1>6
<1>8. /\ e.start = "sent" /\ e.emitted = m /\ e.client = d
      /\ e.processed = w.processed /\ e.read = w.read /\ e.captured = w.captured
      /\ e.requestTruncated = w.requestTruncated /\ e.sent = w.sent
      /\ e.buffered = w.buffered /\ e.streamed = w.streamed /\ e.ended = w.ended
  BY <1>4, <1>6
<1>9. e \in Exchange
  BY <1>7 DEF Exchange, bytes, sets, client, starts, nats
<1>10. QED
  BY <1>1, <1>5, <1>8, <1>9 DEF c, e, EmittedOf

LEMMA ToldFields ==
  ASSUME NEW w \in Exchange, NEW bytes \in Bytes, NEW ended \in BOOLEAN, NEW left \in Bytes
  PROVE  ToldOf(ClientTold(w, bytes, ended, left), w, bytes, ended, left)
<1> DEFINE e == ClientTold(w, bytes, ended, left)
           c == w.client
           d == [started |-> c.started, bytes |-> bytes, ended |-> ended]
           strings == Bytes
           starts == Starts
           nats == Nat
           sets == Emissions \cup {Unset}
           client == [started : BOOLEAN, bytes : strings, ended : BOOLEAN]
           space == [processed : BOOLEAN, read : nats, captured : nats, requestTruncated : BOOLEAN,
                     sent : strings, start : starts, buffered : strings, streamed : BOOLEAN,
                     emitted : sets, ended : BOOLEAN, client : client]
<1>1. space = Exchange /\ w \in space /\ c \in client /\ bytes \in strings /\ left \in strings
  BY DEF Exchange, Client
<1> HIDE DEF strings, starts, nats, sets
<1>2. d \in client
  BY <1>1
<1>3. [[c EXCEPT !.bytes = bytes] EXCEPT !.ended = ended] = d
  <2> DEFINE a == [c EXCEPT !.bytes = bytes]
             b == [a EXCEPT !.ended = ended]
  <2>1. a \in client /\ a.started = c.started /\ a.bytes = bytes
    BY <1>1
  <2> HIDE DEF a, d
  <2>2. b \in client /\ b.started = c.started /\ b.bytes = bytes /\ b.ended = ended
    BY <2>1
  <2> HIDE DEF b, c
  <2>3. b = [started |-> b.started, bytes |-> b.bytes, ended |-> b.ended]
    BY <2>2
  <2>4. QED
    BY <2>2, <2>3 DEF a, b, d
<1>4. e = [w EXCEPT !.client = d, !.buffered = left]
  <2> DEFINE a == [c EXCEPT !.bytes = bytes]
             r == [w EXCEPT !.client = a]
             q == [r EXCEPT !.client = d]
  <2>1. [w EXCEPT !.client.bytes = bytes] = r
    OBVIOUS
  <2>2. r \in [processed : BOOLEAN, read : nats, captured : nats, requestTruncated : BOOLEAN,
               sent : strings, start : starts, buffered : strings, streamed : BOOLEAN,
               emitted : sets, ended : BOOLEAN, client : client] /\ r.client = a
    BY <1>1
  <2>3. [a EXCEPT !.ended = ended] = d
    BY <1>3
  <2> HIDE DEF a, r, d
  <2>4. [r EXCEPT !.client.ended = ended] = q
    BY <2>2, <2>3
  <2>5. e = [q EXCEPT !.buffered = left]
    BY <2>1, <2>4 DEF ClientTold
  <2>6. q = [w EXCEPT !.client = d]
    BY <1>1, <2>2 DEF r
  <2>7. QED
    BY <2>5, <2>6
<1>5. d.started = c.started /\ d.bytes = bytes /\ d.ended = ended
  OBVIOUS
<1> HIDE DEF d, client, e
<1>6. e \in space
  BY <1>1, <1>2, <1>4
<1>7. /\ e.client = d /\ e.buffered = left
      /\ e.processed = w.processed /\ e.read = w.read /\ e.captured = w.captured
      /\ e.requestTruncated = w.requestTruncated /\ e.sent = w.sent
      /\ e.start = w.start /\ e.emitted = w.emitted
      /\ e.streamed = w.streamed /\ e.ended = w.ended
  BY <1>1, <1>4
<1> HIDE DEF space
<1>8. QED
  BY <1>1, <1>5, <1>6, <1>7 DEF e, ToldOf
-----------------------------------------------------------------------------
(* Fields of the response with another chunk. *)
LEMMA SentFields ==
  ASSUME NEW w \in Exchange, NEW sent \in Bytes, NEW buffered \in Bytes, NEW streamed \in BOOLEAN
  PROVE  LET e == Sending(w, sent, buffered, streamed) IN
         /\ e \in Exchange /\ e.sent = sent /\ e.buffered = buffered /\ e.streamed = streamed
         /\ e.processed = w.processed /\ e.read = w.read /\ e.captured = w.captured
         /\ e.requestTruncated = w.requestTruncated /\ e.client = w.client
         /\ e.start = w.start /\ e.emitted = w.emitted /\ e.ended = w.ended
<1> DEFINE e == Sending(w, sent, buffered, streamed)
           strings == Bytes
           starts == Starts
           nats == Nat
           sets == Emissions \cup {Unset}
           client == Client
           space == [processed : BOOLEAN, read : nats, captured : nats, requestTruncated : BOOLEAN,
                     sent : strings, start : starts, buffered : strings, streamed : BOOLEAN,
                     emitted : sets, ended : BOOLEAN, client : client]
<1>1. space = Exchange /\ w \in space /\ sent \in strings /\ buffered \in strings
  BY DEF Exchange
<1> HIDE DEF strings, starts, nats, sets, client
<1>2. e \in space
  BY <1>1 DEF Sending
<1>3. /\ e.sent = sent /\ e.buffered = buffered /\ e.streamed = streamed
      /\ e.processed = w.processed /\ e.read = w.read /\ e.captured = w.captured
      /\ e.requestTruncated = w.requestTruncated /\ e.client = w.client
      /\ e.start = w.start /\ e.emitted = w.emitted /\ e.ended = w.ended
  BY <1>1 DEF Sending
<1> HIDE DEF space, e
<1>4. QED
  BY <1>1, <1>2, <1>3 DEF e, ToldOf

LEMMA FinishedFields ==
  ASSUME NEW w \in Exchange
  PROVE  LET e == Finished(w) IN
         /\ e \in Exchange /\ e.ended
         /\ e.processed = w.processed /\ e.read = w.read /\ e.captured = w.captured
         /\ e.requestTruncated = w.requestTruncated /\ e.client = w.client
         /\ e.start = w.start /\ e.emitted = w.emitted /\ e.sent = w.sent
         /\ e.buffered = w.buffered /\ e.streamed = w.streamed
<1> DEFINE e == Finished(w)
           strings == Bytes
           starts == Starts
           nats == Nat
           sets == Emissions \cup {Unset}
           client == Client
           space == [processed : BOOLEAN, read : nats, captured : nats, requestTruncated : BOOLEAN,
                     sent : strings, start : starts, buffered : strings, streamed : BOOLEAN,
                     emitted : sets, ended : BOOLEAN, client : client]
<1>1. space = Exchange /\ w \in space
  BY DEF Exchange
<1> HIDE DEF strings, starts, nats, sets, client
<1>2. e \in space
  BY <1>1 DEF Finished
<1>3. /\ e.ended
      /\ e.processed = w.processed /\ e.read = w.read /\ e.captured = w.captured
      /\ e.requestTruncated = w.requestTruncated /\ e.client = w.client
      /\ e.start = w.start /\ e.emitted = w.emitted /\ e.sent = w.sent
      /\ e.buffered = w.buffered /\ e.streamed = w.streamed
  BY <1>1 DEF Finished
<1> HIDE DEF space, e
<1>4. QED
  BY <1>1, <1>2, <1>3 DEF e

\* What is held and what the client has stay as they are.
LEMMA SameResponse ==
  ASSUME NEW w, NEW e, ResponseFits(w), w.ended => e.ended,
         e.processed = w.processed, e.client = w.client, e.start = w.start, e.emitted = w.emitted,
         e.sent = w.sent, e.buffered = w.buffered, e.streamed = w.streamed
  PROVE  ResponseFits(e)
<1>1. /\ AllWithClient(w) => AllWithClient(e) /\ (AllInBuffer(w) => AllInBuffer(e))
      /\ Refused(e) = Refused(w) /\ (RestWithClient(w) => RestWithClient(e))
  BY DEF AllWithClient, AllInBuffer, Refused, RestWithClient
<1>2. /\ PassedFits(w) => PassedFits(e)
      /\ BufferedFits(w) => BufferedFits(e)
      /\ StreamedFits(w) => StreamedFits(e)
      /\ EndedFits(w) => EndedFits(e)
  BY DEF PassedFits, BufferedFits, StreamedFits, EndedFits, AllWithClient, AllInBuffer
<1>3. QED
  BY <1>1, <1>2 DEF ResponseFits

LEMMA FinishedFits ==
  ASSUME NEW w, WebFits(w)
  PROVE  WebFits(Finished(w))
<1> DEFINE e == Finished(w)
<1>1. w \in Exchange
  BY DEF WebFits
<1>2. /\ e \in Exchange /\ e.ended
      /\ e.processed = w.processed /\ e.read = w.read /\ e.captured = w.captured
      /\ e.requestTruncated = w.requestTruncated /\ e.client = w.client
      /\ e.start = w.start /\ e.emitted = w.emitted /\ e.sent = w.sent
      /\ e.buffered = w.buffered /\ e.streamed = w.streamed
  BY <1>1, FinishedFields
<1> HIDE DEF e
<1>3. ResponseFits(e)
  BY <1>2, SameResponse DEF WebFits
<1>4. WebFits(e)
  BY <1>2, <1>3 DEF WebFits, RequestFits
<1>5. QED
  BY <1>4 DEF e

LEMMA Joining ==
  ASSUME NEW s \in Bytes, NEW t \in Bytes
  PROVE  /\ s \o t \in Bytes /\ Len(s \o t) = Len(s) + Len(t)
         /\ s \o <<>> = s /\ <<>> \o s = s /\ <<>> \in Bytes /\ Len(<<>>) = 0
BY ConcatProperties, ConcatEmptySeq, EmptySeq DEF Bytes

LEMMA ReceivingFits ==
  ASSUME WebFits(web), NEW n \in 1..MaxBody, AppReceives(n)
  PROVE  WebFits(web')
<1> USE IntegrationAssumption
<1> DEFINE strings == Bytes
           starts == Starts
           sets == Emissions \cup {Unset}
           client == Client
           space == [processed : BOOLEAN, read : Nat, captured : Nat, requestTruncated : BOOLEAN,
                     sent : strings, start : starts, buffered : strings, streamed : BOOLEAN,
                     emitted : sets, ended : BOOLEAN, client : client]
           remaining == MaxCapture - web.captured
           captured == IF web.requestTruncated THEN web.captured
                       ELSE web.captured + IF n < remaining THEN n ELSE remaining
           truncated == web.requestTruncated \/ n > remaining
           read == web.read + n
<1>1. space = Exchange /\ web \in space /\ RequestFits(web) /\ ResponseFits(web)
  BY DEF Exchange, WebFits
<1> HIDE DEF strings, starts, sets, client
<1>2. web.captured \in Nat /\ web.read \in Nat /\ web.requestTruncated \in BOOLEAN
  BY <1>1
<1>3. /\ captured \in Nat /\ read \in Nat /\ truncated \in BOOLEAN
      /\ captured <= MaxCapture /\ read <= MaxBody
      /\ truncated => read > MaxCapture
      /\ ~truncated => captured = read
  BY <1>1, <1>2 DEF RequestFits, AppReceives
<1>4. web' = [web EXCEPT !.read = read, !.captured = captured, !.requestTruncated = truncated]
  BY <1>1 DEF AppReceives
<1> HIDE DEF captured, truncated, read
<1>5. web' \in space
  BY <1>1, <1>3, <1>4
<1>6. /\ web'.read = read /\ web'.captured = captured /\ web'.requestTruncated = truncated
      /\ web'.processed = web.processed /\ web'.client = web.client
      /\ web'.start = web.start /\ web'.emitted = web.emitted /\ web'.sent = web.sent
      /\ web'.buffered = web.buffered /\ web'.streamed = web.streamed /\ web'.ended = web.ended
  BY <1>1, <1>4
<1> HIDE DEF space
<1>7. RequestFits(web')
  BY <1>3, <1>6 DEF RequestFits
<1>8. ResponseFits(web')
  BY <1>1, <1>6, SameResponse
<1>9. QED
  BY <1>1, <1>5, <1>7, <1>8 DEF WebFits

\* A start that is held changes nothing else.
LEMMA StartTurns ==
  ASSUME NEW w, NEW e, ResponseFits(w), w.processed, w.start # "sent", e.start # "sent",
         e.processed = w.processed, e.client = w.client, e.emitted = w.emitted,
         e.sent = w.sent, e.buffered = w.buffered, e.streamed = w.streamed
  PROVE  ResponseFits(e)
<1>1. /\ AllInBuffer(w) => AllInBuffer(e)
      /\ Refused(e) = Refused(w) /\ (RestWithClient(w) => RestWithClient(e))
  BY DEF AllInBuffer, Refused, RestWithClient
<1>2. BufferedFits(w) => BufferedFits(e)
  BY <1>1 DEF BufferedFits
<1>3. ~StreamedFits(w)
  BY DEF StreamedFits
<1>4. QED
  BY <1>1, <1>2, <1>3 DEF ResponseFits

LEMMA StartingFits ==
  ASSUME WebFits(web), NEW start \in {"held", "overtaken"}, web.start # "sent", web.processed,
         web' = [web EXCEPT !.start = start]
  PROVE  WebFits(web')
<1> DEFINE strings == Bytes
           nats == Nat
           starts == Starts
           sets == Emissions \cup {Unset}
           client == Client
           space == [processed : BOOLEAN, read : nats, captured : nats, requestTruncated : BOOLEAN,
                     sent : strings, start : starts, buffered : strings, streamed : BOOLEAN,
                     emitted : sets, ended : BOOLEAN, client : client]
<1>1. space = Exchange /\ web \in space /\ RequestFits(web) /\ ResponseFits(web)
      /\ start \in starts
  BY DEF Exchange, WebFits, Starts
<1> HIDE DEF strings, starts, sets, client, nats
<1>2. web' = [web EXCEPT !.start = start]
  OBVIOUS
<1>3. web' \in space
  BY <1>1, <1>2
<1>4. /\ web'.start = start /\ web'.read = web.read /\ web'.captured = web.captured
      /\ web'.requestTruncated = web.requestTruncated
      /\ web'.processed = web.processed /\ web'.client = web.client
      /\ web'.emitted = web.emitted /\ web'.sent = web.sent
      /\ web'.buffered = web.buffered /\ web'.streamed = web.streamed /\ web'.ended = web.ended
  BY <1>1, <1>2
<1> HIDE DEF space
<1>5. RequestFits(web')
  BY <1>1, <1>4 DEF RequestFits
<1>6. ResponseFits(web')
  BY <1>1, <1>2, <1>4, StartTurns
<1>7. QED
  BY <1>1, <1>3, <1>5, <1>6 DEF WebFits

LEMMA PassedFields ==
  ASSUME NEW w \in Exchange, NEW sent \in Bytes, NEW started \in BOOLEAN,
         NEW bytes \in Bytes, NEW ended \in BOOLEAN
  PROVE  LET e == Passed(w, sent, started, bytes, ended) IN
         /\ e \in Exchange /\ e.client.bytes = bytes /\ e.client.ended = ended
         /\ e.client.started = started /\ e.sent = sent
         /\ e.processed = w.processed /\ e.read = w.read /\ e.captured = w.captured
         /\ e.requestTruncated = w.requestTruncated /\ e.buffered = w.buffered
         /\ e.start = w.start /\ e.emitted = w.emitted
         /\ e.streamed = w.streamed /\ e.ended = w.ended
<1> DEFINE e == Passed(w, sent, started, bytes, ended)
           strings == Bytes
           starts == Starts
           nats == Nat
           sets == Emissions \cup {Unset}
           client == Client
           space == [processed : BOOLEAN, read : nats, captured : nats, requestTruncated : BOOLEAN,
                     sent : strings, start : starts, buffered : strings, streamed : BOOLEAN,
                     emitted : sets, ended : BOOLEAN, client : client]
           told == ClientTold(w, bytes, ended, w.buffered)
           c == told.client
           d == [c EXCEPT !.started = started]
<1>1. /\ told \in Exchange /\ told.client.bytes = bytes /\ told.client.ended = ended
      /\ told.buffered = w.buffered /\ told.client.started = w.client.started
      /\ told.processed = w.processed /\ told.read = w.read /\ told.captured = w.captured
      /\ told.requestTruncated = w.requestTruncated /\ told.sent = w.sent
      /\ told.start = w.start /\ told.emitted = w.emitted
      /\ told.streamed = w.streamed /\ told.ended = w.ended
  <2>1. w.buffered \in Bytes
    BY DEF Exchange
  <2>2. ToldOf(told, w, bytes, ended, w.buffered)
    BY <2>1, ToldFields
  <2>3. QED
    BY <2>2 DEF ToldOf
<1>2. space = Exchange /\ w \in space /\ sent \in strings
  BY DEF Exchange
<1>3. c \in [started : BOOLEAN, bytes : strings, ended : BOOLEAN]
      /\ client = [started : BOOLEAN, bytes : strings, ended : BOOLEAN]
  BY <1>1 DEF Exchange, Client
<1> HIDE DEF strings, starts, nats, sets, client, told, c
<1>4. /\ d \in [started : BOOLEAN, bytes : strings, ended : BOOLEAN]
      /\ d.started = started /\ d.bytes = c.bytes /\ d.ended = c.ended
  BY <1>3
<1>5. d = [started |-> started, bytes |-> bytes, ended |-> ended]
  <2> HIDE DEF d
  <2>1. d = [started |-> d.started, bytes |-> d.bytes, ended |-> d.ended]
    BY <1>4
  <2>2. d.started = started /\ d.bytes = bytes /\ d.ended = ended
    BY <1>1, <1>4 DEF c
  <2>3. QED
    BY <2>1, <2>2
<1> HIDE DEF d
<1>6. e = [w EXCEPT !.sent = sent, !.client = d]
  <2> DEFINE a == [w EXCEPT !.sent = sent]
             f == w.client
             g == [f EXCEPT !.started = started]
             b == [a EXCEPT !.client = g]
             h == [g EXCEPT !.bytes = bytes]
             k == [b EXCEPT !.client = h]
             l == [h EXCEPT !.ended = ended]
  <2>1. a \in space /\ a.client = f /\ f \in client
    BY <1>2
  <2>2. g \in client /\ g.started = started
    BY <1>3, <2>1
  <2> HIDE DEF f, g
  <2>3. h \in client /\ h.started = started /\ h.bytes = bytes
    <3>1. bytes \in strings
      BY DEF strings
    <3>2. QED
      BY <1>3, <2>2, <3>1
  <2> HIDE DEF h
  <2>4. l \in client /\ l.started = started /\ l.bytes = bytes /\ l.ended = ended
    BY <1>3, <2>3
  <2> HIDE DEF l
  <2>5. l = d
    <3>1. l = [started |-> l.started, bytes |-> l.bytes, ended |-> l.ended]
      BY <1>3, <2>4
    <3>2. QED
      BY <1>5, <2>4, <3>1
  <2>6. [a EXCEPT !.client.started = started] = b
    BY <2>1 DEF g
  <2> HIDE DEF a
  <2>7. b \in space /\ b.client = g
    BY <2>1, <2>2
  <2> HIDE DEF b
  <2>8. [b EXCEPT !.client.bytes = bytes] = k
    BY <2>7 DEF h
  <2>9. k \in space /\ k.client = h
    BY <2>3, <2>7
  <2> HIDE DEF k
  <2>10. [k EXCEPT !.client.ended = ended] = [k EXCEPT !.client = l]
    BY <2>9 DEF l
  <2>11. e = [k EXCEPT !.client.ended = ended]
    BY <2>6, <2>8 DEF a, Passed
  <2>12. [k EXCEPT !.client = l] = [a EXCEPT !.client = l]
    BY <2>1, <2>2, <2>3, <2>4 DEF k, b
  <2>13. QED
    BY <2>5, <2>10, <2>11, <2>12 DEF a
<1>7. d \in client
  BY <1>3, <1>4
<1>8. e \in space
  BY <1>2, <1>6, <1>7
<1>9. /\ e.client = d /\ e.sent = sent
      /\ e.processed = w.processed /\ e.read = w.read /\ e.captured = w.captured
      /\ e.requestTruncated = w.requestTruncated /\ e.buffered = w.buffered
      /\ e.start = w.start /\ e.emitted = w.emitted
      /\ e.streamed = w.streamed /\ e.ended = w.ended
  BY <1>2, <1>6
<1> HIDE DEF space, e
<1>10. d.started = started /\ d.bytes = bytes /\ d.ended = ended
  BY <1>5
<1>11. QED
  BY <1>2, <1>8, <1>9, <1>10 DEF e

LEMMA RestOfLonger ==
  ASSUME NEW s \in Bytes, NEW t \in Bytes, NEW lost \in 0..Len(s)
  PROVE  SubSeq(s \o t, lost + 1, Len(s \o t)) = SubSeq(s, lost + 1, Len(s)) \o t
<1> DEFINE both == s \o t
           a == SubSeq(both, lost + 1, Len(both))
           b == SubSeq(s, lost + 1, Len(s))
<1>1. Len(s) \in Nat /\ Len(t) \in Nat /\ lost \in Nat /\ lost <= Len(s)
  BY LenProperties DEF Bytes
<1>2. /\ both \in Bytes /\ Len(both) = Len(s) + Len(t)
      /\ \A i \in 1..Len(s) + Len(t) : both[i] = IF i <= Len(s) THEN s[i] ELSE t[i - Len(s)]
  BY ConcatProperties DEF Bytes
<1> HIDE DEF both
<1>3. (\A i \in lost + 1..Len(both) : both[i] \in Nat) /\ (\A i \in lost + 1..Len(s) : s[i] \in Nat)
  <2>1. (\A i \in 1..Len(both) : both[i] \in Nat) /\ (\A i \in 1..Len(s) : s[i] \in Nat)
    BY <1>2, ElementOfSeq DEF Bytes
  <2>2. QED
    BY <1>1, <2>1
<1>4. /\ a \in Bytes /\ Len(a) = Len(both) - lost
      /\ \A i \in 1..Len(both) - lost : a[i] = both[lost + i]
  <2>1. /\ a \in Seq(Nat)
        /\ Len(a) = IF lost + 1 <= Len(both) THEN Len(both) - (lost + 1) + 1 ELSE 0
        /\ \A i \in 1..Len(both) - (lost + 1) + 1 : a[i] = both[lost + 1 + i - 1]
    <3>1. lost + 1 \in Int /\ Len(both) \in Int
      BY <1>1, <1>2
    <3>2. QED
      BY <1>3, <3>1, SubSeqProperties
  <2>2. QED
    BY <1>1, <1>2, <2>1 DEF Bytes
<1>5. /\ b \in Bytes /\ Len(b) = Len(s) - lost
      /\ \A i \in 1..Len(s) - lost : b[i] = s[lost + i]
  <2>1. /\ b \in Seq(Nat)
        /\ Len(b) = IF lost + 1 <= Len(s) THEN Len(s) - (lost + 1) + 1 ELSE 0
        /\ \A i \in 1..Len(s) - (lost + 1) + 1 : b[i] = s[lost + 1 + i - 1]
    <3>1. lost + 1 \in Int /\ Len(s) \in Int
      BY <1>1
    <3>2. QED
      BY <1>3, <3>1, SubSeqProperties
  <2> HIDE DEF b
  <2>2. Len(b) = Len(s) - lost /\ Len(s) - (lost + 1) + 1 = Len(s) - lost
    BY <1>1, <2>1
  <2>3. \A i \in 1..Len(s) - lost : b[i] = s[lost + i]
    <3>1. \A i \in Nat : lost + 1 + i - 1 = lost + i
      BY <1>1
    <3>2. QED
      BY <1>1, <2>1, <2>2, <3>1
  <2>4. QED
    BY <2>1, <2>2, <2>3 DEF Bytes
<1> HIDE DEF a, b
<1> DEFINE c == b \o t
<1>6. /\ c \in Bytes /\ Len(c) = Len(b) + Len(t)
      /\ \A i \in 1..Len(b) + Len(t) : c[i] = IF i <= Len(b) THEN b[i] ELSE t[i - Len(b)]
  BY <1>5, ConcatProperties DEF Bytes
<1> HIDE DEF c
<1>7. Len(a) = Len(c)
  BY <1>1, <1>2, <1>4, <1>5, <1>6
<1>8. \A i \in 1..Len(a) : a[i] = c[i]
  <2> SUFFICES ASSUME NEW i \in 1..Len(a) PROVE a[i] = c[i]
    OBVIOUS
  <2>1. i \in Nat /\ lost + i \in 1..Len(s) + Len(t) /\ i \in 1..Len(both) - lost
        /\ i \in 1..Len(b) + Len(t)
    BY <1>1, <1>2, <1>4, <1>5
  <2>2. a[i] = both[lost + i]
    BY <1>4, <2>1
  <2>3. CASE lost + i <= Len(s)
    <3>1. i \in 1..Len(s) - lost /\ i <= Len(b)
      BY <1>1, <1>5, <2>1, <2>3
    <3>2. a[i] = s[lost + i]
      BY <1>2, <2>1, <2>2, <2>3
    <3>3. c[i] = s[lost + i]
      BY <1>5, <1>6, <2>1, <3>1
    <3>4. QED
      BY <3>2, <3>3
  <2>4. CASE lost + i > Len(s)
    <3>1. ~(i <= Len(b)) /\ ~(lost + i <= Len(s)) /\ lost + i - Len(s) = i - Len(b)
      BY <1>1, <1>5, <2>1, <2>4
    <3>2. a[i] = t[lost + i - Len(s)]
      BY <1>2, <2>1, <2>2, <3>1
    <3>3. c[i] = t[i - Len(b)]
      BY <1>6, <2>1, <3>1
    <3>4. QED
      BY <3>1, <3>2, <3>3
  <2>5. QED
    BY <1>1, <2>1, <2>3, <2>4
<1>9. a = c
  BY <1>4, <1>6, <1>7, <1>8, SeqEqual DEF Bytes
<1>10. QED
  BY <1>9 DEF a, b, c, both

LEMMA PassingFits ==
  ASSUME WebFits(web), NEW n \in 0..MaxBody, NEW more \in BOOLEAN, AppPasses(n, more)
  PROVE  WebFits(web')
<1> USE IntegrationAssumption
<1> DEFINE c == Chunk(n)
           sent == web.sent \o c
           bytes == web.client.bytes \o c
           started == web.client.started \/ ~web.processed
           ended == ~more
<1>1. n \in Nat /\ web \in Exchange /\ RequestFits(web) /\ ResponseFits(web) /\ ended \in BOOLEAN
      /\ started \in BOOLEAN
  BY DEF WebFits, Exchange, Client
<1>2. c \in Bytes /\ Len(c) = n
  BY <1>1, ChunkIsBytes
<1>3. web.sent \in Bytes /\ web.client.bytes \in Bytes
  BY <1>1 DEF Exchange, Client
<1>4. web' = Passed(web, sent, started, bytes, ended)
  <2> DEFINE a == [web EXCEPT !.sent = sent]
             b == [a EXCEPT !.client.started = started]
  <2>3. a.client.started = web.client.started
    BY <1>1 DEF Exchange, Client
  <2>1. b.client.bytes = web.client.bytes
    BY <1>1 DEF Exchange, Client
  <2>2. web' = Passed(web, sent, started, b.client.bytes \o c, ended)
    BY <2>3 DEF AppPasses, Passed
  <2>4. QED
    BY <2>1, <2>2
<1> HIDE DEF c
<1>5. sent \in Bytes /\ bytes \in Bytes /\ Len(sent) = Len(web.sent) + n
  BY <1>2, <1>3, Joining
<1> DEFINE sameBytes == web.sent = web.client.bytes => sent = bytes
<1>6. sameBytes
  OBVIOUS
<1>7. /\ web.emitted \in Emissions /\ IsPrefix(web.emitted.output, web.client.bytes)
      => IsPrefix(web.emitted.output, bytes)
  <2>1. web.emitted \in Emissions => web.emitted.output \in Bytes
    BY DEF Emissions
  <2>2. QED
    BY <1>2, <1>3, <2>1, PrefixOfLonger DEF Bytes
<1>13. ASSUME NEW lost \in Len(web.buffered)..Len(web.sent),
              web.client.bytes = SubSeq(web.sent, lost + 1, Len(web.sent))
       PROVE  lost \in Len(web.buffered)..Len(sent) /\ bytes = SubSeq(sent, lost + 1, Len(sent))
  <2>1. Len(web.buffered) \in Nat /\ Len(web.sent) \in Nat
    BY <1>1, LenProperties DEF Exchange, Bytes
  <2>2. lost \in 0..Len(web.sent)
    BY <2>1
  <2>3. SubSeq(sent, lost + 1, Len(sent)) = SubSeq(web.sent, lost + 1, Len(web.sent)) \o c
    BY <1>2, <1>3, <2>2, RestOfLonger
  <2>4. bytes = SubSeq(sent, lost + 1, Len(sent))
    BY <1>13, <2>3
  <2>5. lost \in Len(web.buffered)..Len(sent)
    <3> HIDE DEF sent
    <3>1. QED
      BY <1>1, <1>5, <2>1
  <2>6. QED
    BY <2>4, <2>5
<1>8. Len(sent) <= MaxBody /\ (web.streamed \/ ~web.processed)
  <2>1. Len(web.sent) + n <= MaxBody /\ (web.streamed \/ ~web.processed)
    BY DEF AppPasses
  <2>2. QED
    BY <1>5, <2>1
<1> HIDE DEF sent, bytes, started, ended
<1>9. /\ web' \in Exchange /\ web'.client.bytes = bytes /\ web'.client.ended = ended
      /\ web'.client.started = started /\ web'.sent = sent
      /\ web'.processed = web.processed /\ web'.read = web.read /\ web'.captured = web.captured
      /\ web'.requestTruncated = web.requestTruncated /\ web'.buffered = web.buffered
      /\ web'.start = web.start /\ web'.emitted = web.emitted
      /\ web'.streamed = web.streamed /\ web'.ended = web.ended
  <2> DEFINE e == Passed(web, sent, started, bytes, ended)
  <2>1. /\ e \in Exchange /\ e.client.bytes = bytes /\ e.client.ended = ended
        /\ e.client.started = started /\ e.sent = sent
        /\ e.processed = web.processed /\ e.read = web.read /\ e.captured = web.captured
        /\ e.requestTruncated = web.requestTruncated /\ e.buffered = web.buffered
        /\ e.start = web.start /\ e.emitted = web.emitted
        /\ e.streamed = web.streamed /\ e.ended = web.ended
    BY <1>1, <1>5, PassedFields
  <2> HIDE DEF e
  <2>2. web' = e
    BY <1>4 DEF e
  <2>3. QED
    BY <2>1, <2>2
<1>10. RequestFits(web')
  BY <1>1, <1>9 DEF RequestFits
<1>11. ResponseFits(web')
  <2>1. AllWithClient(web) => AllWithClient(web')
    BY <1>6, <1>9 DEF AllWithClient
  <2>2. Len(web'.sent) <= MaxBody /\ Len(web'.buffered) <= MaxCapture
    BY <1>1, <1>8, <1>9 DEF ResponseFits
  <2>3. CASE ~web.processed
    <3>1. PassedFits(web) /\ started
      BY <1>1, <2>3 DEF ResponseFits, started
    <3>2. PassedFits(web')
      BY <1>9, <2>1, <3>1 DEF PassedFits
    <3>3. QED
      BY <1>9, <2>2, <2>3, <3>2 DEF ResponseFits
  <2>4. CASE web.processed /\ ~Refused(web)
    <3>1. StreamedFits(web) /\ web.streamed
      BY <1>1, <1>8, <2>4 DEF ResponseFits
    <3>2. started /\ ~Refused(web')
      BY <1>9, <2>4, <3>1 DEF StreamedFits, Refused, started
    <3>3. StreamedFits(web')
      BY <1>7, <1>9, <2>1, <3>1, <3>2 DEF StreamedFits
    <3>4. QED
      BY <1>9, <2>2, <2>4, <3>1, <3>2, <3>3 DEF ResponseFits
  <2>5. CASE web.processed /\ Refused(web)
    <3>1. RestWithClient(web) /\ web.streamed
      BY <1>1, <1>8, <2>5 DEF ResponseFits
    <3>2. Refused(web')
      BY <1>9, <2>5 DEF Refused
    <3>3. RestWithClient(web')
      <4>1. PICK lost \in Len(web.buffered)..Len(web.sent) :
              web.client.bytes = SubSeq(web.sent, lost + 1, Len(web.sent))
        BY <3>1 DEF RestWithClient
      <4>2. lost \in Len(web.buffered)..Len(sent) /\ bytes = SubSeq(sent, lost + 1, Len(sent))
        BY <1>13, <4>1
      <4>3. QED
        BY <1>9, <4>2 DEF RestWithClient
    <3>4. QED
      BY <1>9, <2>2, <2>5, <3>1, <3>2, <3>3 DEF ResponseFits
  <2>6. QED
    BY <1>1, <2>3, <2>4, <2>5 DEF Exchange
<1>12. QED
  BY <1>9, <1>10, <1>11 DEF WebFits

LEMMA ToldEmitted ==
  ASSUME NEW w \in Exchange, NEW output \in Bytes, NEW truncated \in BOOLEAN,
         NEW bytes \in Bytes, NEW ended \in BOOLEAN, NEW left \in Bytes,
         NEW e, e = ClientTold(Emitted(w, output, truncated), bytes, ended, left)
  PROVE  RecordedOf(e, w, output, truncated, bytes, ended, left)
<1> DEFINE d == Emitted(w, output, truncated)
<1>1. EmittedOf(d, w, output, truncated)
  BY EmittedFields
<1> HIDE DEF d
<1>2. d \in Exchange
  BY <1>1 DEF EmittedOf
<1>3. ToldOf(e, d, bytes, ended, left)
  BY <1>2, ToldFields DEF d
<1>4. QED
  BY <1>1, <1>3 DEF EmittedOf, ToldOf, RecordedOf

(* A response that is in the buffer is recorded and goes out with its end. *)
LEMMA EndingFits ==
  ASSUME NEW w, WebFits(w), w.processed, Withheld(w), ~w.streamed,
         NEW yes \in BOOLEAN, yes, NEW no \in BOOLEAN, ~no,
         NEW output, output = w.buffered, NEW left, left = <<>>,
         NEW e, e = ClientTold(Emitted(w, output, no), output, yes, left)
  PROVE  WebFits(e)
<1> USE IntegrationAssumption
<1>1. /\ w \in Exchange /\ RequestFits(w) /\ ResponseFits(w)
      /\ output \in Bytes /\ left \in Bytes
  BY EmptySeq DEF WebFits, Exchange, Bytes
<1>2. /\ e \in Exchange /\ e.start = "sent" /\ e.emitted \in Emissions
      /\ e.emitted.output = output /\ e.emitted.truncated = no
      /\ e.client.started /\ e.client.bytes = output /\ e.client.ended = yes
      /\ e.processed = w.processed /\ e.read = w.read /\ e.captured = w.captured
      /\ e.requestTruncated = w.requestTruncated /\ e.sent = w.sent
      /\ e.buffered = left /\ e.streamed = w.streamed /\ e.ended = w.ended
  <2>1. RecordedOf(e, w, output, no, output, yes, left)
    BY <1>1, ToldEmitted
  <2>2. QED
    BY <2>1 DEF RecordedOf
<1>3. AllInBuffer(w) /\ ~w.streamed
  BY <1>1 DEF ResponseFits, BufferedFits, Withheld
<1>4. RequestFits(e)
  BY <1>1, <1>2 DEF RequestFits
<1>5. ResponseFits(e)
  <2>1. Len(<<>>) = 0
    BY EmptySeq
  <2>2. e.buffered = <<>> /\ e.client.bytes = w.buffered /\ e.sent = w.buffered
    BY <1>2, <1>3 DEF AllInBuffer
  <2>3. Len(w.sent) <= MaxBody
    BY <1>1 DEF ResponseFits
  <2>7. e.sent = w.sent
    BY <1>2
  <2>4. Len(e.sent) <= MaxBody /\ Len(e.buffered) <= MaxCapture
    <3>1. Len(e.sent) = Len(w.sent) /\ Len(e.buffered) = Len(<<>>)
      BY <2>2, <2>7
    <3>2. QED
      <4>1. 0 <= MaxCapture
        OBVIOUS
      <4>2. Len(e.buffered) = 0
        BY <2>1, <3>1
      <4>3. QED
        BY <2>3, <3>1, <4>1, <4>2
  <2>5. /\ AllWithClient(e) /\ e.client.ended /\ ~e.streamed
        /\ e.emitted.output = e.client.bytes
    BY <1>2, <1>3, <2>2 DEF AllWithClient
  <2>6. QED
    <3>1. /\ e.processed /\ e.start = "sent" /\ e.client.started
          /\ e.emitted \in Emissions
      BY <1>2
    <3>2. QED
      BY <2>4, <2>5, <3>1 DEF ResponseFits, EndedFits
<1>6. QED
  BY <1>2, <1>4, <1>5 DEF WebFits

(* A response of which the buffer is the beginning is recorded so and goes out. *)
LEMMA OverflowFits ==
  ASSUME NEW w \in Exchange, RequestFits(w), w.processed, w.streamed, Len(w.sent) <= MaxBody,
         NEW yes \in BOOLEAN, yes, NEW ended \in BOOLEAN,
         NEW output \in Bytes, IsPrefix(output, w.sent), NEW left, left = <<>>,
         NEW e, e = ClientTold(Emitted(w, output, yes), w.sent, ended, left)
  PROVE  WebFits(e)
<1> USE IntegrationAssumption
<1>1. w.sent \in Bytes /\ left \in Bytes
  BY EmptySeq DEF Exchange, Bytes
<1>2. /\ e \in Exchange /\ e.start = "sent" /\ e.emitted \in Emissions
      /\ e.emitted.output = output /\ e.emitted.truncated = yes
      /\ e.client.started /\ e.client.bytes = w.sent
      /\ e.processed = w.processed /\ e.read = w.read /\ e.captured = w.captured
      /\ e.requestTruncated = w.requestTruncated /\ e.sent = w.sent
      /\ e.buffered = left /\ e.streamed = w.streamed
  <2>1. RecordedOf(e, w, output, yes, w.sent, ended, left)
    BY <1>1, ToldEmitted
  <2>2. QED
    BY <2>1 DEF RecordedOf
<1>3. RequestFits(e)
  BY <1>2 DEF RequestFits
<1>4. ResponseFits(e)
  <2>1. Len(<<>>) = 0
    BY EmptySeq
  <2>5. e.sent = w.sent /\ e.buffered = <<>>
    BY <1>2
  <2>2. Len(e.sent) <= MaxBody /\ Len(e.buffered) <= MaxCapture
    <3>1. Len(e.sent) = Len(w.sent) /\ Len(e.buffered) = Len(<<>>)
      BY <2>5
    <3>2. QED
      <4>1. 0 <= MaxCapture
        OBVIOUS
      <4>2. Len(e.buffered) = 0
        BY <2>1, <3>1
      <4>3. QED
        BY <3>1, <4>1, <4>2
  <2>3. /\ AllWithClient(e) /\ e.streamed /\ e.emitted.truncated
        /\ IsPrefix(e.emitted.output, e.client.bytes)
    BY <1>2 DEF AllWithClient
  <2>6. RestWithClient(e)
    <3>1. SubSeq(w.sent, 1, Len(w.sent)) = w.sent /\ Len(w.sent) \in Nat
      BY <1>1, SubSeqFull, LenProperties DEF Bytes
    <3>2. 0 \in Len(<<>>)..Len(w.sent) /\ 0 + 1 = 1
      BY <2>1, <3>1
    <3>3. e.client.bytes = SubSeq(e.sent, 0 + 1, Len(e.sent)) /\ 0 \in Len(e.buffered)..Len(e.sent)
      BY <1>2, <2>5, <3>1, <3>2
    <3>4. QED
      BY <3>3 DEF RestWithClient
  <2>7. StreamedFits(e)
    BY <1>2, <2>3 DEF StreamedFits
  <2>4. QED
    BY <1>2, <2>2, <2>6, <2>7 DEF ResponseFits
<1>5. QED
  BY <1>2, <1>3, <1>4 DEF WebFits

(* An application that returns without an end: the client gets one, and nothing more. *)
LEMMA ClosingFits ==
  ASSUME NEW w, WebFits(w), w.processed, Withheld(w),
         NEW yes \in BOOLEAN, yes, NEW no \in BOOLEAN, ~no, NEW output, output = <<>>,
         NEW e, e = ClientTold(Emitted(w, output, no), w.client.bytes, yes, w.buffered)
  PROVE  WebFits(Finished(e))
<1> USE IntegrationAssumption
<1>1. /\ w \in Exchange /\ RequestFits(w) /\ ResponseFits(w)
      /\ output \in Bytes /\ w.client.bytes \in Bytes /\ w.buffered \in Bytes
  BY EmptySeq DEF WebFits, Exchange, Client, Bytes
<1>2. /\ e \in Exchange /\ e.start = "sent" /\ e.emitted \in Emissions
      /\ e.emitted.output = output /\ e.emitted.truncated = no
      /\ e.client.started /\ e.client.bytes = w.client.bytes /\ e.client.ended = yes
      /\ e.processed = w.processed /\ e.read = w.read /\ e.captured = w.captured
      /\ e.requestTruncated = w.requestTruncated /\ e.sent = w.sent
      /\ e.buffered = w.buffered /\ e.streamed = w.streamed
  <2>1. RecordedOf(e, w, output, no, w.client.bytes, yes, w.buffered)
    BY <1>1, ToldEmitted
  <2>2. QED
    BY <2>1 DEF RecordedOf
<1>3. IF w.streamed THEN RestWithClient(w) ELSE AllInBuffer(w)
  BY <1>1 DEF ResponseFits, StreamedFits, BufferedFits, Withheld
<1> DEFINE f == Finished(e)
<1>4. /\ f \in Exchange /\ f.ended
      /\ f.processed = e.processed /\ f.read = e.read /\ f.captured = e.captured
      /\ f.requestTruncated = e.requestTruncated /\ f.client = e.client
      /\ f.start = e.start /\ f.emitted = e.emitted /\ f.sent = e.sent
      /\ f.buffered = e.buffered /\ f.streamed = e.streamed
  BY <1>2, FinishedFields
<1> HIDE DEF f
<1>5. RequestFits(f)
  BY <1>1, <1>2, <1>4 DEF RequestFits
<1>6. ResponseFits(f)
  <2>4. Len(w.sent) <= MaxBody /\ Len(w.buffered) <= MaxCapture
    BY <1>1 DEF ResponseFits
  <2>5. Len(f.sent) <= MaxBody /\ Len(f.buffered) <= MaxCapture
    BY <1>2, <1>4, <2>4
  <2>1. f.client.bytes = w.client.bytes /\ f.buffered = w.buffered /\ f.sent = w.sent
        /\ f.streamed = w.streamed /\ f.emitted.truncated = no /\ f.start = "sent" /\ f.processed
    BY <1>2, <1>4
  <2>2. CASE ~w.streamed
    <3>1. AllInBuffer(f)
      BY <1>3, <2>1, <2>2 DEF AllInBuffer
    <3>2. EndedFits(f)
      BY <1>2, <1>3, <1>4, <2>2, <3>1 DEF AllInBuffer, EndedFits
    <3>3. QED
      BY <2>1, <2>2, <2>5, <3>2 DEF ResponseFits
  <2>3. CASE w.streamed
    <3>1. RestWithClient(f) /\ Refused(f)
      BY <1>3, <2>1, <2>3 DEF RestWithClient, Refused
    <3>2. QED
      BY <2>1, <2>3, <2>5, <3>1 DEF ResponseFits
  <2>6. QED
    BY <1>1, <2>2, <2>3 DEF Exchange
<1>7. QED
  BY <1>4, <1>5, <1>6 DEF WebFits, f

LEMMA BufferingFits ==
  ASSUME WebFits(web), NEW n \in 0..MaxBody, NEW more \in BOOLEAN, AppBuffers(n, more)
  PROVE  WebFits(web')
<1> USE IntegrationAssumption
<1> DEFINE c == Chunk(n)
           sent == web.sent \o c
           buffered == web.buffered \o c
           w == [web EXCEPT !.sent = @ \o c, !.buffered = @ \o c]
           output == w.buffered
           told == ClientTold(Emitted(w, output, FALSE), output, TRUE, <<>>)
           full == [Emitted(w, w.buffered, FALSE) EXCEPT
                      !.client.bytes = w.buffered, !.client.ended = TRUE, !.buffered = <<>>]
<1>1. n \in Nat /\ web \in Exchange /\ RequestFits(web) /\ ResponseFits(web)
  BY DEF WebFits
<1>2. c \in Bytes /\ Len(c) = n
  BY <1>1, ChunkIsBytes
<1>3. web.sent \in Bytes /\ web.buffered \in Bytes
  BY <1>1 DEF Exchange
<1>4. web' = w \/ web' = told
  <2>1. web' = w \/ web' = full
    BY DEF AppBuffers
  <2>2. full = told
    BY DEF ClientTold
  <2> HIDE DEF full, told
  <2>3. QED
    BY <2>1, <2>2
<1>5. /\ web.processed /\ web.start \in {"held", "overtaken"} /\ ~web.streamed
      /\ Len(web.sent) + n <= MaxBody /\ Len(web.buffered) + n <= MaxCapture
  BY DEF AppBuffers, Withheld
<1>6. w = Sending(web, sent, buffered, web.streamed)
  <2> DEFINE strings == Bytes
             starts == Starts
             sets == Emissions \cup {Unset}
             client == Client
  <2>1. web \in [processed : BOOLEAN, read : Nat, captured : Nat, requestTruncated : BOOLEAN,
                  sent : strings, start : starts, buffered : strings, streamed : BOOLEAN,
                  emitted : sets, ended : BOOLEAN, client : client]
    BY <1>1 DEF Exchange
  <2> HIDE DEF strings, starts, sets, client, c
  <2>2. QED
    BY <2>1 DEF Sending
<1> HIDE DEF c
<1>7. /\ sent \in Bytes /\ Len(sent) = Len(web.sent) + n
      /\ buffered \in Bytes /\ Len(buffered) = Len(web.buffered) + n
  BY <1>2, <1>3, Joining
<1>8. web.buffered = web.sent => buffered = sent
  OBVIOUS
<1> HIDE DEF sent, buffered, w
<1>9. /\ w \in Exchange /\ w.sent = sent /\ w.buffered = buffered /\ w.streamed = web.streamed
      /\ w.processed = web.processed /\ w.read = web.read /\ w.captured = web.captured
      /\ w.requestTruncated = web.requestTruncated /\ w.client = web.client
      /\ w.start = web.start /\ w.emitted = web.emitted /\ w.ended = web.ended
  <2> DEFINE streamed == web.streamed
  <2> HIDE DEF streamed
  <2>1. w = Sending(web, sent, buffered, streamed) /\ streamed \in BOOLEAN
    BY <1>1, <1>6 DEF streamed, Exchange
  <2>2. QED
    BY <1>1, <1>7, <2>1, SentFields DEF streamed
<1>10. /\ web.buffered = web.sent /\ web.client.bytes = <<>> /\ ~web.streamed
       /\ web.emitted = Unset /\ ~web.client.started /\ ~web.client.ended
  BY <1>1, <1>5 DEF ResponseFits, BufferedFits, AllInBuffer
<1>11. WebFits(w)
  <2>1. RequestFits(w)
    BY <1>1, <1>9 DEF RequestFits
  <2>2. ResponseFits(w)
    <3>1. BufferedFits(w)
      BY <1>8, <1>9, <1>10 DEF BufferedFits, AllInBuffer
    <3>2. QED
      BY <1>5, <1>7, <1>9, <1>10, <3>1 DEF ResponseFits
  <2>3. QED
    BY <1>9, <2>1, <2>2 DEF WebFits
<1>12. WebFits(told)
  <2>1. w.processed /\ Withheld(w) /\ ~w.streamed
    BY <1>5, <1>9 DEF Withheld
  <2>2. QED
    BY <1>11, <2>1, EndingFits
<1> HIDE DEF told
<1>13. QED
  BY <1>4, <1>11, <1>12

LEMMA StreamingFits ==
  ASSUME WebFits(web), NEW n \in 0..MaxBody, NEW more \in BOOLEAN, AppStreams(n, more)
  PROVE  WebFits(web')
<1> USE IntegrationAssumption
<1> DEFINE c == Chunk(n)
           sent == web.sent \o c
           w == [web EXCEPT !.sent = @ \o c, !.streamed = TRUE]
           told == ClientTold(Emitted(w, web.buffered, TRUE), web.buffered \o c, ~more, <<>>)
<1>1. n \in Nat /\ web \in Exchange /\ RequestFits(web) /\ ResponseFits(web)
  BY DEF WebFits
<1>2. c \in Bytes /\ Len(c) = n
  BY <1>1, ChunkIsBytes
<1>3. web.sent \in Bytes /\ web.buffered \in Bytes
  BY <1>1 DEF Exchange
<1>4. web' = told \/ web' = w
  BY DEF AppStreams, ClientTold
<1>5. /\ web.processed /\ web.start \in {"held", "overtaken"} /\ ~web.streamed
      /\ Len(web.sent) + n <= MaxBody
  BY DEF AppStreams, Withheld
<1>6. /\ w \in Exchange /\ w.sent = sent /\ w.streamed
      /\ w.processed = web.processed /\ w.read = web.read /\ w.captured = web.captured
      /\ w.requestTruncated = web.requestTruncated /\ w.buffered = web.buffered
      /\ w.client = web.client /\ w.start = web.start /\ w.emitted = web.emitted
  <2> DEFINE strings == Bytes
             starts == Starts
             sets == Emissions \cup {Unset}
             client == Client
             space == [processed : BOOLEAN, read : Nat, captured : Nat, requestTruncated : BOOLEAN,
                       sent : strings, start : starts, buffered : strings, streamed : BOOLEAN,
                       emitted : sets, ended : BOOLEAN, client : client]
  <2>1. web \in space /\ space = Exchange /\ sent \in strings
    BY <1>1, <1>2, <1>3, Joining DEF Exchange
  <2>2. w = [web EXCEPT !.sent = sent, !.streamed = TRUE]
    OBVIOUS
  <2> HIDE DEF strings, starts, sets, client, sent, w
  <2>3. w \in space
    BY <2>1, <2>2
  <2>4. /\ w.sent = sent /\ w.streamed
        /\ w.processed = web.processed /\ w.read = web.read /\ w.captured = web.captured
        /\ w.requestTruncated = web.requestTruncated /\ w.buffered = web.buffered
        /\ w.client = web.client /\ w.start = web.start /\ w.emitted = web.emitted
    BY <2>1, <2>2
  <2> HIDE DEF space
  <2>5. QED
    BY <2>1, <2>3, <2>4
<1> HIDE DEF c
<1>7. Len(sent) = Len(web.sent) + n
  BY <1>2, <1>3, Joining
<1>8. web.buffered = web.sent /\ web.client.bytes = <<>> /\ web.emitted = Unset
  BY <1>1, <1>5 DEF ResponseFits, BufferedFits, AllInBuffer
<1>9. IsPrefix(web.buffered, sent) /\ web.buffered \o c = sent
  BY <1>2, <1>3, <1>8, PrefixOfItself, PrefixOfLonger DEF Bytes
<1> HIDE DEF sent, w
<1>10. WebFits(told)
  <2>1. RequestFits(w)
    BY <1>1, <1>6 DEF RequestFits
  <2>2. /\ w.processed /\ w.streamed /\ Len(w.sent) <= MaxBody
        /\ IsPrefix(web.buffered, w.sent) /\ web.buffered \o c = w.sent
    BY <1>5, <1>6, <1>7, <1>9
  <2> DEFINE ended == ~more
             bytes == web.buffered \o c
  <2>3. ended \in BOOLEAN /\ bytes = w.sent /\ told = ClientTold(Emitted(w, web.buffered, TRUE), bytes, ended, <<>>)
    BY <2>2
  <2> HIDE DEF ended, bytes, told
  <2>4. told = ClientTold(Emitted(w, web.buffered, TRUE), w.sent, ended, <<>>)
    BY <2>3
  <2>5. QED
    BY <1>3, <1>6, <2>1, <2>2, <2>3, <2>4, OverflowFits
<1>11. WebFits(w)
  <2>1. RequestFits(w)
    BY <1>1, <1>6 DEF RequestFits
  <2>2. Len(web.sent) \in Nat /\ Len(web.buffered) \in Nat /\ Len(w.sent) \in Nat
        /\ Len(w.sent) = Len(web.sent) + n
    BY <1>1, <1>3, <1>6, <1>7, LenProperties DEF Bytes
  <2>3. RestWithClient(w)
    <3>1. Len(w.sent) \in Len(w.buffered)..Len(w.sent)
      BY <1>1, <1>6, <1>8, <2>2
    <3>2. SubSeq(w.sent, Len(w.sent) + 1, Len(w.sent)) = <<>>
      BY <2>2, SubSeqEmpty
    <3>3. w.client.bytes = SubSeq(w.sent, Len(w.sent) + 1, Len(w.sent))
      BY <1>6, <1>8, <3>2
    <3>4. QED
      BY <3>1, <3>3 DEF RestWithClient
  <2>4. Refused(w)
    BY <1>6, <1>8 DEF Refused
  <2>5. Len(w.sent) <= MaxBody /\ Len(w.buffered) <= MaxCapture
    BY <1>1, <1>5, <1>6, <2>2 DEF ResponseFits
  <2>6. ResponseFits(w)
    BY <1>5, <1>6, <2>3, <2>4, <2>5 DEF ResponseFits
  <2>7. QED
    BY <1>6, <2>1, <2>6 DEF WebFits
<1> HIDE DEF told
<1>12. QED
  BY <1>4, <1>10, <1>11

LEMMA ReturningFits ==
  ASSUME WebFits(web), AppReturns
  PROVE  WebFits(web')
<1> DEFINE e == Emitted(web, <<>>, FALSE)
           told == ClientTold(e, web.client.bytes, TRUE, web.buffered)
           f == [e EXCEPT !.client.ended = TRUE]
<1>1. web \in Exchange /\ RequestFits(web) /\ ResponseFits(web)
  BY DEF WebFits
<1>2. CASE web' = Finished(web)
  BY <1>2, FinishedFits
<1>3. CASE Withheld(web) /\ web' = Finished(f)
  <2>1. e \in Exchange /\ e.client.bytes = web.client.bytes /\ e.buffered = web.buffered
    <3> DEFINE empty == <<>>
    <3>1. empty \in Bytes /\ FALSE \in BOOLEAN /\ e = Emitted(web, empty, FALSE)
      BY EmptySeq DEF Bytes
    <3> HIDE DEF e, empty
    <3>2. EmittedOf(e, web, empty, FALSE)
      BY <1>1, <3>1, EmittedFields
    <3>3. QED
      BY <3>2 DEF EmittedOf
  <2>2. f = told
    <3> HIDE DEF e
    <3> DEFINE strings == Bytes
               nats == Nat
               starts == Starts
               sets == Emissions \cup {Unset}
               client == Client
               space == [processed : BOOLEAN, read : nats, captured : nats,
                         requestTruncated : BOOLEAN, sent : strings, start : starts,
                         buffered : strings, streamed : BOOLEAN, emitted : sets,
                         ended : BOOLEAN, client : client]
               c == e.client
               a == [c EXCEPT !.bytes = c.bytes]
               r == [e EXCEPT !.client = a]
               g == [c EXCEPT !.ended = TRUE]
               k == [e EXCEPT !.client = g]
    <3>1. e \in space /\ c \in [started : BOOLEAN, bytes : strings, ended : BOOLEAN]
      BY <2>1 DEF Exchange, Client
    <3>2. [e EXCEPT !.client.bytes = web.client.bytes] = r
      BY <2>1
    <3>3. f = k
      OBVIOUS
    <3> HIDE DEF strings, nats, starts, sets, client, c
    <3>4. a = c
      BY <3>1
    <3> HIDE DEF a
    <3>5. r = e
      BY <3>1, <3>4 DEF c
    <3> HIDE DEF r
    <3>6. told = [f EXCEPT !.buffered = web.buffered]
      BY <3>2, <3>5 DEF ClientTold
    <3> HIDE DEF f, g
    <3>7. [k EXCEPT !.buffered = web.buffered] = k
      BY <2>1, <3>1
    <3> HIDE DEF k, told
    <3>8. QED
      BY <3>3, <3>6, <3>7
  <2>3. web.processed
    BY <1>1, <1>3 DEF ResponseFits, PassedFits, Withheld, Exchange
  <2>4. WebFits(Finished(told))
    BY <1>3, <2>3, ClosingFits
  <2> HIDE DEF f, told
  <2>5. QED
    BY <1>3, <2>2, <2>4
<1>4. QED
  BY <1>2, <1>3 DEF AppReturns
LEMMA WebStarts == IntegrationInit => WebFits(web)
<1> SUFFICES ASSUME IntegrationInit PROVE WebFits(web)
  OBVIOUS
<1> USE IntegrationAssumption
<1> DEFINE AtStart(p) == [processed |-> p,
               read |-> 0, captured |-> 0, requestTruncated |-> FALSE,
               sent |-> <<>>, start |-> "none", buffered |-> <<>>, streamed |-> FALSE,
               emitted |-> Unset, ended |-> FALSE,
               client |-> [started |-> FALSE, bytes |-> <<>>, ended |-> FALSE]]
<1>1. PICK processed \in BOOLEAN : web = AtStart(processed)
  <2>1. \E p \in ShouldProcess : web = AtStart(p)
    BY DEF IntegrationInit
  <2>2. ASSUME NEW p \in ShouldProcess PROVE p \in BOOLEAN
    <3>1. PICK http, hasIncludes, included, excluded \in BOOLEAN :
            p = (http /\ (hasIncludes => included) /\ ~excluded)
      BY DEF ShouldProcess
    <3> QED
      BY <3>1
  <2> HIDE DEF AtStart
  <2> QED
    BY <2>1, <2>2
<1>2. <<>> \in Bytes /\ Len(<<>>) = 0
  BY EmptySeq DEF Bytes
<1>3. web \in Exchange
  BY <1>1, <1>2 DEF Exchange, Client, Starts
<1>4. RequestFits(web)
  BY <1>1 DEF RequestFits
<1>5. ResponseFits(web)
  <2>1. web.sent = <<>> /\ web.buffered = <<>> /\ web.client.bytes = <<>> /\ web.start = "none"
        /\ web.emitted = Unset /\ ~web.streamed /\ ~web.client.started /\ ~web.client.ended
    BY <1>1
  <2>2. PassedFits(web) /\ BufferedFits(web)
    BY <2>1 DEF PassedFits, BufferedFits, AllWithClient, AllInBuffer
  <2>3. QED
    BY <1>2, <2>1, <2>2 DEF ResponseFits
<1>6. QED
  BY <1>3, <1>4, <1>5 DEF WebFits

LEMMA WebKept ==
  ASSUME WebFits(web), [IntegrationNext]_integrationVars
  PROVE  WebFits(web')
<1>1. CASE MiddlewareNext
  <2>1. ASSUME NEW n \in 0..MaxBody, NEW more \in BOOLEAN,
               AppBuffers(n, more) \/ AppStreams(n, more) \/ AppPasses(n, more)
        PROVE  WebFits(web')
    BY <2>1, BufferingFits, StreamingFits, PassingFits
  <2>2. ASSUME NEW n \in 1..MaxBody, AppReceives(n)
        PROVE  WebFits(web')
    BY <2>2, ReceivingFits
  <2>3. CASE AppStarts \/ AppSendsOther
    <3>1. PICK start \in {"held", "overtaken"} : web' = [web EXCEPT !.start = start]
      BY <2>3 DEF AppStarts, AppSendsOther
    <3>2. web.processed /\ web.start # "sent"
      BY <2>3 DEF AppStarts, AppSendsOther
    <3>3. QED
      BY <3>1, <3>2, StartingFits
  <2>4. CASE AppReturns
    BY <2>4, ReturningFits
  <2>5. CASE AppRaises
    BY <2>5, FinishedFits DEF AppRaises
  <2>6. QED
    BY <1>1, <2>1, <2>2, <2>3, <2>4, <2>5 DEF MiddlewareNext
<1>2. CASE WrapperNext
  <2>1. web' = web
    BY <1>2 DEF WrapperNext, CallWrapped, WrappedRaises, Record, Arecord, AwaitedRecord
  <2>2. QED
    BY <2>1
<1>3. CASE UNCHANGED integrationVars
  BY <1>3 DEF integrationVars
<1>4. QED
  BY <1>1, <1>2, <1>3 DEF IntegrationNext

LEMMA FittingForwards == WebFits(web) => BodyForwarded
<1> SUFFICES ASSUME WebFits(web) PROVE BodyForwarded
  OBVIOUS
<1> USE IntegrationAssumption
<1> DEFINE bytes == web.client.bytes
           buffered == web.buffered
<1>1. /\ web \in Exchange /\ ResponseFits(web)
      /\ bytes \in Bytes /\ buffered \in Bytes
  BY DEF WebFits, Exchange, Client
<1>2. bytes \o <<>> = bytes /\ <<>> \o buffered = buffered
  BY <1>1, Joining
<1>3. CASE Refused(web)
  <2>1. web.processed /\ web.streamed
    BY <1>1, <1>3 DEF Refused, ResponseFits, PassedFits, Exchange
  <2>2. RestWithClient(web)
    BY <1>1, <1>3, <2>1 DEF ResponseFits
  <2>3. QED
    BY <1>3, <2>2 DEF RestWithClient, BodyForwarded
<1>4. CASE ~Refused(web)
  <2>1. PassedFits(web) \/ BufferedFits(web) \/ EndedFits(web) \/ StreamedFits(web)
    BY <1>1, <1>4 DEF ResponseFits, Exchange
  <2>2. AllWithClient(web) \/ AllInBuffer(web)
    BY <2>1 DEF PassedFits, BufferedFits, EndedFits, StreamedFits
  <2>3. bytes \o buffered = web.sent
    BY <1>2, <2>2 DEF AllWithClient, AllInBuffer
  <2>4. web.client.ended => web.client.started /\ (buffered # <<>> => web.ended)
    BY <2>1 DEF PassedFits, BufferedFits, EndedFits, StreamedFits, AllWithClient
  <2>5. bytes # <<>> => web.client.started
    BY <2>1 DEF PassedFits, BufferedFits, EndedFits, StreamedFits, AllInBuffer
  <2>6. ASSUME web.emitted # Unset
        PROVE  /\ IsPrefix(web.emitted.output, bytes)
               /\ ~web.emitted.truncated /\ web.client.ended => web.emitted.output = bytes
    <3>1. EndedFits(web) \/ StreamedFits(web)
      BY <2>1, <2>6 DEF PassedFits, BufferedFits
    <3>2. CASE StreamedFits(web)
      BY <3>2 DEF StreamedFits
    <3>3. CASE EndedFits(web)
      <4>1. web.emitted.output = bytes
        BY <3>3 DEF EndedFits
      <4>2. IsPrefix(bytes, bytes)
        BY <1>1, PrefixOfItself DEF Bytes
      <4>3. QED
        BY <4>1, <4>2
    <3>4. QED
      BY <3>1, <3>2, <3>3
  <2>7. QED
    BY <1>4, <2>3, <2>4, <2>5, <2>6 DEF BodyForwarded
<1>5. QED
  BY <1>3, <1>4
-----------------------------------------------------------------------------
(* The wrapped calls: what is awaited or returned is with the sink, and the last
   envelope is of a call that is over. *)
CallsFit ==
  /\ sink \in {"none", "sync", "async"}
  /\ call \in [Tellers -> WrappedCall \cup {Unset}]
  /\ \A t \in Tellers :
       call[t] # Unset /\ call[t].at \in {"awaits", "returned"} /\ sink # "none" =>
         Envelope(t, "output") \in envelopes
  /\ lastVerified # Unset =>
       /\ lastVerified.of \in Tellers /\ call[lastVerified.of] # Unset
       /\ call[lastVerified.of].at \in {"returned", "raised"}

\* The calls when t's has come to a point.
CameTo(d, c, t, at) ==
  /\ d \in [Tellers -> WrappedCall \cup {Unset}]
  /\ d[t] # Unset /\ d[t].at = at /\ d[t].input = c[t].input
  /\ \A u \in Tellers : u # t => d[u] = c[u]

LEMMA Moving ==
  ASSUME NEW c \in [Tellers -> WrappedCall \cup {Unset}], NEW t \in Tellers, c[t] # Unset,
         NEW at \in {"calls", "awaits", "returned", "raised"}
  PROVE  CameTo([c EXCEPT ![t].at = at], c, t, at)
<1> USE IntegrationAssumption
<1> DEFINE w == c[t]
           v == [w EXCEPT !.at = at]
           d == [c EXCEPT ![t] = v]
<1>1. w \in WrappedCall
  OBVIOUS
<1>2. v \in WrappedCall /\ v.at = at /\ v.input = w.input
  <2> DEFINE values == Values
  <2>1. w \in [way : {"invoke", "ainvoke", "forward"}, input : values,
               at : {"calls", "awaits", "returned", "raised"}, failed : BOOLEAN]
    BY <1>1 DEF WrappedCall
  <2> HIDE DEF w
  <2>2. QED
    BY <2>1 DEF WrappedCall
<1>3. d = [c EXCEPT ![t].at = at]
  OBVIOUS
<1> HIDE DEF v
<1>4. d \in [Tellers -> WrappedCall \cup {Unset}] /\ d[t] = v
      /\ \A u \in Tellers : u # t => d[u] = c[u]
  BY <1>2
<1>5. v # Unset
  BY <1>2
<1> HIDE DEF d
<1>6. CameTo(d, c, t, at)
  BY <1>2, <1>4, <1>5 DEF CameTo
<1>7. QED
  BY <1>3, <1>6

LEMMA MovingRaised ==
  ASSUME NEW c \in [Tellers -> WrappedCall \cup {Unset}], NEW t \in Tellers, c[t] # Unset
  PROVE  CameTo([c EXCEPT ![t].at = "raised", ![t].failed = TRUE], c, t, "raised")
<1> USE IntegrationAssumption
<1> DEFINE b == [c EXCEPT ![t].at = "raised"]
           w == b[t]
           v == [w EXCEPT !.failed = TRUE]
           d == [b EXCEPT ![t] = v]
           e == [c EXCEPT ![t].at = "raised", ![t].failed = TRUE]
<1>1. CameTo(b, c, t, "raised")
  BY Moving
<1>2. e = d
  OBVIOUS
<1> HIDE DEF b, e
<1>3. /\ b \in [Tellers -> WrappedCall \cup {Unset}] /\ b[t] # Unset
      /\ b[t].at = "raised" /\ b[t].input = c[t].input
      /\ \A u \in Tellers : u # t => b[u] = c[u]
  BY <1>1 DEF CameTo
<1>4. v \in WrappedCall /\ v.at = "raised" /\ v.input = c[t].input
  <2> DEFINE values == Values
  <2>1. w \in [way : {"invoke", "ainvoke", "forward"}, input : values,
               at : {"calls", "awaits", "returned", "raised"}, failed : BOOLEAN]
    BY <1>3 DEF WrappedCall
  <2>2. w.at = "raised" /\ w.input = c[t].input
    BY <1>3
  <2> HIDE DEF w
  <2>3. v.at = "raised" /\ v.input = w.input
    BY <2>1, <2>2
  <2>4. QED
    BY <2>1, <2>2, <2>3 DEF WrappedCall
<1> HIDE DEF v
<1>5. d \in [Tellers -> WrappedCall \cup {Unset}] /\ d[t] = v
      /\ \A u \in Tellers : u # t => d[u] = c[u]
  BY <1>3, <1>4
<1>6. v # Unset
  BY <1>4
<1> HIDE DEF d
<1>7. CameTo(d, c, t, "raised")
  BY <1>4, <1>5, <1>6 DEF CameTo
<1>8. QED
  BY <1>2, <1>7 DEF e

(* A step of t's call keeps what is known of the calls when the sink has what t's
   caller is to get, and only an envelope of t, at its end, becomes the last one. *)
LEMMA CameToFits ==
  ASSUME CallsFit, NEW t \in Tellers, call[t] # Unset, call[t].at \in {"calls", "awaits"},
         NEW at, CameTo(call', call, t, at), sink' = sink, envelopes \subseteq envelopes',
         at \in {"awaits", "returned"} /\ sink # "none" => Envelope(t, "output") \in envelopes',
         lastVerified' = lastVerified \/ (lastVerified'.of = t /\ at \in {"returned", "raised"})
  PROVE  CallsFit'
<1>1. /\ call' \in [Tellers -> WrappedCall \cup {Unset}]
      /\ call'[t] # Unset /\ call'[t].at = at /\ call'[t].input = call[t].input
      /\ \A u \in Tellers : u # t => call'[u] = call[u]
  BY DEF CameTo
<1>2. ASSUME NEW u \in Tellers,
             call'[u] # Unset, call'[u].at \in {"awaits", "returned"}, sink' # "none"
      PROVE  Envelope(u, "output")' \in envelopes'
  <2>1. CASE u = t
    <3>1. Envelope(u, "output")' = Envelope(t, "output")
      BY <1>1, <2>1 DEF Envelope
    <3>2. QED
      BY <1>1, <1>2, <2>1, <3>1
  <2>2. CASE u # t
    <3>1. Envelope(u, "output")' = Envelope(u, "output")
      BY <1>1, <2>2 DEF Envelope
    <3>2. QED
      BY <1>1, <1>2, <2>2, <3>1 DEF CallsFit
  <2>3. QED
    BY <2>1, <2>2
<1>3. ASSUME lastVerified' # Unset
      PROVE  /\ lastVerified'.of \in Tellers /\ call'[lastVerified'.of] # Unset
             /\ call'[lastVerified'.of].at \in {"returned", "raised"}
  <2>1. CASE lastVerified' = lastVerified
    <3>1. lastVerified.of \in Tellers /\ call[lastVerified.of].at \in {"returned", "raised"}
          /\ call[lastVerified.of] # Unset
      BY <1>3, <2>1 DEF CallsFit
    <3>2. lastVerified.of # t
      BY <3>1
    <3>3. QED
      BY <1>1, <2>1, <3>1, <3>2
  <2>2. CASE lastVerified'.of = t /\ at \in {"returned", "raised"}
    BY <1>1, <2>2
  <2>3. QED
    BY <2>1, <2>2
<1>4. QED
  <2>1. sink' \in {"none", "sync", "async"}
    BY DEF CallsFit
  <2>2. QED
    BY <1>1, <1>2, <1>3, <2>1 DEF CallsFit

LEMMA CallsKept ==
  ASSUME CallsFit, [IntegrationNext]_integrationVars
  PROVE  CallsFit'
<1> USE IntegrationAssumption
<1>1. ASSUME UNCHANGED <<sink, recorderVars>>
      PROVE  CallsFit'
  BY <1>1 DEF CallsFit, Envelope, recorderVars
<1>2. CASE MiddlewareNext
  <2>1. UNCHANGED <<sink, recorderVars>>
    BY <1>2 DEF MiddlewareNext, AppBuffers, AppStreams, AppPasses, AppReceives, AppStarts, AppSendsOther,
                AppReturns, AppRaises
  <2>2. QED
    BY <1>1, <2>1
<1>3. ASSUME NEW t \in Tellers, NEW way \in {"invoke", "ainvoke", "forward"}, NEW input \in Values,
             CallWrapped(t, way, input)
      PROVE  CallsFit'
  <2> DEFINE v == [way |-> way, input |-> input, at |-> "calls", failed |-> FALSE]
  <2>1. v \in WrappedCall /\ v.at = "calls" /\ v # Unset
    <3>1. v \in WrappedCall /\ v.at = "calls"
      BY DEF WrappedCall
    <3> HIDE DEF v
    <3>2. QED
      BY <3>1
  <2>2. call[t] = Unset /\ call' = [call EXCEPT ![t] = v]
        /\ sink' = sink /\ envelopes' = envelopes /\ lastVerified' = lastVerified
    BY <1>3 DEF CallWrapped
  <2> HIDE DEF v
  <2>3. /\ call' \in [Tellers -> WrappedCall \cup {Unset}] /\ call'[t] = v
        /\ \A u \in Tellers : u # t => call'[u] = call[u]
    BY <2>1, <2>2 DEF CallsFit
  <2>4. ASSUME NEW u \in Tellers,
               call'[u] # Unset, call'[u].at \in {"awaits", "returned"}, sink' # "none"
        PROVE  Envelope(u, "output")' \in envelopes'
    <3>1. u # t
      BY <2>1, <2>3, <2>4
    <3>2. Envelope(u, "output")' = Envelope(u, "output")
      BY <2>3, <3>1 DEF Envelope
    <3>3. QED
      BY <2>2, <2>3, <2>4, <3>1, <3>2 DEF CallsFit
  <2>5. lastVerified' # Unset =>
          /\ lastVerified'.of \in Tellers /\ call'[lastVerified'.of] # Unset
          /\ call'[lastVerified'.of].at \in {"returned", "raised"}
    BY <2>2, <2>3 DEF CallsFit
  <2>6. QED
    BY <2>2, <2>3, <2>4, <2>5 DEF CallsFit
<1>4. ASSUME NEW t \in Tellers, WrappedRaises(t)
      PROVE  CallsFit'
  <2>1. call \in [Tellers -> WrappedCall \cup {Unset}] /\ call[t] # Unset /\ call[t].at = "calls"
    BY <1>4 DEF WrappedRaises, CallsFit
  <2>2. CameTo(call', call, t, "raised")
    BY <1>4, <2>1, MovingRaised DEF WrappedRaises
  <2>3. /\ sink' = sink /\ envelopes \subseteq envelopes'
        /\ lastVerified' = lastVerified \/ lastVerified'.of = t
    BY <1>4 DEF WrappedRaises, Handed, Envelope
  <2>4. QED
    BY <2>1, <2>2, <2>3, CameToFits
<1>5. ASSUME NEW t \in Tellers, Record(t)
      PROVE  CallsFit'
  <2>1. call \in [Tellers -> WrappedCall \cup {Unset}] /\ call[t] # Unset /\ call[t].at = "calls"
    BY <1>5 DEF Record, CallsFit
  <2>2. /\ sink' = sink /\ envelopes \subseteq envelopes'
        /\ sink = "sync" => Envelope(t, "output") \in envelopes'
    BY <1>5 DEF Record, Handed
  <2>3. CASE call' = [call EXCEPT ![t].at = "raised"] /\ lastVerified' = lastVerified
    <3>1. CameTo(call', call, t, "raised")
      BY <2>1, <2>3, Moving
    <3>2. QED
      BY <2>1, <2>2, <2>3, <3>1, CameToFits
  <2>4. CASE /\ sink # "async" /\ call' = [call EXCEPT ![t].at = "returned"]
             /\ lastVerified' = Envelope(t, "output")
    <3>1. CameTo(call', call, t, "returned")
      BY <2>1, <2>4, Moving
    <3>2. lastVerified'.of = t /\ (sink # "none" => sink = "sync")
      BY <2>4 DEF Envelope, CallsFit
    <3>3. QED
      BY <2>1, <2>2, <3>1, <3>2, CameToFits
  <2>5. QED
    BY <1>5, <2>3, <2>4 DEF Record
<1>6. ASSUME NEW t \in Tellers, Arecord(t)
      PROVE  CallsFit'
  <2>1. call \in [Tellers -> WrappedCall \cup {Unset}] /\ call[t] # Unset /\ call[t].at = "calls"
    BY <1>6 DEF Arecord, CallsFit
  <2>2. CameTo(call', call, t, "awaits")
    BY <1>6, <2>1, Moving DEF Arecord
  <2>3. /\ sink' = sink /\ envelopes \subseteq envelopes' /\ lastVerified' = lastVerified
        /\ sink # "none" => Envelope(t, "output") \in envelopes'
    BY <1>6 DEF Arecord
  <2>4. QED
    BY <2>1, <2>2, <2>3, CameToFits
<1>7. ASSUME NEW t \in Tellers, AwaitedRecord(t)
      PROVE  CallsFit'
  <2>1. /\ call \in [Tellers -> WrappedCall \cup {Unset}] /\ call[t] # Unset /\ call[t].at = "awaits"
        /\ sink' = sink /\ envelopes' = envelopes
    BY <1>7 DEF AwaitedRecord, CallsFit
  <2>2. CASE call' = [call EXCEPT ![t].at = "returned"] /\ lastVerified' = Envelope(t, "output")
    <3>1. CameTo(call', call, t, "returned")
      BY <2>1, <2>2, Moving
    <3>2. lastVerified'.of = t
      BY <2>2 DEF Envelope
    <3>3. sink # "none" => Envelope(t, "output") \in envelopes'
      BY <2>1 DEF CallsFit
    <3>4. QED
      BY <2>1, <3>1, <3>2, <3>3, CameToFits
  <2>3. CASE call' = [call EXCEPT ![t].at = "raised"] /\ lastVerified' = lastVerified
    <3>1. CameTo(call', call, t, "raised")
      BY <2>1, <2>3, Moving
    <3>2. QED
      BY <2>1, <2>3, <3>1, CameToFits
  <2>4. QED
    BY <1>7, <2>2, <2>3 DEF AwaitedRecord
<1>8. CASE UNCHANGED integrationVars
  BY <1>1, <1>8 DEF integrationVars, recorderVars
<1>9. QED
  BY <1>2, <1>3, <1>4, <1>5, <1>6, <1>7, <1>8 DEF IntegrationNext, WrapperNext

(* The middleware forwards a response as the application sent it and records what it
   forwards, or a rest of it once a record was refused, and no wrapped call is recorded as another's, for all bodies, limits,
   tellers and arguments. *)
THEOREM WrappersStayFaithful == IntegrationSpec => []WrappersFaithful
<1>1. IntegrationInit => CallsFit
  <2> SUFFICES ASSUME IntegrationInit PROVE CallsFit
    OBVIOUS
  <2>1. call \in [Tellers -> WrappedCall \cup {Unset}] /\ \A t \in Tellers : call[t] = Unset
    BY DEF IntegrationInit
  <2>2. lastVerified = Unset /\ sink \in {"none", "sync", "async"}
    BY DEF IntegrationInit
  <2>3. QED
    BY <2>1, <2>2 DEF CallsFit
<1>2. CallsFit => CallsRecorded
  BY DEF CallsFit, CallsRecorded
<1>3. IntegrationSpec => [](WebFits(web) /\ CallsFit)
  <2>1. WebFits(web) /\ CallsFit /\ [IntegrationNext]_integrationVars => (WebFits(web) /\ CallsFit)'
    BY WebKept, CallsKept
  <2>2. QED
    BY <1>1, <2>1, WebStarts, PTL DEF IntegrationSpec
<1>4. WebFits(web) /\ CallsFit => WrappersFaithful
  BY <1>2, FittingForwards DEF WrappersFaithful
<1>5. QED
  BY <1>3, <1>4, PTL
-----------------------------------------------------------------------------
(* Checks of compliance. *)

(* The levels of privacy are numbered. *)
LEMMA LevelsAreNumbers == ASSUME NEW p \in Levels PROVE LevelOf(p) \in 1..4
<1>1. DOMAIN PrivacyLevels = 1..4
  BY DEF PrivacyLevels
<1>2. \E i \in DOMAIN PrivacyLevels : PrivacyLevels[i] = p
  BY DEF Levels
<1> QED
  BY <1>1, <1>2 DEF LevelOf

(* An SLA that grants less protects no more. *)
Weaker(lower, sla) ==
  \/ lower = sla
  \/ /\ sla # NoSLA /\ lower # NoSLA
     /\ lower.allowed_regions = sla.allowed_regions
     /\ LevelOf(lower.privacy_level) <= LevelOf(sla.privacy_level)

LEMMA WeakerUnprotected ==
  ASSUME NEW data, NEW more, NEW types, NEW level \in Levels,
         NEW sla \in SLAs \cup {NoSLA}, NEW lower \in SLAs \cup {NoSLA},
         Weaker(lower, sla), Unprotected(data, sla, types, level)
  PROVE  Unprotected(data \cup more, lower, types, level)
<1>1. data \cap types # {} /\ sla # NoSLA /\ LevelOf(sla.privacy_level) < LevelOf(level)
  BY DEF Unprotected
<1>2. (data \cup more) \cap types # {}
  BY <1>1
<1>3. lower # NoSLA
  BY <1>1 DEF Weaker
<1>4. sla.privacy_level \in Levels /\ lower.privacy_level \in Levels
  BY <1>1, <1>3 DEF SLAs
<1>5. LevelOf(sla.privacy_level) \in Int /\ LevelOf(lower.privacy_level) \in Int
      /\ LevelOf(level) \in Int
  BY <1>4, LevelsAreNumbers
<1>6. LevelOf(lower.privacy_level) <= LevelOf(sla.privacy_level)
  BY <1>5 DEF Weaker
<1>7. LevelOf(lower.privacy_level) < LevelOf(level)
  BY <1>1, <1>5, <1>6
<1> QED
  BY <1>2, <1>3, <1>7 DEF Unprotected

(* A rule that some data violates, more data violates too, and under less privacy. *)
LEMMA ViolatesMore ==
  ASSUME NEW rule, NEW data, NEW more, IsFiniteSet(data), IsFiniteSet(more),
         NEW sla \in SLAs \cup {NoSLA}, NEW lower \in SLAs \cup {NoSLA},
         Weaker(lower, sla), Violates(rule, data, sla)
  PROVE  Violates(rule, data \cup more, lower)
<1>0. {"tee", "hybrid"} \subseteq Levels
  <2>1. DOMAIN PrivacyLevels = 1..4 /\ PrivacyLevels[2] = "tee" /\ PrivacyLevels[4] = "hybrid"
    BY DEF PrivacyLevels
  <2> QED
    BY <2>1 DEF Levels
<1>1. CASE rule = "HIPAA-001"
         /\ Unprotected(data, sla, {"ssn", "medical_record", "date_of_birth"}, "tee")
  <2>1. Unprotected(data \cup more, lower, {"ssn", "medical_record", "date_of_birth"}, "tee")
    BY <1>0, <1>1, WeakerUnprotected
  <2> QED
    BY <1>1, <2>1 DEF Violates
<1>2. CASE rule = "GDPR-002" /\ Cardinality(data) > 5
  <2>1. IsFiniteSet(data \cup more)
    BY FS_Union
  <2>2. Cardinality(data) <= Cardinality(data \cup more)
    BY <2>1, FS_Subset
  <2>3. Cardinality(data) \in Nat /\ Cardinality(data \cup more) \in Nat
    BY <2>1, FS_CardinalityType
  <2>4. Cardinality(data \cup more) > 5
    BY <1>2, <2>2, <2>3
  <2> QED
    BY <1>2, <2>4 DEF Violates
<1>3. CASE rule = "GDPR-003" /\ sla # NoSLA /\ sla.allowed_regions \ EURegions # {}
  <2>1. lower # NoSLA /\ lower.allowed_regions = sla.allowed_regions
    BY <1>3 DEF Weaker
  <2> QED
    BY <1>3, <2>1 DEF Violates
<1>4. CASE rule = "PCI-001" /\ Unprotected(data, sla, {"credit_card", "bank_account"}, "hybrid")
  <2>1. Unprotected(data \cup more, lower, {"credit_card", "bank_account"}, "hybrid")
    BY <1>0, <1>4, WeakerUnprotected
  <2> QED
    BY <1>4, <2>1 DEF Violates
<1>5. CASE rule = "PCI-002" /\ "credit_card" \in data
  BY <1>5 DEF Violates
<1> QED
  BY <1>1, <1>2, <1>3, <1>4, <1>5 DEF Violates

(* A check passes exactly if no rule of its frameworks fails it. *)
Fatal(rule, strict) == ~(Severity(rule) = "warning" /\ ~strict)

LEMMA PassesIf ==
  ASSUME NEW checked, NEW strict \in BOOLEAN, NEW data, NEW sla
  PROVE  ~Verdict(checked, strict, data, sla).passed <=>
           \E f \in checked : \E r \in FRAMEWORK_RULES[f] : Violates(r, data, sla) /\ Fatal(r, strict)
<1> DEFINE failed == {r \in UNION {FRAMEWORK_RULES[f] : f \in checked} : Violates(r, data, sla)}
           minor == {r \in failed : Severity(r) = "warning" /\ ~strict}
<1>1. Verdict(checked, strict, data, sla).passed <=> failed \ minor = {}
  BY DEF Verdict
<1>2. failed \ minor # {} <=> \E r \in failed : Fatal(r, strict)
  BY DEF Fatal
<1> QED
  BY <1>1, <1>2

ComplianceInvariant ==
  /\ strict_mode \in BOOLEAN
  /\ outcome.passed <=> outcome.violations = {}

(* Whatever is checked more strictly fails no less: more data, more frameworks, strict mode,
   or an SLA that grants less. *)
LEMMA StricterIs ==
  ASSUME strict_mode \in BOOLEAN
  PROVE  StricterFails
<1> SUFFICES ASSUME NEW data \in Samples, NEW sla \in SLAs \cup {NoSLA},
                    ~Verdict(Added, strict_mode, data, sla).passed,
                    NEW f \in ComplianceFrameworks, NEW more \in Samples,
                    NEW strict \in {strict_mode, TRUE},
                    NEW lower \in {s \in SLAs \cup {NoSLA} : s = sla \/ (sla # NoSLA /\ s # NoSLA /\
                       s.allowed_regions = sla.allowed_regions /\
                       LevelOf(s.privacy_level) <= LevelOf(sla.privacy_level))}
             PROVE  ~Verdict(Added \cup {f}, strict, data \cup more, lower).passed
  BY DEF StricterFails
<1>1. lower \in SLAs \cup {NoSLA} /\ Weaker(lower, sla)
  BY DEF Weaker
<1>2. IsFiniteSet(data) /\ IsFiniteSet(more)
  BY ComplianceAssumption
<1>3. PICK g \in Added : \E r \in FRAMEWORK_RULES[g] : Violates(r, data, sla) /\ Fatal(r, strict_mode)
  BY PassesIf
<1>4. PICK r \in FRAMEWORK_RULES[g] : Violates(r, data, sla) /\ Fatal(r, strict_mode)
  BY <1>3
<1>5. Violates(r, data \cup more, lower)
  BY <1>1, <1>2, <1>4, ViolatesMore
<1>6. Fatal(r, strict)
  BY <1>4 DEF Fatal
<1>7. strict \in BOOLEAN
  OBVIOUS
<1> QED
  BY <1>4, <1>5, <1>6, <1>7, PassesIf

LEMMA ComplianceStart == ASSUME ComplianceInit PROVE ComplianceInvariant
<1>1. outcome = Verdict({}, FALSE, {}, NoSLA)
  BY DEF ComplianceInit
<1>2. outcome.passed <=> outcome.violations = {}
  BY <1>1 DEF Verdict
<1> QED
  BY <1>2 DEF ComplianceInit, ComplianceInvariant

LEMMA ComplianceStep ==
  ASSUME ComplianceInvariant, [ComplianceNext]_complianceVars
  PROVE  ComplianceInvariant'
<1>1. ASSUME NEW f \in ComplianceFrameworks, AddFramework(f) \/ RemoveFramework(f)
      PROVE  ComplianceInvariant'
  BY <1>1 DEF ComplianceInvariant, AddFramework, RemoveFramework
<1>2. ASSUME NEW data \in Samples, NEW sla \in SLAs \cup {NoSLA},
             NEW f \in ComplianceFrameworks \cup {NoFramework}, Check(data, sla, f)
      PROVE  ComplianceInvariant'
  <2>1. PICK checked : outcome' = Verdict(checked, strict_mode, data, sla)
    BY <1>2 DEF Check
  <2>2. outcome'.passed <=> outcome'.violations = {}
    BY <2>1 DEF Verdict
  <2> QED
    BY <1>2, <2>2 DEF Check, ComplianceInvariant
<1>3. CASE UNCHANGED complianceVars
  BY <1>3 DEF ComplianceInvariant, complianceVars
<1> QED
  BY <1>1, <1>2, <1>3 DEF ComplianceNext

(* Asking for more never makes a check pass, for any data and any regions, at any moment of
   a checker's life (checker.py, ComplianceChecker.check). *)
THEOREM StricterChecksFail == ComplianceSpec => []StricterFails
<1>1. ComplianceInvariant => StricterFails
  BY StricterIs DEF ComplianceInvariant
<1>2. ComplianceInvariant /\ [ComplianceNext]_complianceVars => ComplianceInvariant'
  BY ComplianceStep
<1> QED
  BY <1>1, <1>2, ComplianceStart, PTL DEF ComplianceSpec
-----------------------------------------------------------------------------
(* The scrubbers of personal data. *)

\* Of any two members one comes before the other.
Orders(order, S) ==
  /\ \A l, m \in S : l # m => <<l, m>> \in order \/ <<m, l>> \in order
  /\ \A l, m \in S : <<l, m>> \in order => <<m, l>> \notin order
  /\ \A l, m, o \in S : <<l, m>> \in order /\ <<m, o>> \in order => <<l, o>> \in order

\* The list has each member once, and in the order.
Lists(S, order, f) ==
  /\ f \in Bijection(1..Cardinality(S), S)
  /\ \A i, j \in 1..Cardinality(S) : i < j => <<f[i], f[j]>> \in order

LEMMA ListedIs ==
  ASSUME NEW S, IsFiniteSet(S), NEW order, Orders(order, S)
  PROVE  Lists(S, order, Listed(S, order))
<1> DEFINE before(m) == {l \in S : <<l, m>> \in order}
           n == Cardinality(S)
           rank == [m \in S |-> Cardinality(before(m)) + 1]
           f == Listed(S, order)
<1>6. f = [k \in 1..n |-> CHOOSE m \in S : Cardinality(before(m)) = k - 1]
  BY DEF Listed
<1>r. rank = [m \in S |-> rank[m]] /\ \A m \in S : rank[m] = Cardinality(before(m)) + 1
  OBVIOUS
<1>b. \A m \in S : \A l : l \in before(m) <=> l \in S /\ <<l, m>> \in order
  OBVIOUS
<1> HIDE DEF f, n, before, rank
<1>0. n \in Nat
  BY FS_CardinalityType DEF n
<1>1. ASSUME NEW m \in S
      PROVE  /\ IsFiniteSet(before(m)) /\ Cardinality(before(m)) \in Nat /\ m \notin before(m)
             /\ rank[m] = Cardinality(before(m)) + 1
  <2>0. before(m) \in SUBSET S
    BY <1>b
  <2>1. IsFiniteSet(before(m))
    BY <2>0, FS_Subset
  <2>2. m \notin before(m)
    BY <1>b DEF Orders
  <2> QED
    BY <1>r, <2>1, <2>2, FS_CardinalityType
<1>2. ASSUME NEW l \in S, NEW m \in S, <<l, m>> \in order
      PROVE  rank[l] < rank[m]
  <2>1. before(l) \cup {l} \in SUBSET before(m)
    BY <1>2, <1>b DEF Orders
  <2>2. Cardinality(before(l) \cup {l}) = Cardinality(before(l)) + 1
    BY <1>1, FS_AddElement
  <2>4. IsFiniteSet(before(m))
    BY <1>1
  <2>3. Cardinality(before(l) \cup {l}) <= Cardinality(before(m))
    BY <2>1, <2>4, FS_Subset
  <2> QED
    BY <1>1, <2>2, <2>3
<1>3. ASSUME NEW m \in S PROVE rank[m] \in 1..n
  <2>1. before(m) \cup {m} \in SUBSET S
    BY <1>b
  <2>2. Cardinality(before(m) \cup {m}) = Cardinality(before(m)) + 1
    BY <1>1, FS_AddElement
  <2>3. Cardinality(before(m) \cup {m}) <= n
    BY <2>1, FS_Subset DEF n
  <2> QED
    BY <1>0, <1>1, <2>2, <2>3
<1>4. ASSUME NEW l \in S, NEW m \in S, l # m PROVE rank[l] # rank[m]
  <2>1. <<l, m>> \in order \/ <<m, l>> \in order
    BY <1>4 DEF Orders
  <2>2. rank[l] \in Int /\ rank[m] \in Int
    BY <1>3
  <2> QED
    BY <1>2, <2>1, <2>2
<1>5. rank \in Bijection(S, 1..n)
  <2>1. rank \in Injection(S, 1..n)
    <3>1. rank \in [S -> 1..n]
      BY <1>3, <1>r
    <3> QED
      BY <1>4, <3>1 DEF Injection, IsInjective
  <2>2. IsFiniteSet(1..n) /\ Cardinality(1..n) = n
    BY <1>0, FS_Interval
  <2>4. Cardinality(S) = n
    BY DEF n
  <2>3. rank \in Surjection(S, 1..n)
    BY <2>1, <2>2, <2>4, FS_Injection
  <2> QED
    BY <2>1, <2>3 DEF Bijection
<1>7. ASSUME NEW k \in 1..n PROVE f[k] \in S /\ rank[f[k]] = k
  <2>1. PICK m \in S : rank[m] = k
    BY <1>5 DEF Bijection, Surjection
  <2>2. Cardinality(before(m)) = k - 1
    BY <1>0, <1>1, <2>1
  <2>3. f[k] \in S /\ Cardinality(before(f[k])) = k - 1
    BY <1>6, <2>2
  <2> QED
    BY <1>0, <1>1, <2>3
<1>8. f \in Bijection(1..n, S)
  <2>1. f \in [1..n -> S]
    BY <1>6, <1>7
  <2>2. \A i, j \in 1..n : f[i] = f[j] => i = j
    BY <1>7
  <2>3. ASSUME NEW m \in S PROVE \E k \in 1..n : f[k] = m
    <3>1. rank[m] \in 1..n
      BY <1>3
    <3>2. f[rank[m]] \in S /\ rank[f[rank[m]]] = rank[m]
      BY <1>7, <3>1
    <3>3. f[rank[m]] = m
      BY <1>4, <3>2
    <3> QED
      BY <3>1, <3>3
  <2>4. f \in Injection(1..n, S)
    BY <2>1, <2>2 DEF Injection, IsInjective
  <2>5. f \in Surjection(1..n, S)
    BY <2>1, <2>3 DEF Surjection
  <2> QED
    BY <2>4, <2>5 DEF Bijection
<1>9. ASSUME NEW i \in 1..n, NEW j \in 1..n, i < j PROVE <<f[i], f[j]>> \in order
  <2>1. f[i] \in S /\ f[j] \in S /\ rank[f[i]] = i /\ rank[f[j]] = j
    BY <1>7
  <2>2. f[i] # f[j]
    BY <1>9, <2>1
  <2>3. CASE <<f[j], f[i]>> \in order
    <3>1. j < i
      BY <1>2, <2>1, <2>3
    <3> QED
      BY <1>0, <1>9, <3>1
  <2> QED
    BY <2>1, <2>2, <2>3 DEF Orders
<1> QED
  BY <1>8, <1>9 DEF Lists, f, n

\* The sequence t is s, sorted by the keys.
SortsBy(s, key, t) ==
  \E f \in Bijection(1..Len(s), 1..Len(s)) :
    /\ t = [k \in 1..Len(s) |-> s[f[k]]]
    /\ \A i, j \in 1..Len(s) : i < j => key[f[i]] <= key[f[j]]

LEMMA SortedIs ==
  ASSUME NEW S, NEW s \in Seq(S), NEW key, \A k \in 1..Len(s) : key[k] \in Int
  PROVE  SortsBy(s, key, Sorted(s, key))
<1> DEFINE n == Len(s)
           order == {p \in (DOMAIN s) \X (DOMAIN s) : \/ key[p[1]] < key[p[2]]
                                                      \/ key[p[1]] = key[p[2]] /\ p[1] < p[2]}
           place == Listed(DOMAIN s, order)
<1>1. n \in Nat /\ DOMAIN s = 1..n
  BY SeqIs
<1>2. IsFiniteSet(1..n) /\ Cardinality(1..n) = n
  BY <1>1, FS_Interval
<1>3. \A i, j \in 1..n : <<i, j>> \in order <=> (key[i] < key[j] \/ (key[i] = key[j] /\ i < j))
  BY <1>1
<1>4. Sorted(s, key) = [k \in 1..n |-> s[place[k]]]
  BY <1>1 DEF Sorted
<1> HIDE DEF order
<1>5. Orders(order, 1..n)
  <2>1. ASSUME NEW l \in 1..n, NEW m \in 1..n
        PROVE  /\ l # m => <<l, m>> \in order \/ <<m, l>> \in order
               /\ <<l, m>> \in order => <<m, l>> \notin order
    <3>1. key[l] \in Int /\ key[m] \in Int /\ l \in Int /\ m \in Int
      BY <1>1
    <3> QED
      BY <1>3, <3>1
  <2>2. ASSUME NEW l \in 1..n, NEW m \in 1..n, NEW o \in 1..n,
               <<l, m>> \in order, <<m, o>> \in order
        PROVE  <<l, o>> \in order
    <3>1. /\ key[l] \in Int /\ key[m] \in Int /\ key[o] \in Int
          /\ l \in Int /\ m \in Int /\ o \in Int
      BY <1>1
    <3> QED
      BY <1>3, <2>2, <3>1
  <2> QED
    BY <2>1, <2>2 DEF Orders
<1>6. Lists(1..n, order, place)
  BY <1>1, <1>2, <1>5, ListedIs
<1> HIDE DEF place
<1>7. place \in Bijection(1..n, 1..n) /\ \A i, j \in 1..n : i < j => <<place[i], place[j]>> \in order
  BY <1>2, <1>6 DEF Lists
<1>8. \A k \in 1..n : place[k] \in 1..n
  BY <1>7 DEF Bijection, Injection
<1>9. ASSUME NEW i \in 1..n, NEW j \in 1..n, i < j PROVE key[place[i]] <= key[place[j]]
  <2>1. PICK p \in 1..n, q \in 1..n : p = place[i] /\ q = place[j] /\ <<p, q>> \in order
    BY <1>7, <1>8, <1>9
  <2>2. key[p] < key[q] \/ key[p] = key[q]
    BY <1>3, <2>1
  <2>3. key[p] \in Int /\ key[q] \in Int
    OBVIOUS
  <2>4. key[p] <= key[q]
    BY <2>2, <2>3
  <2> QED
    BY <2>1, <2>4
<1> QED
  BY <1>4, <1>7, <1>9 DEF SortsBy

\* What can be found.
Find == [by : Patterns, span : Spans]
Finds == [Patterns -> {S \in SUBSET Spans : Apart(S)}]

(* The patterns are numbered, and the last is one of them. *)
LEMMA PatternsAre == /\ IsFiniteSet(Patterns) /\ Patterns \in SUBSET Nat
                     /\ Max(Patterns) \in Patterns
<1> DEFINE n == Cardinality(Patterns)
<1>1. n \in Nat /\ Patterns = 1..n /\ Patterns # {} /\ IsFiniteSet(Patterns)
  BY ScrubberAssumption, FS_CardinalityType
<1> HIDE DEF n
<1>2. Max(1..n) \in 1..n
  BY <1>1, GreatestOf
<1> QED
  BY <1>1, <1>2

(* A span is two places of the text, in order. *)
LEMMA SpanIs ==
  ASSUME NEW s \in Spans
  PROVE  /\ s[1] \in 1..Length /\ s[2] \in 1..Length /\ s[1] <= s[2] /\ s = <<s[1], s[2]>>
         /\ s[1] \in Nat /\ s[2] \in Nat
  BY DEF Spans, Positions

(* There are no more finds than patterns and spans. *)
LEMMA FindsAreFinite == IsFiniteSet(Find)
<1> DEFINE spans == Positions \X Positions
           f == [q \in Patterns \X Spans |-> [by |-> q[1], span |-> q[2]]]
<1>1. IsFiniteSet(Positions) /\ IsFiniteSet(Patterns)
  BY FS_Interval, ScrubberAssumption DEF Positions
<1>2. IsFiniteSet(spans)
  BY <1>1, FS_Product
<1>3. Spans \in SUBSET spans
  BY DEF Spans
<1>4. IsFiniteSet(Spans)
  BY <1>2, <1>3, FS_Subset
<1>5. IsFiniteSet(Patterns \X Spans)
  BY <1>1, <1>4, FS_Product
<1>6. f \in Surjection(Patterns \X Spans, Find)
  <2>1. ASSUME NEW m \in Find PROVE \E q \in Patterns \X Spans : f[q] = m
    <3>1. <<m.by, m.span>> \in Patterns \X Spans
      BY DEF Find
    <3>2. f[<<m.by, m.span>>] = m
      BY <3>1 DEF Find
    <3> QED
      BY <3>1, <3>2
  <2>2. f \in [Patterns \X Spans -> Find]
    BY DEF Find
  <2> HIDE DEF f
  <2> QED
    BY <2>1, <2>2 DEF Surjection
<1> QED
  BY <1>5, <1>6, FS_Surjection

\* What is found by some patterns, and the order of the list of it.
Found(by) == UNION {{[by |-> p, span |-> s] : s \in finds[p]} : p \in by}
FoundOrder(S) == {p \in S \X S : \/ p[1].by < p[2].by
                                 \/ p[1].by = p[2].by /\ p[1].span[1] < p[2].span[1]}

(* The finds of a pattern do not overlap: they are in order. *)
LEMMA MatchesAre ==
  ASSUME finds \in Finds, NEW by \in SUBSET Patterns
  PROVE  Matches(by) \in Seq(Find)
<1> DEFINE all == Found(by)
           order == FoundOrder(all)
<1>1. Matches(by) = Listed(all, order)
  BY DEF Matches, Found, FoundOrder
<1>2. ASSUME NEW m \in all PROVE m \in Find /\ m.span \in finds[m.by]
  BY DEF Found, Find, Finds
<1>3. IsFiniteSet(all)
  <2>1. all \in SUBSET Find
    BY <1>2
  <2> QED
    BY <2>1, FindsAreFinite, FS_Subset
<1>4. \A l, m \in all : <<l, m>> \in order <=>
        (l.by < m.by \/ (l.by = m.by /\ l.span[1] < m.span[1]))
  BY DEF FoundOrder
<1> HIDE DEF all, order
<1>5. ASSUME NEW m \in all PROVE m.by \in Nat /\ m.span[1] \in Nat
  <2>1. m.by \in Patterns /\ m.span \in Spans
    BY <1>2 DEF Find
  <2> QED
    BY <2>1, SpanIs, PatternsAre
<1>6. ASSUME NEW l \in all, NEW m \in all, l # m, l.by = m.by PROVE l.span[1] # m.span[1]
  <2>1. l \in Find /\ m \in Find /\ l.span \in finds[l.by] /\ m.span \in finds[l.by]
    BY <1>2, <1>6
  <2>2. l.span # m.span
    BY <1>6, <2>1 DEF Find
  <2>3. l.span \in Spans /\ m.span \in Spans /\ l.by \in Patterns
    BY <2>1 DEF Find
  <2>4. Apart(finds[l.by])
    BY <2>3 DEF Finds
  <2>5. ~Meet(l.span, m.span)
    BY <2>1, <2>2, <2>4 DEF Apart
  <2> QED
    BY <2>3, <2>5, SpanIs DEF Meet
<1>7. Orders(order, all)
  <2>1. ASSUME NEW l \in all, NEW m \in all
        PROVE  /\ l # m => <<l, m>> \in order \/ <<m, l>> \in order
               /\ <<l, m>> \in order => <<m, l>> \notin order
    <3>1. l.by \in Nat /\ l.span[1] \in Nat /\ m.by \in Nat /\ m.span[1] \in Nat
      BY <1>5
    <3> QED
      BY <1>4, <1>6, <3>1
  <2>2. ASSUME NEW l \in all, NEW m \in all, NEW o \in all,
               <<l, m>> \in order, <<m, o>> \in order
        PROVE  <<l, o>> \in order
    <3>1. /\ l.by \in Nat /\ l.span[1] \in Nat /\ m.by \in Nat /\ m.span[1] \in Nat
          /\ o.by \in Nat /\ o.span[1] \in Nat
      BY <1>5
    <3> QED
      BY <1>4, <2>2, <3>1
  <2> QED
    BY <2>1, <2>2 DEF Orders
<1>8. Lists(all, order, Listed(all, order))
  BY <1>3, <1>7, ListedIs
<1>9. Matches(by) \in [1..Cardinality(all) -> all]
  BY <1>1, <1>8 DEF Lists, Bijection, Injection
<1>10. Cardinality(all) \in Nat
  BY <1>3, FS_CardinalityType
<1> QED
  BY <1>2, <1>9, <1>10

\* Any two that are at different places are related.
Pairs(s, R) == \A i, j \in 1..Len(s) : i # j => <<s[i], s[j]>> \in R

\* What sorting keeps.
SortKeeps(S, s, R, t) == /\ t \in Seq(S) /\ Len(t) = Len(s) /\ Range(t) = Range(s)
                         /\ Pairs(s, R) => Pairs(t, R)

LEMMA SortedKeeps ==
  ASSUME NEW S, NEW s \in Seq(S), NEW key, NEW t, SortsBy(s, key, t), NEW R
  PROVE  SortKeeps(S, s, R, t)
<1> DEFINE n == Len(s)
<1>1. n \in Nat /\ DOMAIN s = 1..n /\ \A i \in 1..n : s[i] \in S
  BY SeqIs
<1>2. PICK f \in Bijection(1..n, 1..n) : t = [k \in 1..n |-> s[f[k]]]
  BY DEF SortsBy
<1> HIDE DEF n
<1>3. \A k \in 1..n : f[k] \in 1..n
  BY DEF Bijection, Injection
<1>4. \A i, j \in 1..n : i # j => f[i] # f[j]
  BY DEF Bijection, Injection, IsInjective
<1>5. \A k \in 1..n : \E i \in 1..n : f[i] = k
  BY DEF Bijection, Surjection
<1>6. t \in [1..n -> S]
  BY <1>1, <1>2, <1>3
<1>7. t \in Seq(S) /\ Len(t) = n
  BY <1>1, <1>6, LenProperties
<1>8. \A k \in 1..n : t[k] = s[f[k]]
  BY <1>2
<1>9. Range(t) = Range(s)
  <2>1. DOMAIN t = 1..n
    BY <1>6
  <2>2. \A k \in 1..n : s[k] \in Range(t)
    BY <1>5, <1>8, <2>1 DEF Range
  <2>3. \A k \in 1..n : t[k] \in Range(s)
    BY <1>1, <1>3, <1>8 DEF Range
  <2> QED
    BY <1>1, <2>1, <2>2, <2>3 DEF Range
<1>10. Pairs(s, R) => Pairs(t, R)
  BY <1>3, <1>4, <1>7, <1>8 DEF Pairs, n
<1> QED
  BY <1>7, <1>9, <1>10 DEF SortKeeps, n

(* Sorting by places or by scores keeps what is found. *)
LEMMA ByStartIs ==
  ASSUME NEW s \in Seq(Find), NEW R
  PROVE  SortKeeps(Find, s, R, ByStart(s))
<1> DEFINE key == [k \in DOMAIN s |-> s[k].span[1]]
<1>0. DOMAIN s = 1..Len(s) /\ \A k \in 1..Len(s) : s[k] \in Find
  BY SeqIs
<1>1. \A k \in 1..Len(s) : s[k].span \in Spans
  BY <1>0 DEF Find
<1>2. \A k \in 1..Len(s) : key[k] \in Int
  BY <1>0, <1>1, SpanIs
<1>3. ByStart(s) = Sorted(s, key)
  BY DEF ByStart
<1> HIDE DEF key
<1>4. SortsBy(s, key, Sorted(s, key))
  BY <1>2, SortedIs
<1> QED
  BY <1>3, <1>4, SortedKeeps

LEMMA ByScoreIs ==
  ASSUME NEW s \in Seq(Find)
  PROVE  ByScore(s) \in Seq(Find)
<1> DEFINE left == ByStart(s)
           key == [k \in DOMAIN left |-> -Score[left[k].by]]
<1>0. ByScore(s) = Sorted(left, key)
  BY DEF ByScore
<1>1. left \in Seq(Find)
  BY ByStartIs DEF SortKeeps
<1> HIDE DEF left
<1>2. DOMAIN left = 1..Len(left) /\ \A k \in 1..Len(left) : left[k] \in Find
  BY <1>1, SeqIs
<1>5. \A k \in 1..Len(left) : left[k].by \in Patterns
  BY <1>2 DEF Find
<1>6. \A p \in Patterns : Score[p] \in Int /\ -Score[p] \in Int
  BY ScrubberAssumption
<1>7. \A k \in 1..Len(left) : key[k] = -Score[left[k].by]
  BY <1>2
<1>3. \A k \in 1..Len(left) : key[k] \in Int
  BY <1>5, <1>6, <1>7
<1> HIDE DEF key
<1>4. SortsBy(left, key, Sorted(left, key))
  BY <1>1, <1>3, SortedIs
<1> QED
  BY <1>0, <1>1, <1>4, SortedKeeps DEF SortKeeps

\* The steps of the scrubbers' loops.
Surely(kept, m) == IF Score[m.by] >= Threshold THEN Append(kept, m) ELSE kept
Merged(seen, m) ==
  LET same == {i \in DOMAIN seen : seen[i].span = m.span} IN
  IF same = {} THEN Append(seen, m)
  ELSE IF Score[m.by] > Score[seen[Min(same)].by]
       THEN ReplaceAt(seen, Min(same), m) ELSE seen
Beside(kept, m) == IF \E i \in DOMAIN kept : Meet(m.span, kept[i].span)
                   THEN kept ELSE Append(kept, m)

Surest(list) == FoldLeft(LAMBDA kept, m : Surely(kept, m), <<>>, list)

SurestFolds(list, c) ==
  c = [s \in SUBSET (DOMAIN list) |->
         IF s = {} THEN <<>> ELSE Surely(c[s \ {Max(s)}], list[Max(s)])]

\* The steps of the fold stay in A, and the values it goes through are in it.
SurestStays(list, n, A) == \A k \in 1..n, a \in A : Surely(a, list[k]) \in A
SurestPasses(list, n, A) ==
  \E h \in [0..n -> A] : /\ h[0] = <<>> /\ h[n] = Surest(list)
                         /\ \A k \in 1..n : h[k] = Surely(h[k - 1], list[k])

LEMMA SureReachesUnfolds ==
  ASSUME NEW list
  PROVE  Surest(list) = (CHOOSE c : SurestFolds(list, c))[DOMAIN list]
  BY DEF Surest, FoldLeft, MapThenFoldSet, SurestFolds

(* What is sure is collected from the first find on. *)
LEMMA SureReaches ==
  ASSUME NEW list, NEW n \in Nat, DOMAIN list = 1..n,
         NEW A, <<>> \in A,
         SurestStays(list, n, A)
  PROVE  SurestPasses(list, n, A)
<1> DEFINE step == [p \in (1..n) \X A |-> Surely(p[2], list[p[1]])]
           c == CHOOSE c : SurestFolds(list, c)
           h == [k \in 0..n |-> c[1..k]]
<1>2. \A k \in 1..n, a \in A : step[<<k, a>>] = Surely(a, list[k])
  OBVIOUS
<1>3. PICK g \in [SUBSET (1..n) -> A] : Folds(<<>>, step, n, g)
  <2>1. \A k \in 1..n, a \in A : step[<<k, a>>] \in A
    <3> HIDE DEF step
    <3>1. QED
      BY <1>2 DEF SurestStays
  <2> HIDE DEF step
  <2>2. QED
    BY <2>1, FoldExists
<1>4. SurestFolds(list, g)
  <2>1. ASSUME NEW s \in SUBSET (1..n), s # {}
        PROVE  step[<<Max(s), g[s \ {Max(s)}]>>] = Surely(g[s \ {Max(s)}], list[Max(s)])
    <3>1. Max(s) \in 1..n
      BY <2>1, GreatestOf
    <3>2. s \ {Max(s)} \in SUBSET (1..n)
      OBVIOUS
    <3>3. g[s \ {Max(s)}] \in A
      BY <3>2
    <3> HIDE DEF step
    <3>4. QED
      BY <1>2, <3>1, <3>3
  <2> HIDE DEF step
  <2>2. QED
    BY <1>3, <2>1 DEF SurestFolds, Folds
<1>5. SurestFolds(list, c)
  <2> HIDE DEF step
  <2>1. \E d : SurestFolds(list, d)
    BY <1>4
  <2>2. QED
    BY <2>1
<1> HIDE DEF step, c
<1>6. c[{}] = <<>> /\ \A k \in 1..n : c[1..k] = Surely(c[1..(k - 1)], list[k])
  <2>1. c[{}] = <<>>
    BY <1>5 DEF SurestFolds
  <2>2. ASSUME NEW k \in 1..n PROVE c[1..k] = Surely(c[1..(k - 1)], list[k])
    <3>1. /\ 1..k \in SUBSET (1..n) /\ 1..k # {}
          /\ Max(1..k) = k /\ (1..k) \ {k} = 1..(k - 1)
      BY PrefixEnds
    <3>2. QED
      BY <1>5, <3>1 DEF SurestFolds
  <2>3. QED
    BY <2>1, <2>2
<1>7. h[0] = <<>> /\ \A k \in 1..n : h[k] = Surely(h[k - 1], list[k])
  BY <1>6
<1>8. h \in [0..n -> A]
  <2>1. h = [k \in 0..n |-> h[k]]
    OBVIOUS
  <2> HIDE DEF h
  <2>2. \A k \in 1..n : h[k - 1] \in A => h[k] \in A
    BY <1>7 DEF SurestStays
  <2>3. \A k \in 0..n : h[k] \in A
    BY <1>7, <2>2, FoldStays
  <2>4. QED
    BY <2>1, <2>3
<1>9. Surest(list) = h[n]
  BY SureReachesUnfolds DEF c
<1>10. QED
  BY <1>7, <1>8, <1>9 DEF SurestPasses

Merging(list) == FoldLeft(LAMBDA kept, m : Merged(kept, m), <<>>, list)

MergingFolds(list, c) ==
  c = [s \in SUBSET (DOMAIN list) |->
         IF s = {} THEN <<>> ELSE Merged(c[s \ {Max(s)}], list[Max(s)])]

\* The steps of the fold stay in A, and the values it goes through are in it.
MergingStays(list, n, A) == \A k \in 1..n, a \in A : Merged(a, list[k]) \in A
MergingPasses(list, n, A) ==
  \E h \in [0..n -> A] : /\ h[0] = <<>> /\ h[n] = Merging(list)
                         /\ \A k \in 1..n : h[k] = Merged(h[k - 1], list[k])

LEMMA MergedReachesUnfolds ==
  ASSUME NEW list
  PROVE  Merging(list) = (CHOOSE c : MergingFolds(list, c))[DOMAIN list]
  BY DEF Merging, FoldLeft, MapThenFoldSet, MergingFolds

(* What has the same span is merged from the first find on. *)
LEMMA MergedReaches ==
  ASSUME NEW list, NEW n \in Nat, DOMAIN list = 1..n,
         NEW A, <<>> \in A,
         MergingStays(list, n, A)
  PROVE  MergingPasses(list, n, A)
<1> DEFINE step == [p \in (1..n) \X A |-> Merged(p[2], list[p[1]])]
           c == CHOOSE c : MergingFolds(list, c)
           h == [k \in 0..n |-> c[1..k]]
<1>2. \A k \in 1..n, a \in A : step[<<k, a>>] = Merged(a, list[k])
  OBVIOUS
<1>3. PICK g \in [SUBSET (1..n) -> A] : Folds(<<>>, step, n, g)
  <2>1. \A k \in 1..n, a \in A : step[<<k, a>>] \in A
    <3> HIDE DEF step
    <3>1. QED
      BY <1>2 DEF MergingStays
  <2> HIDE DEF step
  <2>2. QED
    BY <2>1, FoldExists
<1>4. MergingFolds(list, g)
  <2>1. ASSUME NEW s \in SUBSET (1..n), s # {}
        PROVE  step[<<Max(s), g[s \ {Max(s)}]>>] = Merged(g[s \ {Max(s)}], list[Max(s)])
    <3>1. Max(s) \in 1..n
      BY <2>1, GreatestOf
    <3>2. s \ {Max(s)} \in SUBSET (1..n)
      OBVIOUS
    <3>3. g[s \ {Max(s)}] \in A
      BY <3>2
    <3> HIDE DEF step
    <3>4. QED
      BY <1>2, <3>1, <3>3
  <2> HIDE DEF step
  <2>2. QED
    BY <1>3, <2>1 DEF MergingFolds, Folds
<1>5. MergingFolds(list, c)
  <2> HIDE DEF step
  <2>1. \E d : MergingFolds(list, d)
    BY <1>4
  <2>2. QED
    BY <2>1
<1> HIDE DEF step, c
<1>6. c[{}] = <<>> /\ \A k \in 1..n : c[1..k] = Merged(c[1..(k - 1)], list[k])
  <2>1. c[{}] = <<>>
    BY <1>5 DEF MergingFolds
  <2>2. ASSUME NEW k \in 1..n PROVE c[1..k] = Merged(c[1..(k - 1)], list[k])
    <3>1. /\ 1..k \in SUBSET (1..n) /\ 1..k # {}
          /\ Max(1..k) = k /\ (1..k) \ {k} = 1..(k - 1)
      BY PrefixEnds
    <3>2. QED
      BY <1>5, <3>1 DEF MergingFolds
  <2>3. QED
    BY <2>1, <2>2
<1>7. h[0] = <<>> /\ \A k \in 1..n : h[k] = Merged(h[k - 1], list[k])
  BY <1>6
<1>8. h \in [0..n -> A]
  <2>1. h = [k \in 0..n |-> h[k]]
    OBVIOUS
  <2> HIDE DEF h
  <2>2. \A k \in 1..n : h[k - 1] \in A => h[k] \in A
    BY <1>7 DEF MergingStays
  <2>3. \A k \in 0..n : h[k] \in A
    BY <1>7, <2>2, FoldStays
  <2>4. QED
    BY <2>1, <2>3
<1>9. Merging(list) = h[n]
  BY MergedReachesUnfolds DEF c
<1>10. QED
  BY <1>7, <1>8, <1>9 DEF MergingPasses

Keeping(list) == FoldLeft(LAMBDA kept, m : Beside(kept, m), <<>>, list)

KeepingFolds(list, c) ==
  c = [s \in SUBSET (DOMAIN list) |->
         IF s = {} THEN <<>> ELSE Beside(c[s \ {Max(s)}], list[Max(s)])]

\* The steps of the fold stay in A, and the values it goes through are in it.
KeepingStays(list, n, A) == \A k \in 1..n, a \in A : Beside(a, list[k]) \in A
KeepingPasses(list, n, A) ==
  \E h \in [0..n -> A] : /\ h[0] = <<>> /\ h[n] = Keeping(list)
                         /\ \A k \in 1..n : h[k] = Beside(h[k - 1], list[k])

LEMMA BesideReachesUnfolds ==
  ASSUME NEW list
  PROVE  Keeping(list) = (CHOOSE c : KeepingFolds(list, c))[DOMAIN list]
  BY DEF Keeping, FoldLeft, MapThenFoldSet, KeepingFolds

(* What overlaps nothing is collected from the first find on. *)
LEMMA BesideReaches ==
  ASSUME NEW list, NEW n \in Nat, DOMAIN list = 1..n,
         NEW A, <<>> \in A,
         KeepingStays(list, n, A)
  PROVE  KeepingPasses(list, n, A)
<1> DEFINE step == [p \in (1..n) \X A |-> Beside(p[2], list[p[1]])]
           c == CHOOSE c : KeepingFolds(list, c)
           h == [k \in 0..n |-> c[1..k]]
<1>2. \A k \in 1..n, a \in A : step[<<k, a>>] = Beside(a, list[k])
  OBVIOUS
<1>3. PICK g \in [SUBSET (1..n) -> A] : Folds(<<>>, step, n, g)
  <2>1. \A k \in 1..n, a \in A : step[<<k, a>>] \in A
    <3> HIDE DEF step
    <3>1. QED
      BY <1>2 DEF KeepingStays
  <2> HIDE DEF step
  <2>2. QED
    BY <2>1, FoldExists
<1>4. KeepingFolds(list, g)
  <2>1. ASSUME NEW s \in SUBSET (1..n), s # {}
        PROVE  step[<<Max(s), g[s \ {Max(s)}]>>] = Beside(g[s \ {Max(s)}], list[Max(s)])
    <3>1. Max(s) \in 1..n
      BY <2>1, GreatestOf
    <3>2. s \ {Max(s)} \in SUBSET (1..n)
      OBVIOUS
    <3>3. g[s \ {Max(s)}] \in A
      BY <3>2
    <3> HIDE DEF step
    <3>4. QED
      BY <1>2, <3>1, <3>3
  <2> HIDE DEF step
  <2>2. QED
    BY <1>3, <2>1 DEF KeepingFolds, Folds
<1>5. KeepingFolds(list, c)
  <2> HIDE DEF step
  <2>1. \E d : KeepingFolds(list, d)
    BY <1>4
  <2>2. QED
    BY <2>1
<1> HIDE DEF step, c
<1>6. c[{}] = <<>> /\ \A k \in 1..n : c[1..k] = Beside(c[1..(k - 1)], list[k])
  <2>1. c[{}] = <<>>
    BY <1>5 DEF KeepingFolds
  <2>2. ASSUME NEW k \in 1..n PROVE c[1..k] = Beside(c[1..(k - 1)], list[k])
    <3>1. /\ 1..k \in SUBSET (1..n) /\ 1..k # {}
          /\ Max(1..k) = k /\ (1..k) \ {k} = 1..(k - 1)
      BY PrefixEnds
    <3>2. QED
      BY <1>5, <3>1 DEF KeepingFolds
  <2>3. QED
    BY <2>1, <2>2
<1>7. h[0] = <<>> /\ \A k \in 1..n : h[k] = Beside(h[k - 1], list[k])
  BY <1>6
<1>8. h \in [0..n -> A]
  <2>1. h = [k \in 0..n |-> h[k]]
    OBVIOUS
  <2> HIDE DEF h
  <2>2. \A k \in 1..n : h[k - 1] \in A => h[k] \in A
    BY <1>7 DEF KeepingStays
  <2>3. \A k \in 0..n : h[k] \in A
    BY <1>7, <2>2, FoldStays
  <2>4. QED
    BY <2>1, <2>3
<1>9. Keeping(list) = h[n]
  BY BesideReachesUnfolds DEF c
<1>10. QED
  BY <1>7, <1>8, <1>9 DEF KeepingPasses

Cutting(list, put) == FoldLeft(LAMBDA text, m : Replaced(text, m.span, put[m]), Text, list)

CuttingFolds(list, put, c) ==
  c = [s \in SUBSET (DOMAIN list) |->
         IF s = {} THEN Text ELSE Replaced(c[s \ {Max(s)}], list[Max(s)].span, put[list[Max(s)]])]

\* The steps of the fold stay in A, and the values it goes through are in it.
CuttingStays(list, put, n, A) == \A k \in 1..n, a \in A : Replaced(a, list[k].span, put[list[k]]) \in A
CuttingPasses(list, put, n, A) ==
  \E h \in [0..n -> A] : /\ h[0] = Text /\ h[n] = Cutting(list, put)
                         /\ \A k \in 1..n : h[k] = Replaced(h[k - 1], list[k].span, put[list[k]])

LEMMA CuttingReachesUnfolds ==
  ASSUME NEW list, NEW put
  PROVE  Cutting(list, put) = (CHOOSE c : CuttingFolds(list, put, c))[DOMAIN list]
  BY DEF Cutting, FoldLeft, MapThenFoldSet, CuttingFolds

(* The finds are replaced one after the other. *)
LEMMA CuttingReaches ==
  ASSUME NEW list, NEW put, NEW n \in Nat, DOMAIN list = 1..n,
         NEW A, Text \in A,
         CuttingStays(list, put, n, A)
  PROVE  CuttingPasses(list, put, n, A)
<1> DEFINE step == [p \in (1..n) \X A |-> Replaced(p[2], list[p[1]].span, put[list[p[1]]])]
           c == CHOOSE c : CuttingFolds(list, put, c)
           h == [k \in 0..n |-> c[1..k]]
<1>2. \A k \in 1..n, a \in A : step[<<k, a>>] = Replaced(a, list[k].span, put[list[k]])
  OBVIOUS
<1>3. PICK g \in [SUBSET (1..n) -> A] : Folds(Text, step, n, g)
  <2>1. \A k \in 1..n, a \in A : step[<<k, a>>] \in A
    <3> HIDE DEF step
    <3>1. QED
      BY <1>2 DEF CuttingStays
  <2> HIDE DEF step
  <2>2. QED
    BY <2>1, FoldExists
<1>4. CuttingFolds(list, put, g)
  <2>1. ASSUME NEW s \in SUBSET (1..n), s # {}
        PROVE  step[<<Max(s), g[s \ {Max(s)}]>>] = Replaced(g[s \ {Max(s)}], list[Max(s)].span, put[list[Max(s)]])
    <3>1. Max(s) \in 1..n
      BY <2>1, GreatestOf
    <3>2. s \ {Max(s)} \in SUBSET (1..n)
      OBVIOUS
    <3>3. g[s \ {Max(s)}] \in A
      BY <3>2
    <3> HIDE DEF step
    <3>4. QED
      BY <1>2, <3>1, <3>3
  <2> HIDE DEF step
  <2>2. QED
    BY <1>3, <2>1 DEF CuttingFolds, Folds
<1>5. CuttingFolds(list, put, c)
  <2> HIDE DEF step
  <2>1. \E d : CuttingFolds(list, put, d)
    BY <1>4
  <2>2. QED
    BY <2>1
<1> HIDE DEF step, c
<1>6. c[{}] = Text /\ \A k \in 1..n : c[1..k] = Replaced(c[1..(k - 1)], list[k].span, put[list[k]])
  <2>1. c[{}] = Text
    BY <1>5 DEF CuttingFolds
  <2>2. ASSUME NEW k \in 1..n PROVE c[1..k] = Replaced(c[1..(k - 1)], list[k].span, put[list[k]])
    <3>1. /\ 1..k \in SUBSET (1..n) /\ 1..k # {}
          /\ Max(1..k) = k /\ (1..k) \ {k} = 1..(k - 1)
      BY PrefixEnds
    <3>2. QED
      BY <1>5, <3>1 DEF CuttingFolds
  <2>3. QED
    BY <2>1, <2>2
<1>7. h[0] = Text /\ \A k \in 1..n : h[k] = Replaced(h[k - 1], list[k].span, put[list[k]])
  BY <1>6
<1>8. h \in [0..n -> A]
  <2>1. h = [k \in 0..n |-> h[k]]
    OBVIOUS
  <2> HIDE DEF h
  <2>2. \A k \in 1..n : h[k - 1] \in A => h[k] \in A
    BY <1>7 DEF CuttingStays
  <2>3. \A k \in 0..n : h[k] \in A
    BY <1>7, <2>2, FoldStays
  <2>4. QED
    BY <2>1, <2>3
<1>9. Cutting(list, put) = h[n]
  BY CuttingReachesUnfolds DEF c
<1>10. QED
  BY <1>7, <1>8, <1>9 DEF CuttingPasses

LEMMA LoopsAre ==
  ASSUME NEW s
  PROVE  /\ Sure(s) = Surest(s)
         /\ Deduplicate(s) = Merging(s)
         /\ FilterAndDedupe(s) = ByStart(Keeping(ByScore(Sure(s))))
<1>1. Sure(s) = Surest(s)
  BY DEF Sure, Surest, Surely
<1>2. Deduplicate(s) = Merging(s)
  BY DEF Deduplicate, Merging, Merged
<1>3. FilterAndDedupe(s) = ByStart(Keeping(ByScore(Sure(s))))
  BY DEF FilterAndDedupe, Keeping, Beside
<1> QED
  BY <1>1, <1>2, <1>3

LEMMA ReplacingCuts ==
  ASSUME NEW s, NEW put
  PROVE  Replacing(s, put) = Cutting(Sorted(s, [k \in DOMAIN s |-> -s[k].span[1]]), put)
  BY DEF Replacing, Cutting

\* Two finds of different spans, and two that do not overlap.
Differ == {p \in Find \X Find : p[1].span # p[2].span}
Clear == {p \in Find \X Find : ~Meet(p[1].span, p[2].span)}
OneEach == {s \in Seq(Find) : Pairs(s, Differ)}
Disjoint == {s \in Seq(Find) : Pairs(s, Clear)}

(* A sequence is extended by what is related to all that it has. *)
LEMMA AppendPairs ==
  ASSUME NEW S, NEW R, NEW s \in Seq(S), Pairs(s, R), NEW m \in S,
         \A i \in 1..Len(s) : <<s[i], m>> \in R /\ <<m, s[i]>> \in R
  PROVE  Append(s, m) \in Seq(S) /\ Pairs(Append(s, m), R)
<1> DEFINE t == Append(s, m)
<1>1. Len(s) \in Nat
  BY SeqIs
<1>2. /\ t \in Seq(S) /\ Len(t) = Len(s) + 1
      /\ \A i \in 1..Len(s) : t[i] = s[i]
      /\ t[Len(s) + 1] = m
  BY AppendProperties
<1> HIDE DEF t
<1>3. ASSUME NEW i \in 1..Len(t), NEW j \in 1..Len(t), i # j PROVE <<t[i], t[j]>> \in R
  <2>1. CASE i \in 1..Len(s) /\ j \in 1..Len(s)
    BY <1>2, <1>3, <2>1 DEF Pairs
  <2>2. CASE i \in 1..Len(s) /\ j = Len(s) + 1
    BY <1>2, <2>2
  <2>3. CASE i = Len(s) + 1 /\ j \in 1..Len(s)
    BY <1>2, <2>3
  <2> QED
    BY <1>1, <1>2, <1>3, <2>1, <2>2, <2>3
<1>4. Pairs(t, R)
  BY <1>3 DEF Pairs
<1> QED
  BY <1>2, <1>4 DEF t

(* The sure finds are finds. *)
LEMMA SureIs ==
  ASSUME NEW found \in Seq(Find)
  PROVE  Sure(found) \in Seq(Find)
<1>1. Len(found) \in Nat /\ DOMAIN found = 1..Len(found) /\ \A i \in 1..Len(found) : found[i] \in Find
  BY SeqIs
<1>2. ASSUME NEW a \in Seq(Find), NEW k \in 1..Len(found) PROVE Surely(a, found[k]) \in Seq(Find)
  BY <1>1, AppendProperties DEF Surely
<1>3. SurestStays(found, Len(found), Seq(Find))
  BY <1>2 DEF SurestStays
<1>4. <<>> \in Seq(Find)
  OBVIOUS
<1>5. SurestPasses(found, Len(found), Seq(Find))
  BY <1>1, <1>3, <1>4, SureReaches
<1>6. Surest(found) \in Seq(Find)
  BY <1>1, <1>5 DEF SurestPasses
<1> QED
  BY <1>6, LoopsAre

(* Merging leaves one find of a span. *)
LEMMA MergedIs ==
  ASSUME NEW s \in OneEach, NEW m \in Find
  PROVE  Merged(s, m) \in OneEach
<1> DEFINE same == {i \in DOMAIN s : s[i].span = m.span}
           first == Min(same)
<1>1. /\ s \in Seq(Find) /\ Pairs(s, Differ) /\ Len(s) \in Nat /\ DOMAIN s = 1..Len(s)
      /\ \A i \in 1..Len(s) : s[i] \in Find
  <2>1. s \in Seq(Find) /\ Pairs(s, Differ)
    BY DEF OneEach
  <2> QED
    BY <2>1, SeqIs
<1>2. CASE same = {}
  <2>1. \A i \in 1..Len(s) : <<s[i], m>> \in Differ /\ <<m, s[i]>> \in Differ
    BY <1>1, <1>2 DEF Differ
  <2>2. Append(s, m) \in Seq(Find) /\ Pairs(Append(s, m), Differ)
    BY <1>1, <2>1, AppendPairs
  <2>3. Append(s, m) \in OneEach
    BY <2>2 DEF OneEach
  <2> QED
    BY <1>2, <2>3 DEF Merged
<1>3. CASE same # {}
  <2>1. first \in same
    <3>1. same \in SUBSET Nat
      BY <1>1
    <3>2. \E i \in same : \A j \in same : i <= j
      BY <1>3, <3>1, LeastNatural
    <3> HIDE DEF same
    <3> QED
      BY <3>2 DEF Min
  <2> HIDE DEF first
  <2>2. first \in 1..Len(s) /\ s[first].span = m.span
    BY <1>1, <2>1
  <2> DEFINE t == [s EXCEPT ![first] = m]
  <2>3. t \in Seq(Find) /\ Len(t) = Len(s)
    BY <1>1, <2>2, ExceptSeq
  <2>4. ASSUME NEW i \in 1..Len(s) PROVE t[i] \in Find /\ t[i].span = s[i].span
    BY <1>1, <2>2
  <2> HIDE DEF t
  <2>5. ASSUME NEW i \in 1..Len(s), NEW j \in 1..Len(s), i # j PROVE <<t[i], t[j]>> \in Differ
    <3>1. <<s[i], s[j]>> \in Differ
      BY <1>1, <2>5 DEF Pairs
    <3>2. s[i].span # s[j].span
      BY <3>1 DEF Differ
    <3> QED
      BY <2>4, <3>2 DEF Differ
  <2>6. t \in OneEach
    BY <2>3, <2>5 DEF OneEach, Pairs
  <2>7. Merged(s, m) = IF Score[m.by] > Score[s[first].by] THEN ReplaceAt(s, first, m) ELSE s
    BY <1>3 DEF Merged, first
  <2>8. ReplaceAt(s, first, m) = t
    BY DEF ReplaceAt, t
  <2> QED
    BY <2>6, <2>7, <2>8
<1> QED
  BY <1>2, <1>3

LEMMA DeduplicateIs ==
  ASSUME NEW found \in Seq(Find)
  PROVE  Deduplicate(found) \in OneEach
<1>1. Len(found) \in Nat /\ DOMAIN found = 1..Len(found) /\ \A i \in 1..Len(found) : found[i] \in Find
  BY SeqIs
<1>3. MergingStays(found, Len(found), OneEach)
  BY <1>1, MergedIs DEF MergingStays
<1>4. <<>> \in OneEach
  <2>1. <<>> \in Seq(Find) /\ Len(<<>>) = 0
    OBVIOUS
  <2> QED
    BY <2>1 DEF OneEach, Pairs
<1>5. MergingPasses(found, Len(found), OneEach)
  BY <1>1, <1>3, <1>4, MergedReaches
<1>6. Merging(found) \in OneEach
  BY <1>1, <1>5 DEF MergingPasses
<1> QED
  BY <1>6, LoopsAre

(* What overlaps nothing is kept: nothing that is kept overlaps. *)
LEMMA BesideIs ==
  ASSUME NEW s \in Disjoint, NEW m \in Find
  PROVE  Beside(s, m) \in Disjoint
<1>1. /\ s \in Seq(Find) /\ Pairs(s, Clear) /\ Len(s) \in Nat /\ DOMAIN s = 1..Len(s)
      /\ \A i \in 1..Len(s) : s[i] \in Find
  <2>1. s \in Seq(Find) /\ Pairs(s, Clear)
    BY DEF Disjoint
  <2> QED
    BY <2>1, SeqIs
<1>2. CASE \A i \in 1..Len(s) : ~Meet(m.span, s[i].span)
  <2>1. \A i \in 1..Len(s) : <<s[i], m>> \in Clear /\ <<m, s[i]>> \in Clear
    BY <1>1, <1>2 DEF Clear, Meet
  <2>2. Append(s, m) \in Seq(Find) /\ Pairs(Append(s, m), Clear)
    BY <1>1, <2>1, AppendPairs
  <2>3. Append(s, m) \in Disjoint
    BY <2>2 DEF Disjoint
  <2> QED
    BY <1>1, <1>2, <2>3 DEF Beside
<1>3. CASE \E i \in 1..Len(s) : Meet(m.span, s[i].span)
  BY <1>1, <1>3 DEF Beside
<1> QED
  BY <1>2, <1>3

LEMMA KeepingIs ==
  ASSUME NEW found \in Seq(Find)
  PROVE  Keeping(found) \in Disjoint
<1>1. Len(found) \in Nat /\ DOMAIN found = 1..Len(found) /\ \A i \in 1..Len(found) : found[i] \in Find
  BY SeqIs
<1>3. KeepingStays(found, Len(found), Disjoint)
  BY <1>1, BesideIs DEF KeepingStays
<1>4. <<>> \in Disjoint
  <2>1. <<>> \in Seq(Find) /\ Len(<<>>) = 0
    OBVIOUS
  <2> QED
    BY <2>1 DEF Disjoint, Pairs
<1>5. KeepingPasses(found, Len(found), Disjoint)
  BY <1>1, <1>3, <1>4, BesideReaches
<1> QED
  BY <1>1, <1>5 DEF KeepingPasses

(* The scrubber around Presidio replaces finds that do not overlap. *)
LEMMA FilteredIs ==
  ASSUME finds \in Finds, NEW by \in SUBSET Patterns
  PROVE  FilterAndDedupe(Matches(by)) \in Disjoint
<1> DEFINE m == Matches(by)
           kept == Keeping(ByScore(Sure(m)))
<1>1. m \in Seq(Find)
  BY MatchesAre
<1>2. FilterAndDedupe(m) = ByStart(kept)
  BY LoopsAre
<1> HIDE DEF m
<1>3. kept \in Disjoint
  BY <1>1, SureIs, ByScoreIs, KeepingIs
<1> HIDE DEF kept
<1>4. kept \in Seq(Find) /\ Pairs(kept, Clear)
  BY <1>3 DEF Disjoint
<1>5. SortKeeps(Find, kept, Clear, ByStart(kept))
  BY <1>4, ByStartIs
<1>6. ByStart(kept) \in Disjoint
  BY <1>4, <1>5 DEF SortKeeps, Disjoint
<1> QED
  BY <1>2, <1>6 DEF m

(* The scrubber of patterns replaces finds of different spans. *)
LEMMA ScanIs ==
  ASSUME finds \in Finds
  PROVE  Scan \in OneEach
<1> DEFINE kept == Deduplicate(Sure(Matches(Patterns)))
<1>1. Matches(Patterns) \in Seq(Find)
  BY MatchesAre
<1>2. kept \in OneEach
  BY <1>1, SureIs, DeduplicateIs
<1>3. Scan = ByStart(kept)
  BY DEF Scan
<1> HIDE DEF kept
<1>4. kept \in Seq(Find) /\ Pairs(kept, Differ)
  BY <1>2 DEF OneEach
<1>5. SortKeeps(Find, kept, Differ, ByStart(kept))
  BY <1>4, ByStartIs
<1> QED
  BY <1>3, <1>4, <1>5 DEF SortKeeps, OneEach

LEMMA ScanIsDisjoint ==
  ASSUME NEW s \in OneEach, Apart({m.span : m \in Range(s)})
  PROVE  s \in Disjoint
<1>1. s \in Seq(Find) /\ Pairs(s, Differ)
  BY DEF OneEach
<1>2. Len(s) \in Nat /\ DOMAIN s = 1..Len(s) /\ \A i \in 1..Len(s) : s[i] \in Find
  BY <1>1, SeqIs
<1>3. ASSUME NEW i \in 1..Len(s), NEW j \in 1..Len(s), i # j PROVE <<s[i], s[j]>> \in Clear
  <2>1. s[i].span # s[j].span
    BY <1>1, <1>3 DEF Pairs, Differ
  <2>2. s[i] \in Range(s) /\ s[j] \in Range(s)
    BY <1>2 DEF Range
  <2>3. ~Meet(s[i].span, s[j].span)
    BY <2>1, <2>2 DEF Apart
  <2> QED
    BY <1>2, <2>3 DEF Clear
<1> QED
  BY <1>1, <1>3 DEF Disjoint, Pairs

\* What replaces the span a..e: no more of the text than may be seen of it, in order.
PutFits(w, a, e, visible) ==
  /\ w \in Seq(Nat)
  /\ \A i \in 1..Len(w) : w[i] # 0 => w[i] \in a..e /\ w[i] \in visible
  /\ \A i, j \in 1..Len(w) : i < j /\ w[i] # 0 /\ w[j] # 0 => w[i] < w[j]

\* A text u of which all from b on has been scrubbed, where the places in gone were found.
Unshifted(u, b) == b - 1 <= Len(u) /\ \A i \in 1..(b - 1) : u[i] = i
Scraped(u, b) == \A i \in b..Len(u) : u[i] = 0 \/ u[i] \in b..Length
Rises(u) == \A i, j \in 1..Len(u) : i < j /\ u[i] # 0 /\ u[j] # 0 => u[i] < u[j]
Shows(u, gone, visible) ==
  \A i \in 1..Len(u) : u[i] # 0 => u[i] \notin gone \/ u[i] \in visible
Leaves(u, gone) == \A p \in (1..Length) \ gone : \E i \in 1..Len(u) : u[i] = p
Scrubbed(u, b, gone, visible) ==
  /\ u \in Seq(Nat) /\ b \in 1..(Length + 1)
  /\ Unshifted(u, b) /\ Scraped(u, b) /\ Rises(u)
  /\ Shows(u, gone, visible) /\ Leaves(u, gone)
  /\ \A p \in gone : p \in Nat /\ p >= b

\* The text v is u, where w is in the place of a..e.
Replaces(u, a, e, w, v) ==
  /\ v \in Seq(Nat)
  /\ Len(v) = (a - 1) + Len(w) + (Len(u) - e)
  /\ \A i \in 1..(a - 1) : v[i] = u[i]
  /\ \A i \in 1..Len(w) : v[(a - 1) + i] = w[i]
  /\ \A i \in (e + 1)..Len(u) : v[(a - 1) + Len(w) + (i - e)] = u[i]

LEMMA LeastOfTwo == ASSUME NEW m \in Nat, NEW n \in Nat PROVE Min({m, n}) = IF m <= n THEN m ELSE n
<1> DEFINE l == IF m <= n THEN m ELSE n
<1>1. l \in {m, n} /\ \A y \in {m, n} : l <= y
  OBVIOUS
<1>2. \A o \in {m, n} : (\A y \in {m, n} : o <= y) => o = l
  OBVIOUS
<1> HIDE DEF l
<1>3. Min({m, n}) = l
  BY <1>1, <1>2 DEF Min
<1> QED
  BY <1>3 DEF l

(* A replacement ends with a sequence, whatever the places. *)
LEMMA ReplacedIsText ==
  ASSUME NEW u \in Seq(Nat), NEW a \in 1..Length, NEW e \in 1..Length, NEW w \in Seq(Nat)
  PROVE  Replaced(u, <<a, e>>, w) \in Seq(Nat)
<1> DEFINE m == Min({a - 1, Len(u)})
           front == SubSeq(u, 1, m)
           back == SubSeq(u, e + 1, Len(u))
<1>0. Replaced(u, <<a, e>>, w) = front \o w \o back
  BY DEF Replaced
<1>1. Len(u) \in Nat /\ a - 1 \in Nat
  BY SeqIs, ScrubberAssumption
<1>7. m = IF a - 1 <= Len(u) THEN a - 1 ELSE Len(u)
  BY <1>1, LeastOfTwo
<1>2. m \in Nat /\ m <= Len(u)
  BY <1>1, <1>7
<1> HIDE DEF m
<1>3. front \in Seq(Nat)
  BY <1>1, <1>2, SubSeqProperties
<1>4. back \in Seq(Nat)
  BY <1>1, SubSeqProperties, ScrubberAssumption
<1> HIDE DEF front, back
<1>5. front \o w \in Seq(Nat)
  BY <1>3, ConcatProperties
<1>6. (front \o w) \o back \in Seq(Nat)
  BY <1>4, <1>5, ConcatProperties
<1> QED
  BY <1>0, <1>6

LEMMA ReplacedIs ==
  ASSUME NEW u \in Seq(Nat), NEW a \in 1..Length, NEW e \in a..Length, e <= Len(u), NEW w \in Seq(Nat)
  PROVE  Replaces(u, a, e, w, Replaced(u, <<a, e>>, w))
<1> DEFINE m == Min({a - 1, Len(u)})
           front == SubSeq(u, 1, m)
           back == SubSeq(u, e + 1, Len(u))
           most == front \o w
           v == most \o back
<1>0. Replaced(u, <<a, e>>, w) = v
  BY DEF Replaced
<1>1. /\ Len(u) \in Nat /\ a - 1 \in Nat /\ e \in 0..Len(u) /\ a - 1 <= Len(u) /\ Len(w) \in Nat
      /\ a \in Nat /\ e \in Nat /\ Length \in Nat
  BY SeqIs, ScrubberAssumption
<1>2. m = a - 1
  BY <1>1, LeastOfTwo
<1> HIDE DEF m
<1>3. front \in Seq(Nat) /\ Len(front) = a - 1
  BY <1>1, <1>2, SubSeqProperties
<1>4. \A i \in 1..(a - 1) : front[i] = u[i]
  BY <1>1, <1>2, SubSeqProperties
<1>5. /\ back \in Seq(Nat) /\ Len(back) = Len(u) - e
      /\ \A i \in 1..(Len(u) - e) : back[i] = u[e + i]
  BY <1>1, RestKeeps
<1> HIDE DEF front, back
<1>6. most \in Seq(Nat) /\ Len(most) = (a - 1) + Len(w)
  BY <1>3, ConcatProperties
<1>7. \A i \in 1..((a - 1) + Len(w)) : most[i] = IF i <= a - 1 THEN front[i] ELSE w[i - (a - 1)]
  <2>1. \A i \in 1..(Len(front) + Len(w)) :
          (front \o w)[i] = IF i <= Len(front) THEN front[i] ELSE w[i - Len(front)]
    BY <1>3, ConcatProperties
  <2> QED
    BY <1>3, <2>1
<1> HIDE DEF most
<1>8. v \in Seq(Nat) /\ Len(v) = (a - 1) + Len(w) + (Len(u) - e)
  <2>1. most \in Seq(Nat) /\ back \in Seq(Nat)
    BY <1>5, <1>6
  <2>2. v \in Seq(Nat) /\ Len(v) = Len(most) + Len(back)
    BY <2>1, ConcatProperties
  <2> QED
    BY <1>5, <1>6, <2>2
<1>9. \A i \in 1..((a - 1) + Len(w) + (Len(u) - e)) :
        v[i] = IF i <= (a - 1) + Len(w) THEN most[i] ELSE back[i - ((a - 1) + Len(w))]
  <2>1. most \in Seq(Nat) /\ back \in Seq(Nat)
    BY <1>5, <1>6
  <2>2. \A i \in 1..(Len(most) + Len(back)) :
          (most \o back)[i] = IF i <= Len(most) THEN most[i] ELSE back[i - Len(most)]
    BY <2>1, ConcatProperties
  <2> QED
    BY <1>5, <1>6, <2>2
<1> HIDE DEF v
<1>10. ASSUME NEW i \in 1..(a - 1) PROVE v[i] = u[i]
  <2>1. i \in 1..((a - 1) + Len(w)) /\ i \in 1..((a - 1) + Len(w) + (Len(u) - e)) /\ i <= a - 1
    BY <1>1
  <2>2. v[i] = most[i]
    BY <1>1, <1>9, <2>1
  <2> QED
    BY <1>4, <1>7, <2>1, <2>2
<1>11. ASSUME NEW i \in 1..Len(w) PROVE v[(a - 1) + i] = w[i]
  <2> DEFINE k == (a - 1) + i
  <2>1. /\ k \in 1..((a - 1) + Len(w)) /\ k \in 1..((a - 1) + Len(w) + (Len(u) - e))
        /\ ~(k <= a - 1) /\ k - (a - 1) = i /\ k <= (a - 1) + Len(w)
    BY <1>1
  <2> HIDE DEF k
  <2>2. v[k] = most[k]
    BY <1>9, <2>1
  <2>3. most[k] = w[i]
    BY <1>7, <2>1
  <2> QED
    BY <2>2, <2>3 DEF k
<1>12. ASSUME NEW i \in (e + 1)..Len(u) PROVE v[(a - 1) + Len(w) + (i - e)] = u[i]
  <2> DEFINE k == (a - 1) + Len(w) + (i - e)
  <2>1. /\ k \in 1..((a - 1) + Len(w) + (Len(u) - e)) /\ ~(k <= (a - 1) + Len(w))
        /\ k - ((a - 1) + Len(w)) = i - e /\ i - e \in 1..(Len(u) - e) /\ e + (i - e) = i
    BY <1>1
  <2> HIDE DEF k
  <2>2. v[k] = back[i - e]
    BY <1>9, <2>1
  <2>3. back[i - e] = u[i]
    BY <1>5, <2>1
  <2> QED
    BY <2>2, <2>3 DEF k
<1> QED
  BY <1>0, <1>8, <1>10, <1>11, <1>12 DEF Replaces

\* A place of the new text is before, in or after the replacement.
From(u, a, e, w, v, i) ==
  \/ i \in 1..(a - 1) /\ v[i] = u[i]
  \/ \E j \in 1..Len(w) : i = (a - 1) + j /\ v[i] = w[j]
  \/ \E j \in (e + 1)..Len(u) : i = (a - 1) + Len(w) + (j - e) /\ v[i] = u[j]

LEMMA ComesFrom ==
  ASSUME NEW u \in Seq(Nat), NEW a \in 1..Length, NEW e \in a..Length, e <= Len(u),
         NEW w \in Seq(Nat), NEW v, Replaces(u, a, e, w, v), NEW i \in 1..Len(v)
  PROVE  From(u, a, e, w, v, i)
<1>1. Len(u) \in Nat /\ Len(w) \in Nat /\ a \in Nat /\ e \in Nat /\ Length \in Nat
  BY SeqIs, ScrubberAssumption
<1>2. Len(v) = (a - 1) + Len(w) + (Len(u) - e)
  BY DEF Replaces
<1>3. CASE i <= a - 1
  BY <1>1, <1>2, <1>3 DEF Replaces, From
<1>4. CASE i > a - 1 /\ i <= (a - 1) + Len(w)
  <2> DEFINE j == i - (a - 1)
  <2>1. j \in 1..Len(w) /\ i = (a - 1) + j
    BY <1>1, <1>2, <1>4
  <2> HIDE DEF j
  <2>2. v[i] = w[j]
    BY <2>1 DEF Replaces
  <2> QED
    BY <2>1, <2>2 DEF From
<1>5. CASE i > (a - 1) + Len(w)
  <2> DEFINE j == (i - ((a - 1) + Len(w))) + e
  <2>1. j \in (e + 1)..Len(u) /\ i = (a - 1) + Len(w) + (j - e)
    BY <1>1, <1>2, <1>5
  <2> HIDE DEF j
  <2>2. v[i] = u[j]
    BY <2>1 DEF Replaces
  <2> QED
    BY <2>1, <2>2 DEF From
<1> QED
  BY <1>1, <1>2, <1>3, <1>4, <1>5

(* To replace a span before what has been scrubbed scrubs the text from that span on. *)
LEMMA Cuts ==
  ASSUME NEW u, NEW b, NEW gone, NEW visible, Scrubbed(u, b, gone, visible),
         NEW a \in 1..Length, NEW e \in a..(b - 1), NEW w, PutFits(w, a, e, visible)
  PROVE  Scrubbed(Replaced(u, <<a, e>>, w), a, gone \cup (a..e), visible)
<1> DEFINE v == Replaced(u, <<a, e>>, w)
<1>1. /\ u \in Seq(Nat) /\ b \in 1..(Length + 1) /\ w \in Seq(Nat)
      /\ Unshifted(u, b) /\ Scraped(u, b) /\ Rises(u) /\ Shows(u, gone, visible) /\ Leaves(u, gone)
      /\ \A p \in gone : p \in Nat /\ p >= b
  BY DEF Scrubbed, PutFits
<1>2. /\ Len(u) \in Nat /\ Len(w) \in Nat /\ a \in Nat /\ e \in Nat /\ b \in Nat /\ Length \in Nat
      /\ \A i \in 1..Len(u) : u[i] \in Nat
  BY <1>1, SeqIs, ScrubberAssumption
<1>3. e <= Len(u) /\ e \in a..Length /\ 1 <= a /\ a <= e /\ e < b
  BY <1>1, <1>2 DEF Unshifted
<1>4. Replaces(u, a, e, w, v)
  BY <1>1, <1>3, ReplacedIs
<1> HIDE DEF v
<1>5. v \in Seq(Nat) /\ Len(v) = (a - 1) + Len(w) + (Len(u) - e)
  BY <1>4 DEF Replaces
<1>6. \A i \in 1..Len(v) : From(u, a, e, w, v, i)
  BY <1>1, <1>3, <1>4, ComesFrom
<1>7. \A i \in 1..(a - 1) : u[i] = i
  BY <1>1, <1>2, <1>3 DEF Unshifted
<1>8. ASSUME NEW j \in (e + 1)..Len(u) PROVE u[j] = 0 \/ u[j] \in (e + 1)..Length
  <2>1. CASE j < b
    BY <1>1, <1>2, <1>3, <2>1 DEF Unshifted
  <2>2. CASE j >= b
    BY <1>1, <1>2, <1>3, <2>2 DEF Scraped
  <2> QED
    BY <1>2, <2>1, <2>2
<1>9. Unshifted(v, a)
  BY <1>2, <1>3, <1>4, <1>5, <1>7 DEF Unshifted, Replaces
<1>10. Scraped(v, a)
  <2> SUFFICES ASSUME NEW i \in a..Len(v) PROVE v[i] = 0 \/ v[i] \in a..Length
    BY DEF Scraped
  <2>0. i \in 1..Len(v) /\ i \notin 1..(a - 1)
    BY <1>2, <1>3, <1>5
  <2>1. ASSUME NEW j \in 1..Len(w), v[i] = w[j] PROVE v[i] = 0 \/ v[i] \in a..Length
    BY <1>2, <1>3, <2>1 DEF PutFits
  <2>2. ASSUME NEW j \in (e + 1)..Len(u), v[i] = u[j] PROVE v[i] = 0 \/ v[i] \in a..Length
    BY <1>2, <1>3, <1>8, <2>2
  <2> QED
    BY <1>6, <2>0, <2>1, <2>2 DEF From
<1>11. Rises(v)
  <2> SUFFICES ASSUME NEW i \in 1..Len(v), NEW k \in 1..Len(v), i < k, v[i] # 0, v[k] # 0
               PROVE  v[i] < v[k]
    BY DEF Rises
  <2>0. i \in Nat /\ k \in Nat /\ v[i] \in Nat /\ v[k] \in Nat
    BY <1>5, SeqIs
  <2>1. CASE i \in 1..(a - 1)
    <3>1. v[i] = i
      BY <1>4, <1>7, <2>1 DEF Replaces
    <3>2. CASE k \in 1..(a - 1)
      BY <1>4, <1>7, <3>1, <3>2 DEF Replaces
    <3>3. CASE k \notin 1..(a - 1)
      <4>1. k \in a..Len(v)
        BY <1>2, <1>3, <1>5, <3>3
      <4>2. v[k] \in a..Length
        BY <1>10, <4>1 DEF Scraped
      <4> QED
        BY <1>2, <2>1, <3>1, <4>2
    <3> QED
      BY <3>2, <3>3
  <2>2. ASSUME NEW j \in 1..Len(w), i = (a - 1) + j, v[i] = w[j] PROVE v[i] < v[k]
    <3>1. w[j] \in a..e
      BY <2>2 DEF PutFits
    <3>2. k \notin 1..(a - 1)
      BY <1>2, <2>2
    <3>3. ASSUME NEW l \in 1..Len(w), k = (a - 1) + l, v[k] = w[l] PROVE v[i] < v[k]
      <4>1. j < l
        BY <1>2, <2>2, <3>3
      <4> QED
        BY <2>2, <3>3, <4>1 DEF PutFits
    <3>4. ASSUME NEW l \in (e + 1)..Len(u), v[k] = u[l] PROVE v[i] < v[k]
      <4>1. u[l] \in (e + 1)..Length
        BY <1>8, <3>4
      <4>2. e \in Nat /\ a \in Nat /\ Length \in Nat
        BY <1>2
      <4>3. w[j] < u[l]
        BY <3>1, <4>1, <4>2
      <4> QED
        BY <2>2, <3>4, <4>3
    <3> QED
      BY <1>6, <3>2, <3>3, <3>4 DEF From
  <2>3. ASSUME NEW j \in (e + 1)..Len(u), i = (a - 1) + Len(w) + (j - e), v[i] = u[j]
        PROVE  v[i] < v[k]
    <3>1. k \notin 1..(a - 1)
      BY <1>2, <2>3
    <3>2. ASSUME NEW l \in 1..Len(w) PROVE k # (a - 1) + l
      BY <1>2, <2>3
    <3>3. ASSUME NEW l \in (e + 1)..Len(u), k = (a - 1) + Len(w) + (l - e), v[k] = u[l]
          PROVE  v[i] < v[k]
      <4>1. j < l /\ j \in 1..Len(u) /\ l \in 1..Len(u)
        BY <1>2, <2>3, <3>3
      <4> QED
        BY <1>1, <2>3, <3>3, <4>1 DEF Rises
    <3> QED
      BY <1>6, <3>1, <3>2, <3>3 DEF From
  <2> QED
    BY <1>6, <2>1, <2>2, <2>3 DEF From
<1>12. Shows(v, gone \cup (a..e), visible)
  <2> SUFFICES ASSUME NEW i \in 1..Len(v), v[i] # 0, v[i] \notin visible
               PROVE  v[i] \notin gone /\ v[i] \notin a..e
    BY DEF Shows
  <2>1. CASE i \in 1..(a - 1) /\ v[i] = u[i]
    <3>1. u[i] = i /\ i < a /\ i < b
      BY <1>2, <1>3, <1>7, <2>1
    <3>2. \A p \in gone : p # i
      BY <1>1, <1>2, <3>1
    <3> QED
      BY <1>2, <2>1, <3>1, <3>2
  <2>2. ASSUME NEW j \in 1..Len(w), v[i] = w[j] PROVE FALSE
    BY <2>2 DEF PutFits
  <2>3. ASSUME NEW j \in (e + 1)..Len(u), v[i] = u[j] PROVE v[i] \notin gone /\ v[i] \notin a..e
    <3>1. u[j] \in (e + 1)..Length /\ j \in 1..Len(u)
      BY <1>2, <1>8, <2>3
    <3> QED
      BY <1>1, <1>2, <2>3, <3>1 DEF Shows
  <2> QED
    BY <1>6, <2>1, <2>2, <2>3 DEF From
<1>13. Leaves(v, gone \cup (a..e))
  <2> SUFFICES ASSUME NEW p \in 1..Length, p \notin gone, p \notin a..e
               PROVE  \E i \in 1..Len(v) : v[i] = p
    BY DEF Leaves
  <2>1. PICK j \in 1..Len(u) : u[j] = p
    BY <1>1 DEF Leaves
  <2>2. CASE j \in 1..(a - 1)
    <3>1. j \in 1..Len(v)
      BY <1>2, <1>3, <1>5, <2>2
    <3>2. v[j] = u[j]
      BY <1>4, <2>2 DEF Replaces
    <3> QED
      BY <2>1, <3>1, <3>2
  <2>3. CASE j \in a..e
    <3>1. j \in 1..(b - 1)
      BY <1>2, <1>3, <2>3
    <3>2. u[j] = j
      BY <1>1, <3>1 DEF Unshifted
    <3> QED
      BY <2>1, <2>3, <3>2
  <2>4. CASE j \in (e + 1)..Len(u)
    <3>1. (a - 1) + Len(w) + (j - e) \in 1..Len(v)
      BY <1>2, <1>3, <1>5, <2>4
    <3> QED
      BY <1>4, <2>1, <2>4, <3>1 DEF Replaces
  <2> QED
    BY <1>2, <1>3, <2>2, <2>3, <2>4
<1>14. ASSUME NEW p \in gone \cup (a..e) PROVE p \in Nat /\ p >= a
  <2>1. CASE p \in gone
    <3>1. p \in Nat /\ p >= b
      BY <1>1, <2>1
    <3> QED
      BY <1>2, <1>3, <3>1
  <2> QED
    BY <1>2, <2>1
<1>15. a \in 1..(Length + 1)
  BY <1>2
<1> QED
  BY <1>5, <1>9, <1>10, <1>11, <1>12, <1>13, <1>14, <1>15 DEF Scrubbed, v

\* The finds from the last to the first.
Descends(list, found) ==
  /\ list \in Seq(Find) /\ Range(list) = Range(found)
  /\ \A i, j \in 1..Len(list) : i < j => list[j].span[2] < list[i].span[1]

LEMMA LastFirst ==
  ASSUME NEW found \in Disjoint
  PROVE  Descends(Sorted(found, [k \in DOMAIN found |-> -found[k].span[1]]), found)
<1> DEFINE key == [k \in DOMAIN found |-> -found[k].span[1]]
           d == Sorted(found, key)
           n == Len(found)
<1>1. found \in Seq(Find) /\ Pairs(found, Clear)
  BY DEF Disjoint
<1>2. n \in Nat /\ DOMAIN found = 1..n /\ \A k \in 1..n : found[k] \in Find
  BY <1>1, SeqIs
<1>3. \A k \in 1..n : found[k].span \in Spans
  BY <1>2 DEF Find
<1>4. \A k \in 1..n : found[k].span[1] \in Nat /\ key[k] = -found[k].span[1] /\ key[k] \in Int
  BY <1>2, <1>3, SpanIs
<1> HIDE DEF key
<1>5. SortsBy(found, key, d)
  BY <1>1, <1>4, SortedIs
<1> HIDE DEF d
<1>6. SortKeeps(Find, found, Clear, d)
  BY <1>1, <1>5, SortedKeeps
<1>7. d \in Seq(Find) /\ Len(d) = n /\ Range(d) = Range(found) /\ Pairs(d, Clear)
  BY <1>1, <1>6 DEF SortKeeps
<1>8. PICK f \in Bijection(1..n, 1..n) :
        /\ d = [k \in 1..n |-> found[f[k]]]
        /\ \A i, j \in 1..n : i < j => key[f[i]] <= key[f[j]]
  BY <1>5 DEF SortsBy
<1> HIDE DEF n
<1>9. \A k \in 1..n : f[k] \in 1..n /\ d[k] = found[f[k]]
  BY <1>8 DEF Bijection, Injection
<1>10. ASSUME NEW i \in 1..n, NEW j \in 1..n, i < j
       PROVE  d[j].span[2] < d[i].span[1]
  <2>1. d[i].span \in Spans /\ d[j].span \in Spans
    BY <1>3, <1>9
  <2>2. -d[i].span[1] <= -d[j].span[1]
    BY <1>4, <1>8, <1>9, <1>10
  <2>3. i # j
    BY <1>2, <1>10
  <2>4. ~Meet(d[i].span, d[j].span)
    BY <1>7, <2>3 DEF Pairs, Clear
  <2>5. /\ d[i].span[1] \in Nat /\ d[i].span[2] \in Nat /\ d[i].span[1] <= d[i].span[2]
        /\ d[j].span[1] \in Nat /\ d[j].span[2] \in Nat /\ d[j].span[1] <= d[j].span[2]
    BY <2>1, SpanIs
  <2> DEFINE a == d[i].span[1]
             b == d[i].span[2]
             l == d[j].span[1]
             e == d[j].span[2]
  <2>6. a > e \/ l > b
    BY <2>4, <2>5 DEF Meet
  <2>7. a \in Nat /\ b \in Nat /\ a <= b /\ l \in Nat /\ e \in Nat /\ -a <= -l
    BY <2>2, <2>5
  <2>8. e < a
    <3> HIDE DEF a, b, l, e
    <3> QED
      BY <2>6, <2>7
  <2> QED
    BY <2>8
<1> QED
  BY <1>7, <1>10 DEF Descends, d, key

\* The places that were found.
GoneOf(found, gone) ==
  \A i \in Positions : i \in gone <=> \E k \in DOMAIN found : Meet(<<i, i>>, found[k].span)

(* A text that has been scrubbed of what was found is exact. *)
LEMMA ScrubbedIsExact ==
  ASSUME NEW u, NEW b, NEW gone, NEW visible, Scrubbed(u, b, gone, visible),
         NEW found, GoneOf(found, gone)
  PROVE  Exact(u, found, visible)
<1>1. /\ u \in Seq(Nat) /\ b \in 1..(Length + 1) /\ Length \in Nat
      /\ Unshifted(u, b) /\ Scraped(u, b) /\ Rises(u) /\ Shows(u, gone, visible) /\ Leaves(u, gone)
  BY ScrubberAssumption DEF Scrubbed
<1>2. Len(u) \in Nat /\ DOMAIN u = 1..Len(u)
  BY <1>1, SeqIs
<1>3. \A i, j \in DOMAIN u : i < j /\ 0 \notin {u[i], u[j]} => u[i] < u[j]
  BY <1>1, <1>2 DEF Rises
<1>4. ASSUME NEW i \in Outside(found) PROVE i \in Range(u) \ {0}
  <2>1. i \in 1..Length /\ i \notin gone
    BY DEF Outside, GoneOf, Positions
  <2>2. PICK k \in 1..Len(u) : u[k] = i
    BY <1>1, <2>1 DEF Leaves
  <2> QED
    BY <1>2, <2>1, <2>2 DEF Range
<1>5. ASSUME NEW p \in Range(u) \ {0} PROVE p \in Outside(found) \cup visible
  <2>1. PICK i \in 1..Len(u) : u[i] = p
    BY <1>2 DEF Range
  <2>2. p \in 1..Length
    <3>1. CASE i <= b - 1
      BY <1>1, <2>1, <3>1 DEF Unshifted
    <3>2. CASE i >= b
      BY <1>1, <1>2, <2>1, <3>2 DEF Scraped
    <3> QED
      BY <1>1, <3>1, <3>2
  <2>3. p \notin gone \/ p \in visible
    BY <1>1, <2>1 DEF Shows
  <2> QED
    BY <2>2, <2>3 DEF GoneOf, Outside, Positions
<1> QED
  BY <1>3, <1>4, <1>5 DEF Exact

(* Nothing has been scrubbed of the text. *)
LEMMA TextIs == ASSUME NEW visible PROVE Scrubbed(Text, Length + 1, {}, visible)
<1>1. Length \in Nat
  BY ScrubberAssumption
<1>2. Text = [i \in 1..Length |-> i]
  BY <1>1 DEF Text, Original
<1>3. Text \in Seq(Nat) /\ Len(Text) = Length
  BY <1>1, <1>2
<1> QED
  BY <1>1, <1>2, <1>3 DEF Scrubbed, Unshifted, Scraped, Rises, Shows, Leaves

(* Finds that do not overlap are replaced exactly. *)
LEMMA ReplacingIs ==
  ASSUME NEW found \in Disjoint, NEW put, NEW visible,
         \A m \in Range(found) : PutFits(put[m], m.span[1], m.span[2], visible)
  PROVE  Exact(Replacing(found, put), found, visible)
<1> DEFINE d == Sorted(found, [k \in DOMAIN found |-> -found[k].span[1]])
           n == Len(d)
<1>1. Replacing(found, put) = Cutting(d, put)
  BY ReplacingCuts
<1>2. Descends(d, found)
  BY LastFirst
<1> HIDE DEF d
<1>3. d \in Seq(Find) /\ Range(d) = Range(found)
  BY <1>2 DEF Descends
<1>4. n \in Nat /\ DOMAIN d = 1..n /\ \A k \in 1..n : d[k] \in Find
  BY <1>3, SeqIs
<1>5. \A i, j \in 1..n : i < j => d[j].span[2] < d[i].span[1]
  BY <1>2 DEF Descends
<1> HIDE DEF n
<1>6. ASSUME NEW k \in 1..n
      PROVE  /\ d[k].span[1] \in 1..Length /\ d[k].span[2] \in 1..Length
             /\ d[k].span[1] <= d[k].span[2] /\ d[k].span = <<d[k].span[1], d[k].span[2]>>
             /\ PutFits(put[d[k]], d[k].span[1], d[k].span[2], visible)
  <2>1. d[k].span \in Spans
    BY <1>4 DEF Find
  <2>2. d[k] \in Range(found)
    BY <1>3, <1>4 DEF Range
  <2> QED
    BY <2>1, <2>2, SpanIs
<1>7. ASSUME NEW k \in 1..n, NEW a \in Seq(Nat)
      PROVE  Replaced(a, d[k].span, put[d[k]]) \in Seq(Nat)
  <2>1. put[d[k]] \in Seq(Nat)
    BY <1>6 DEF PutFits
  <2>2. Replaced(a, <<d[k].span[1], d[k].span[2]>>, put[d[k]]) \in Seq(Nat)
    BY <1>6, <2>1, ReplacedIsText
  <2> QED
    BY <1>6, <2>2
<1>8. CuttingStays(d, put, n, Seq(Nat))
  BY <1>7 DEF CuttingStays
<1>9. Text \in Seq(Nat)
  BY TextIs DEF Scrubbed
<1>10. CuttingPasses(d, put, n, Seq(Nat))
  BY <1>4, <1>8, <1>9, CuttingReaches
<1>11. PICK h \in [0..n -> Seq(Nat)] :
         /\ h[0] = Text /\ h[n] = Cutting(d, put)
         /\ \A k \in 1..n : h[k] = Replaced(h[k - 1], d[k].span, put[d[k]])
  BY <1>10 DEF CuttingPasses
<1> DEFINE start(k) == IF k = 0 THEN Length + 1 ELSE d[k].span[1]
           gone(k) == UNION {d[j].span[1]..d[j].span[2] : j \in 1..k}
           Right(k) == Scrubbed(h[k], start(k), gone(k), visible)
           P == {k \in 0..n : Right(k)}
<1>12. Right(0)
  <2>1. gone(0) = {}
    OBVIOUS
  <2> HIDE DEF gone
  <2> QED
    BY <1>11, <2>1, TextIs
<1>13. ASSUME NEW k \in 1..n, Right(k - 1) PROVE Right(k)
  <2> DEFINE a == d[k].span[1]
             e == d[k].span[2]
             before == start(k - 1)
  <2>1. start(k) = a
    BY <1>4
  <2>2. gone(k) = gone(k - 1) \cup (a..e)
    <3>1. 1..k = (1..(k - 1)) \cup {k}
      BY <1>4
    <3> QED
      BY <3>1
  <2>3. e \in a..(before - 1)
    <3>0. a \in Nat /\ e \in Nat /\ a <= e /\ e <= Length /\ Length \in Nat
      BY <1>6, ScrubberAssumption
    <3>1. CASE k = 1
      <4>1. before = Length + 1
        BY <3>1
      <4> HIDE DEF before, a, e
      <4> QED
        BY <3>0, <4>1
    <3>2. CASE k # 1
      <4>1. k - 1 \in 1..n /\ k - 1 < k /\ k - 1 # 0
        BY <1>4, <3>2
      <4>2. before = d[k - 1].span[1]
        BY <4>1
      <4>3. e < d[k - 1].span[1] /\ d[k - 1].span[1] \in Nat
        BY <1>5, <1>6, <4>1
      <4> HIDE DEF before, a, e
      <4> QED
        BY <3>0, <4>2, <4>3
    <3> QED
      BY <3>1, <3>2
  <2>4. h[k] = Replaced(h[k - 1], <<a, e>>, put[d[k]])
    BY <1>6, <1>11
  <2>5. PutFits(put[d[k]], a, e, visible) /\ a \in 1..Length
    BY <1>6
  <2>6. Scrubbed(h[k - 1], before, gone(k - 1), visible)
    BY <1>13
  <2> HIDE DEF a, e, before, start, gone
  <2>7. Scrubbed(Replaced(h[k - 1], <<a, e>>, put[d[k]]), a, gone(k - 1) \cup (a..e), visible)
    BY <2>3, <2>5, <2>6, Cuts
  <2> QED
    BY <2>1, <2>2, <2>4, <2>7
<1>14. Right(n)
  <2> HIDE DEF Right
  <2>1. 0 \in P /\ \A k \in 1..n : k - 1 \in P => k \in P
    BY <1>4, <1>12, <1>13
  <2> HIDE DEF P
  <2>2. \A k \in 0..n : k \in P
    BY <1>4, <2>1, NaturalInduction
  <2>3. n \in 0..n
    BY <1>4
  <2> QED
    BY <2>2, <2>3 DEF P
<1>15. GoneOf(found, gone(n))
  <2> SUFFICES ASSUME NEW i \in Positions
               PROVE  i \in gone(n) <=> \E k \in DOMAIN found : Meet(<<i, i>>, found[k].span)
    BY DEF GoneOf
  <2>0. i \in Nat
    BY DEF Positions
  <2>1. \A j \in 1..n : i \in d[j].span[1]..d[j].span[2] <=> Meet(<<i, i>>, d[j].span)
    BY <1>6, <2>0 DEF Meet
  <2>2. i \in gone(n) <=> \E j \in 1..n : Meet(<<i, i>>, d[j].span)
    BY <2>1
  <2>3. Range(d) = {d[j] : j \in 1..n}
    BY <1>4 DEF Range
  <2>4. Range(found) = {found[k] : k \in DOMAIN found}
    BY DEF Range
  <2> HIDE DEF gone
  <2> QED
    BY <1>3, <2>2, <2>3, <2>4
<1>16. Scrubbed(h[n], start(n), gone(n), visible)
  BY <1>14
<1> HIDE DEF start, gone, Right, P
<1>17. Exact(h[n], found, visible)
  BY <1>15, <1>16, ScrubbedIsExact
<1> QED
  BY <1>1, <1>11, <1>17

(* A filler shows nothing. *)
LEMMA FillerFits ==
  ASSUME NEW width \in Nat, NEW a, NEW e, NEW visible
  PROVE  PutFits(Filler(width), a, e, visible)
<1>1. Filler(width) = [i \in 1..width |-> 0]
  BY DEF Filler
<1>2. Filler(width) \in Seq(Nat) /\ Len(Filler(width)) = width /\ \A i \in 1..width : Filler(width)[i] = 0
  BY <1>1
<1> QED
  BY <1>2 DEF PutFits

(* What is left of a span is in order. *)
LEMMA OriginalFits ==
  ASSUME NEW a \in Nat, NEW e \in Nat, NEW s \in Nat, a <= s, s <= e + 1, NEW visible, a..e \subseteq visible
  PROVE  /\ PutFits(Original(<<s, e>>), a, e, visible)
         /\ Len(Original(<<s, e>>)) = e - s + 1
         /\ \A i \in 1..(e - s + 1) : Original(<<s, e>>)[i] = s + i - 1
<1> DEFINE w == Original(<<s, e>>)
<1>1. w = [i \in 1..(e - s + 1) |-> s + i - 1]
  BY DEF Original
<1>2. e - s + 1 \in Nat
  OBVIOUS
<1> HIDE DEF w
<1>3. \A i \in 1..(e - s + 1) : w[i] = s + i - 1 /\ w[i] \in Nat
  BY <1>1
<1>4. w \in Seq(Nat) /\ Len(w) = e - s + 1
  BY <1>1, <1>2, <1>3
<1>5. \A i \in 1..(e - s + 1) : w[i] \in a..e
  BY <1>3
<1>6. PutFits(w, a, e, visible)
  BY <1>3, <1>4, <1>5 DEF PutFits
<1> QED
  BY <1>3, <1>4, <1>6 DEF w

(* A mask shows what is behind it. *)
LEMMA MaskFits ==
  ASSUME NEW width \in Nat, NEW w, NEW a, NEW e, NEW visible, PutFits(w, a, e, visible)
  PROVE  PutFits(Filler(width) \o w, a, e, visible)
<1> DEFINE t == Filler(width)
           v == t \o w
<1>1. t = [i \in 1..width |-> 0]
  BY DEF Filler
<1>2. t \in Seq(Nat) /\ Len(t) = width /\ \A i \in 1..width : t[i] = 0
  BY <1>1
<1>3. w \in Seq(Nat) /\ Len(w) \in Nat
  BY SeqIs DEF PutFits
<1> HIDE DEF t
<1>4. v \in Seq(Nat) /\ Len(v) = width + Len(w)
  BY <1>2, <1>3, ConcatProperties
<1>5. \A i \in 1..(Len(t) + Len(w)) : v[i] = IF i <= Len(t) THEN t[i] ELSE w[i - Len(t)]
  BY <1>2, <1>3, ConcatProperties
<1> HIDE DEF v
<1>6. ASSUME NEW i \in 1..Len(v), v[i] # 0
      PROVE  i - width \in 1..Len(w) /\ v[i] = w[i - width]
  <2>1. v[i] = IF i <= width THEN t[i] ELSE w[i - width]
    BY <1>2, <1>4, <1>5
  <2>2. ~(i <= width)
    BY <1>2, <1>4, <1>6, <2>1
  <2> QED
    BY <1>3, <1>4, <2>1, <2>2
<1>7. ASSUME NEW i \in 1..Len(v), v[i] # 0 PROVE v[i] \in a..e /\ v[i] \in visible
  BY <1>6, <1>7 DEF PutFits
<1>8. ASSUME NEW i \in 1..Len(v), NEW j \in 1..Len(v), i < j, v[i] # 0, v[j] # 0 PROVE v[i] < v[j]
  <2>1. /\ i - width \in 1..Len(w) /\ v[i] = w[i - width]
        /\ j - width \in 1..Len(w) /\ v[j] = w[j - width]
    BY <1>6, <1>8
  <2>2. i - width < j - width
    BY <1>3, <1>4, <1>8
  <2> QED
    BY <1>8, <2>1, <2>2 DEF PutFits
<1>9. PutFits(v, a, e, visible)
  BY <1>4, <1>7, <1>8 DEF PutFits
<1> QED
  BY <1>9 DEF v, t

(* Whatever the configuration does with a find, it shows what may be seen. *)
LEMMA AppliedFits ==
  ASSUME operators \in [Patterns -> Operators], NEW found, NEW m \in Range(found), m \in Find
  PROVE  PutFits(ApplyOperator(m), m.span[1], m.span[2], Visible(found))
<1> DEFINE a == m.span[1]
           e == m.span[2]
           operator == operators[m.by]
<1>1. m.by \in Patterns /\ m.span \in Spans
  BY DEF Find
<1>2. /\ a \in 1..Length /\ e \in 1..Length /\ a <= e /\ m.span = <<a, e>> /\ a \in Nat /\ e \in Nat
      /\ Length \in Nat /\ Shown \in Nat /\ Width[m.by] \in Nat
  BY <1>1, SpanIs, ScrubberAssumption
<1>3. operator \in {"keep", "mask"} => a..e \subseteq Visible(found)
  <2> SUFFICES ASSUME operator \in {"keep", "mask"}, NEW i \in a..e PROVE i \in Visible(found)
    OBVIOUS
  <2>1. i \in Positions /\ Meet(<<i, i>>, m.span)
    BY <1>2 DEF Positions, Meet
  <2> QED
    BY <2>1 DEF Visible
<1>4. operator \in Operators
  BY <1>1
<1>5. CASE operator = "redact"
  <2>1. ApplyOperator(m) = <<>>
    BY <1>5 DEF ApplyOperator
  <2>2. <<>> \in Seq(Nat) /\ Len(<<>>) = 0
    OBVIOUS
  <2> QED
    BY <2>1, <2>2 DEF PutFits
<1>6. CASE operator = "keep"
  <2>1. ApplyOperator(m) = Original(<<a, e>>)
    BY <1>2, <1>6 DEF ApplyOperator
  <2>2. a..e \subseteq Visible(found) /\ a <= e + 1 /\ a <= a
    BY <1>2, <1>3, <1>6
  <2> HIDE DEF a, e
  <2>3. PutFits(Original(<<a, e>>), a, e, Visible(found))
    BY <1>2, <2>2, OriginalFits
  <2> QED
    BY <2>1, <2>3 DEF a, e
<1>7. CASE operator = "mask"
  <2> DEFINE size == e - a + 1
             s == e - Shown + 1
  <2>1. ApplyOperator(m) = IF size <= Shown THEN Filler(size)
                           ELSE Filler(size - Shown) \o Original(<<s, e>>)
    BY <1>7 DEF ApplyOperator
  <2>2. a..e \subseteq Visible(found)
    BY <1>3, <1>7
  <2> HIDE DEF a, e
  <2>3. size \in Nat
    BY <1>2
  <2>4. CASE size <= Shown
    <3>1. ApplyOperator(m) = Filler(size)
      BY <2>1, <2>4
    <3> QED
      BY <2>3, <3>1, FillerFits DEF a, e
  <2>5. CASE ~(size <= Shown)
    <3>1. size - Shown \in Nat /\ s \in Nat /\ a <= s /\ s <= e + 1
      BY <1>2, <2>3, <2>5
    <3>2. ApplyOperator(m) = Filler(size - Shown) \o Original(<<s, e>>)
      BY <2>1, <2>5
    <3> HIDE DEF s, size
    <3>3. PutFits(Original(<<s, e>>), a, e, Visible(found))
      BY <1>2, <2>2, <3>1, OriginalFits
    <3>4. PutFits(Filler(size - Shown) \o Original(<<s, e>>), a, e, Visible(found))
      BY <3>1, <3>3, MaskFits
    <3> QED
      BY <3>2, <3>4 DEF a, e
  <2> QED
    BY <2>4, <2>5
<1>8. CASE operator \notin {"redact", "keep", "mask"}
  <2>1. ApplyOperator(m) = Filler(Width[m.by])
    BY <1>8 DEF ApplyOperator
  <2> QED
    BY <1>2, <2>1, FillerFits
<1> QED
  BY <1>5, <1>6, <1>7, <1>8

(* A text is scrubbed exactly that the configuration anonymizes. *)
LEMMA AnonymizedIs ==
  ASSUME operators \in [Patterns -> Operators], NEW found \in Disjoint
  PROVE  Exact(Anonymize(found), found, Visible(found))
<1> DEFINE put == [m \in Range(found) |-> ApplyOperator(m)]
<1>1. found \in Seq(Find)
  BY DEF Disjoint
<1>2. ASSUME NEW m \in Range(found) PROVE m \in Find
  BY <1>1, SeqIs DEF Range
<1>3. ASSUME NEW m \in Range(found) PROVE PutFits(put[m], m.span[1], m.span[2], Visible(found))
  BY <1>2, AppliedFits
<1>4. Anonymize(found) = Replacing(found, put)
  BY DEF Anonymize
<1> HIDE DEF put
<1> QED
  BY <1>3, <1>4, ReplacingIs

LEMMA SanitizedIs ==
  ASSUME finds \in Finds, Apart({m.span : m \in Range(Scan)})
  PROVE  Exact(Replacing(Scan, [m \in Range(Scan) |-> Filler(Width[m.by])]), Scan, {})
<1> DEFINE put == [m \in Range(Scan) |-> Filler(Width[m.by])]
<1>1. Scan \in Disjoint
  BY ScanIs, ScanIsDisjoint
<1>2. Scan \in Seq(Find)
  BY <1>1 DEF Disjoint
<1>3. ASSUME NEW m \in Range(Scan) PROVE m \in Find
  BY <1>2, SeqIs DEF Range
<1>4. ASSUME NEW m \in Range(Scan) PROVE PutFits(put[m], m.span[1], m.span[2], {})
  <2>1. m.by \in Patterns
    BY <1>3 DEF Find
  <2>2. Width[m.by] \in Nat
    BY <2>1, ScrubberAssumption
  <2> QED
    BY <2>2, FillerFits
<1> HIDE DEF put
<1>5. Exact(Replacing(Scan, put), Scan, {})
  BY <1>1, <1>4, ReplacingIs
<1> QED
  BY <1>5 DEF put

\* The patterns find spans that do not overlap, each pattern for itself.
ScrubberInvariant ==
  /\ finds \in Finds /\ operators \in [Patterns -> Operators]
  /\ result = [c \in Calls |-> result[c]]
  /\ ScrubbedExactly

LEMMA ScrubberStart == ASSUME ScrubberInit PROVE ScrubberInvariant
<1>1. finds \in Finds
  BY DEF ScrubberInit, Finds
<1>2. operators \in [Patterns -> Operators]
  BY DEF ScrubberInit, Operators
<1>3. result = [c \in Calls |-> Pending] /\ clean = Pending
  BY DEF ScrubberInit
<1> QED
  BY <1>1, <1>2, <1>3 DEF ScrubberInvariant, ScrubbedExactly

\* The conditions on a call, and on the scrubber of patterns.
CallExact(r) == r # Pending => Exact(r.text, r.findings, Visible(r.findings))
CleanExact(r) == r # Pending /\ Apart({m.span : m \in Range(r.findings)}) =>
                   Exact(r.text, r.findings, {})

LEMMA ExactlyIs == ScrubbedExactly <=> (\A c \in Calls : CallExact(result[c])) /\ CleanExact(clean)
  BY DEF ScrubbedExactly, CallExact, CleanExact

(* What has been computed of the same finds stays exact. *)
LEMMA SameScrubbed ==
  ASSUME ScrubberInvariant, finds' = finds, operators' = operators,
         result' = [c \in Calls |-> result'[c]],
         \A c \in Calls : CallExact(result'[c]), CleanExact(clean')
  PROVE  ScrubberInvariant'
<1>1. ScrubbedExactly'
  BY DEF ScrubbedExactly, CallExact, CleanExact, Visible, Exact, Outside
<1> QED
  BY <1>1 DEF ScrubberInvariant

LEMMA ScrubberStep ==
  ASSUME ScrubberInvariant, [ScrubberNext]_scrubberVars
  PROVE  ScrubberInvariant'
<1>0. /\ finds \in Finds /\ operators \in [Patterns -> Operators]
      /\ result = [c \in Calls |-> result[c]]
      /\ (\A c \in Calls : CallExact(result[c])) /\ CleanExact(clean)
  BY ExactlyIs DEF ScrubberInvariant
<1>1. CASE Sanitize
  <2> DEFINE r == [text |-> Replacing(Scan, [m \in Range(Scan) |-> Filler(Width[m.by])]),
                   findings |-> Scan]
  <2>1. clean' = r /\ UNCHANGED <<finds, operators, result>>
    BY <1>1 DEF Sanitize
  <2>2. CleanExact(r)
    BY <1>0, SanitizedIs DEF CleanExact
  <2> HIDE DEF r
  <2> QED
    BY <1>0, <2>1, <2>2, SameScrubbed
<1>2. ASSUME NEW c \in Calls, NEW analyzed \in BOOLEAN, NEW raises \in BOOLEAN,
             EndScrub(c, analyzed, raises)
      PROVE  ScrubberInvariant'
  <2> DEFINE by == (IF analyzed THEN Patterns \ {Max(Patterns)} ELSE {})
                     \cup (IF custom THEN {Max(Patterns)} ELSE {})
             found == FilterAndDedupe(Matches(by))
             r == IF raises THEN [text |-> Text, findings |-> <<>>, passed |-> FALSE]
                  ELSE [text |-> Anonymize(found), findings |-> found,
                        passed |-> CheckCompliance(found)]
  <2>1. /\ result' = [result EXCEPT ![c] = r]
        /\ UNCHANGED <<finds, operators, clean>>
    BY <1>2 DEF EndScrub
  <2>2. by \in SUBSET Patterns
    BY PatternsAre
  <2> HIDE DEF by
  <2>3. found \in Disjoint
    BY <1>0, <2>2, FilteredIs
  <2> HIDE DEF found
  <2>4. Exact(Anonymize(found), found, Visible(found))
    BY <1>0, <2>3, AnonymizedIs
  <2>5. Exact(Text, <<>>, Visible(<<>>))
    <3>1. GoneOf(<<>>, {})
      BY DEF GoneOf
    <3> QED
      BY <3>1, TextIs, ScrubbedIsExact
  <2>6. CallExact(r)
    BY <2>4, <2>5 DEF CallExact
  <2> HIDE DEF r
  <2>7. result' = [o \in Calls |-> IF o = c THEN r ELSE result[o]]
    BY <1>0, <2>1
  <2>8. \A o \in Calls : CallExact(result'[o])
    BY <1>0, <2>6, <2>7
  <2>9. result' = [o \in Calls |-> result'[o]]
    BY <2>7
  <2> QED
    BY <1>0, <2>1, <2>8, <2>9, SameScrubbed
<1>3. CASE UNCHANGED <<finds, operators, result, clean>>
  BY <1>0, <1>3, SameScrubbed
<1>4. CASE AddCustomRecognizer \/ EndBatch \/ UNCHANGED scrubberVars
  <2>1. UNCHANGED <<finds, operators, result, clean>>
    BY <1>4 DEF AddCustomRecognizer, EndBatch, scrubberVars
  <2> QED
    BY <1>3, <2>1
<1>5. ASSUME NEW c \in Calls, StartScrub(c) PROVE ScrubberInvariant'
  <2>1. UNCHANGED <<finds, operators, result, clean>>
    BY <1>5 DEF StartScrub
  <2> QED
    BY <1>3, <2>1
<1> QED
  BY <1>1, <1>2, <1>4, <1>5 DEF ScrubberNext, PresidioNext

(* A scrubbed text has lost exactly what was found in it, for a text of any length and any
   patterns, confidences and replacements, as many calls as there may be at once, and
   whatever the patterns find (sanitizer.py, scrub; presidio_scrubber.py, _anonymize). *)
THEOREM ScrubbingIsExact == ScrubberSpec => []ScrubbedExactly
<1>1. ScrubberInvariant => ScrubbedExactly
  BY DEF ScrubberInvariant
<1>2. ScrubberInvariant /\ [ScrubberNext]_scrubberVars => ScrubberInvariant'
  BY ScrubberStep
<1> QED
  BY <1>1, <1>2, ScrubberStart, PTL DEF ScrubberSpec
-----------------------------------------------------------------------------
(* The shapes of the wallet model.  A holder has what it was made with: its own KEM key or
   none, an address that is that of its keys or none, and zeros once it is closed. *)
HolderTyped(k, h) ==
  /\ k.kem \in {h, NoHolder} /\ k.address \in {NoHolder, AddressFrom(k.classical, k.public)}
  /\ k.closed => k.address # NoHolder /\ k.secret = Zeros

WalletTyped == \A h \in Holders : Exists(h) => HolderTyped(holder[h], h)

LEMMA WalletTypeIs == ASSUME KeysInvariant, WalletTyped PROVE WalletTypeOK
<1>1. \A h \in Holders : Exists(h) => holder[h] \in HolderRecord
  BY DEF KeysInvariant
<1>2. ASSUME NEW k, NEW o, FromOrigin(k, o) PROVE k.classical \in ClassicalKeys /\ k.secret \in SecretKeys
  <2>1. o \in Holders /\ holder[o] \in HolderRecord
    BY <1>2, <1>1 DEF FromOrigin, Founder
  <2>2. holder[o].classical \in ClassicalKeys
    BY <2>1 DEF HolderRecord
  <2>3. QED
    BY <1>2, <2>1, <2>2 DEF FromOrigin, SecretKeys
<1>3. \A e \in exports : e.classical \in ClassicalKeys /\ e.secret \in SecretKeys
  BY <1>2 DEF KeysInvariant
<1>4. \A s \in signatures : s.by \in Holders /\ s.secret \in SecretKeys
  BY <1>2 DEF KeysInvariant
<1>5. \A h \in Holders : Exists(h) =>
        /\ holder[h].kem \in {h, NoHolder}
        /\ holder[h].address \in {NoHolder, AddressFrom(holder[h].classical, holder[h].public)}
        /\ holder[h].closed => IsWallet(h) /\ holder[h].secret = Zeros
  BY DEF WalletTyped, HolderTyped, IsWallet
<1>6. QED
  BY <1>1, <1>3, <1>4, <1>5 DEF WalletTypeOK

LEMMA WalletTypeStarts == ASSUME WalletInit PROVE WalletTyped
BY DEF WalletInit, WalletTyped, Exists

LEMMA HolderTypeComes ==
  ASSUME KeysInvariant, WalletTyped, NEW h \in Holders, NEW r, HolderTyped(r, h),
         holder' = [holder EXCEPT ![h] = r]
  PROVE  WalletTyped'
<1>1. \A g \in Holders : holder'[g] = IF g = h THEN r ELSE holder[g]
  BY DEF KeysInvariant
<1>2. ASSUME NEW g \in Holders, Exists(g)' PROVE HolderTyped(holder'[g], g)
  <2>1. CASE g = h
    BY <1>1, <2>1
  <2>2. CASE g # h
    BY <1>1, <1>2, <2>2 DEF WalletTyped, Exists
  <2>3. QED
    BY <2>1, <2>2
<1>3. QED
  BY <1>2 DEF WalletTyped, HolderTyped

LEMMA NewWalletTyped ==
  ASSUME KeysInvariant, WalletTyped, NEW h \in Holders, NEW c, NEW d, NewWallet(h, c, d)
  PROVE  WalletTyped'
<1> DEFINE r == [classical |-> c, secret |-> d.secret, public |-> d.public, kem |-> h,
                 address |-> AddressFrom(c, d.public), closed |-> FALSE]
<1>1. holder' = [holder EXCEPT ![h] = r]
  BY DEF NewWallet, KyberKeyPair
<1>2. HolderTyped(r, h)
  BY DEF HolderTyped
<1> HIDE DEF r
<1>3. QED
  BY <1>1, <1>2, HolderTypeComes

LEMMA WalletTypeSteps ==
  ASSUME KeysInvariant, WalletTyped, [WalletNext]_walletVars
  PROVE  WalletTyped'
<1>1. ASSUME holder' = holder PROVE WalletTyped'
  BY <1>1 DEF WalletTyped, Exists, HolderTyped
<1>2. ASSUME NEW h \in Holders, CreateWallet(h) \/ FromMnemonic(h) \/ (\E e \in exports : FromExport(h, e))
      PROVE  WalletTyped'
  <2>1. \E c, d : NewWallet(h, c, d)
    BY <1>2 DEF CreateWallet, FromMnemonic, FromExport
  <2>2. QED
    BY <2>1, NewWalletTyped
<1>3. ASSUME NEW h \in Holders, NEW from \in Holders, NewSigner(h, from) PROVE WalletTyped'
  <2> DEFINE keys == IF from = h THEN [classical |-> h, secret |-> h, public |-> h] ELSE holder[from]
             r == [classical |-> keys.classical, secret |-> keys.secret, public |-> keys.public,
                   kem |-> NoHolder, address |-> NoHolder, closed |-> FALSE]
  <2>1. holder' = [holder EXCEPT ![h] = r]
    BY <1>3 DEF NewSigner
  <2>2. HolderTyped(r, h)
    BY DEF HolderTyped
  <2> HIDE DEF r
  <2>3. QED
    BY <2>1, <2>2, HolderTypeComes
<1>4. ASSUME NEW h \in Holders, Close(h) PROVE WalletTyped'
  <2> DEFINE k == [holder[h] EXCEPT !.secret = Zeros, !.closed = TRUE]
  <2>1. Exists(h) /\ holder[h].address # NoHolder
    BY <1>4 DEF Close, IsWallet
  <2>2. holder[h] \in HolderRecord /\ HolderTyped(holder[h], h)
    BY <2>1 DEF KeysInvariant, WalletTyped
  <2>3. holder' = [holder EXCEPT ![h] = k]
    BY <1>4 DEF Close, KeysInvariant
  <2>4. /\ k.classical = holder[h].classical /\ k.secret = Zeros
        /\ k.public = holder[h].public /\ k.kem = holder[h].kem /\ k.address = holder[h].address
    BY <2>2 DEF HolderRecord
  <2> HIDE DEF k
  <2>5. HolderTyped(k, h)
    BY <2>1, <2>2, <2>4 DEF HolderTyped
  <2>6. QED
    BY <2>3, <2>5, HolderTypeComes
<1>5. ASSUME NEW h \in Holders, SignTransaction(h) \/ Encapsulate(h) \/ ExportKeys(h) PROVE holder' = holder
  BY <1>5 DEF SignTransaction, Encapsulate, ExportKeys
<1>6. QED
  BY <1>1, <1>2, <1>3, <1>4, <1>5 DEF WalletNext, walletVars
-----------------------------------------------------------------------------
(* The shapes of the provenance model; who checks data checks one credential. *)
CredentialTyped(r, day) == r.issuer \in Issuers \cup {Stranger} /\ r.at \in 0..day

ProvenanceTyped ==
  /\ today \in 0..LastDay /\ didkit \in BOOLEAN /\ registry \in [Oracles -> Issuers \cup {Unknown}]
  /\ verifier # Unknown => verifier.trusted \subseteq Issuers
  /\ \A c \in Credentials : /\ c \in Exist => CredentialTyped(credential[c], today)
                            /\ verdict[c] # Unknown => c \in Exist
  /\ \A t \in Checkers : check[t].by = "data" => Len(check[t].creds) = 1

LEMMA ProvenanceTypeIs == ASSUME GroundsInvariant, ProvenanceTyped PROVE ProvenanceTypeOK
<1>1. \A t \in Checkers : check[t].at \in {"told", "executor", "verifies"}
  BY DEF GroundsInvariant, CheckRecord
<1>2. \A c \in Credentials : verdict[c] \in BOOLEAN \cup {Unknown}
  BY DEF GroundsInvariant
<1>3. QED
  BY <1>1, <1>2 DEF ProvenanceTyped, CredentialTyped, ProvenanceTypeOK

LEMMA ProvenanceTypeStarts == ASSUME ProvenanceInit PROVE ProvenanceTyped
<1>1. today \in 0..LastDay
  BY ProvenanceAssumption DEF ProvenanceInit
<1>2. \A t \in Checkers : check[t].by # "data"
  BY DEF ProvenanceInit, NoCheck
<1>3. QED
  BY <1>1, <1>2 DEF ProvenanceInit, ProvenanceTyped, Exist

(* What one coroutine does: a verdict is of a credential that exists. *)
LEMMA OneCheckTyped ==
  ASSUME GroundsInvariant, ProvenanceTyped, NEW t \in Checkers, NEW k,
         k.by = "data" => Len(k.creds) = 1, check' = [check EXCEPT ![t] = k],
         \A c \in Credentials : verdict'[c] = verdict[c] \/ c \in Exist,
         UNCHANGED <<today, didkit, registry, verifier, credential>>
  PROVE  ProvenanceTyped'
<1>1. \A u \in Checkers : check'[u] = IF u = t THEN k ELSE check[u]
  BY DEF GroundsInvariant
<1>2. \A u \in Checkers : check'[u].by = "data" => Len(check'[u].creds) = 1
  BY <1>1 DEF ProvenanceTyped
<1>3. Exist' = Exist
  BY DEF Exist
<1>4. \A c \in Credentials : /\ c \in Exist' => CredentialTyped(credential'[c], today')
                             /\ verdict'[c] # Unknown => c \in Exist'
  BY <1>3 DEF ProvenanceTyped
<1>5. QED
  BY <1>2, <1>4 DEF ProvenanceTyped, CredentialTyped

LEMMA DataTyped ==
  ASSUME GroundsInvariant, ProvenanceTyped, NEW t \in Checkers, NEW c \in Exist,
         VerifyCached(t, c) \/ VerifyData(t, c)
  PROVE  ProvenanceTyped'
<1>1. Len(<<c>>) = 1
  OBVIOUS
<1>2. /\ \A d \in Credentials : verdict'[d] = verdict[d] \/ d \in Exist
      /\ UNCHANGED <<today, didkit, registry, verifier, credential>>
  BY DEF VerifyCached, VerifyData, GroundsInvariant
<1>3. PICK at, errors, cached :
        check' = [check EXCEPT ![t] = [by |-> "data", at |-> at, creds |-> <<c>>, next |-> 1, since |-> today,
                                       errors |-> errors, cached |-> cached]]
  BY DEF VerifyCached, VerifyData, Begins
<1> DEFINE k == [by |-> "data", at |-> at, creds |-> <<c>>, next |-> 1, since |-> today,
                 errors |-> errors, cached |-> cached]
<1>4. k.by = "data" /\ k.creds = <<c>> /\ check' = [check EXCEPT ![t] = k]
  BY <1>3
<1> HIDE DEF k
<1>5. QED
  BY <1>1, <1>2, <1>4, OneCheckTyped

LEMMA CallTyped ==
  ASSUME GroundsInvariant, ProvenanceTyped, NEW t \in Checkers,
         NEW by \in {"credential", "presentation"}, NEW creds, CallVerifier(t, by, creds)
  PROVE  ProvenanceTyped'
<1>1. PICK mismatch : Begins(t, by, creds, "verifies", mismatch)
  BY DEF CallVerifier
<1> DEFINE k == [by |-> by, at |-> "verifies", creds |-> creds, next |-> 1, since |-> today,
                 errors |-> mismatch, cached |-> FALSE]
<1>2. check' = [check EXCEPT ![t] = k] /\ k.by # "data"
  BY <1>1 DEF Begins
<1>3. UNCHANGED <<today, didkit, registry, verifier, credential, verdict>>
  BY DEF CallVerifier
<1> HIDE DEF k
<1>4. QED
  BY <1>2, <1>3, OneCheckTyped

(* A check that goes on keeps who checks what. *)
LEMMA CheckTyped ==
  ASSUME GroundsInvariant, ProvenanceTyped, NEW t \in Checkers, NEW k,
         k.by = check[t].by, k.creds = check[t].creds, check' = [check EXCEPT ![t] = k],
         \A c \in Credentials : verdict'[c] = verdict[c] \/ c \in Exist,
         UNCHANGED <<today, didkit, registry, verifier, credential>>
  PROVE  ProvenanceTyped'
<1>1. k.by = "data" => Len(k.creds) = 1
  BY DEF ProvenanceTyped
<1>2. QED
  BY <1>1, OneCheckTyped

LEMMA EndsTyped ==
  ASSUME GroundsInvariant, ProvenanceTyped, NEW t \in Checkers,
         DataVerified(t) \/ VerifierObjects(t) \/ VerifierContinues(t) \/ VerifierEnds(t)
  PROVE  ProvenanceTyped'
<1> DEFINE k == check[t]
<1>1. k \in CheckRecord /\ CheckHolds(k) /\ check = [u \in Checkers |-> check[u]]
  BY DEF GroundsInvariant
<1>2. CASE DataVerified(t)
  <2>1. PICK found \in BOOLEAN :
          /\ check' = [check EXCEPT ![t].at = "told", ![t].errors = @ \/ found]
          /\ verdict' = [verdict EXCEPT ![Head(check[t].creds)] = ~(check[t].errors \/ found)]
    BY <1>2 DEF DataVerified
  <2> DEFINE e == [k EXCEPT !.at = "told", !.errors = @ \/ found]
  <2>2. check' = [check EXCEPT ![t] = e] /\ e.by = k.by /\ e.creds = k.creds
    BY <1>1, <2>1 DEF CheckRecord
  <2>3. Len(k.creds) = 1 /\ k.creds \in Seq(Credentials)
    BY <1>1, <1>2 DEF DataVerified, ProvenanceTyped, CheckRecord
  <2>4. k.creds[1] \in Exist
    BY <1>1, <2>3 DEF CheckHolds
  <2>5. Head(k.creds) = k.creds[1]
    BY <2>3
  <2>6. \A c \in Credentials : verdict'[c] = verdict[c] \/ c \in Exist
    BY <2>1, <2>4, <2>5 DEF GroundsInvariant
  <2>7. UNCHANGED <<today, didkit, registry, verifier, credential>>
    BY <1>2 DEF DataVerified
  <2> HIDE DEF e
  <2>8. QED
    BY <2>2, <2>6, <2>7, CheckTyped
<1>3. CASE VerifierObjects(t) \/ VerifierContinues(t) \/ VerifierEnds(t)
  <2>1. PICK e : e.by = k.by /\ e.creds = k.creds /\ check' = [check EXCEPT ![t] = e]
    <3>1. CASE VerifierObjects(t)
      <4> DEFINE e == [k EXCEPT !.errors = k.errors \/ Objections(k.creds[k.next], today),
                         !.at = IF didkit THEN "executor" ELSE k.at,
                         !.next = IF didkit THEN k.next ELSE k.next + 1]
      <4>1. check' = [check EXCEPT ![t] = e] /\ e.by = k.by /\ e.creds = k.creds
        BY <3>1, <1>1 DEF VerifierObjects, CheckRecord
      <4> HIDE DEF e
      <4>2. QED
        BY <4>1
    <3>2. CASE VerifierContinues(t)
      <4>1. PICK found \in BOOLEAN :
               check' = [check EXCEPT ![t].errors = @ \/ found, ![t].next = @ + 1,
                 ![t].at = IF check[t].next > Len(check[t].creds) THEN "told" ELSE "verifies"]
        BY <3>2 DEF VerifierContinues
      <4> DEFINE e == [k EXCEPT !.errors = k.errors \/ found, !.next = k.next + 1,
                         !.at = IF k.next > Len(k.creds) THEN "told" ELSE "verifies"]
      <4>2. check' = [check EXCEPT ![t] = e] /\ e.by = k.by /\ e.creds = k.creds
        BY <4>1, <1>1 DEF CheckRecord
      <4> HIDE DEF e
      <4>3. QED
        BY <4>2
    <3>3. CASE VerifierEnds(t)
      <4> DEFINE e == [k EXCEPT !.at = IF didkit /\ k.by = "presentation" THEN "executor" ELSE "told"]
      <4>1. check' = [check EXCEPT ![t] = e] /\ e.by = k.by /\ e.creds = k.creds
        BY <3>3, <1>1 DEF VerifierEnds, CheckRecord
      <4> HIDE DEF e
      <4>2. QED
        BY <4>1
    <3>4. QED
      BY <1>3, <3>1, <3>2, <3>3
  <2>2. UNCHANGED <<today, didkit, registry, verifier, credential, verdict>>
    BY <1>3 DEF VerifierObjects, VerifierContinues, VerifierEnds
  <2>3. QED
    BY <2>1, <2>2, CheckTyped
<1>4. QED
  BY <1>2, <1>3

LEMMA ProvenanceTypeSteps ==
  ASSUME GroundsInvariant, ProvenanceTyped, [ProvenanceNext]_provenanceVars
  PROVE  ProvenanceTyped'
<1>1. CASE UNCHANGED provenanceVars
  BY <1>1 DEF provenanceVars, ProvenanceTyped, CredentialTyped, Exist
<1>2. CASE NextDay
  <2>1. /\ today' = today + 1 /\ today < LastDay
        /\ UNCHANGED <<didkit, registry, verifier, credential, verdict, check>>
    BY <1>2 DEF NextDay
  <2>2. today \in 0..LastDay /\ LastDay \in Nat
    BY ProvenanceAssumption DEF ProvenanceTyped
  <2>3. today' \in 0..LastDay /\ \A n \in 0..today : n \in 0..today'
    BY <2>1, <2>2
  <2>4. QED
    BY <2>1, <2>3 DEF ProvenanceTyped, CredentialTyped, Exist
<1>3. ASSUME NEW o \in Oracles, NEW i \in Issuers, RegisterOracle(o, i) PROVE ProvenanceTyped'
  <2>1. /\ registry' = [registry EXCEPT ![o] = i]
        /\ UNCHANGED <<today, didkit, verifier, credential, verdict, check>>
    BY <1>3 DEF RegisterOracle
  <2>2. registry' \in [Oracles -> Issuers \cup {Unknown}]
    BY <2>1 DEF ProvenanceTyped
  <2>3. QED
    BY <2>1, <2>2 DEF ProvenanceTyped, CredentialTyped, Exist
<1>4. ASSUME NEW oracles \in SUBSET Oracles, NEW allowed, NEW age, GetVerifier(oracles, allowed, age)
      PROVE  ProvenanceTyped'
  <2>1. /\ verifier' = [trusted |-> {registry[o] : o \in oracles} \ {Unknown},
                        allowExpired |-> allowed, maxAge |-> age]
        /\ UNCHANGED <<today, didkit, registry, credential, verdict, check>>
    BY <1>4 DEF GetVerifier
  <2>2. verifier'.trusted \subseteq Issuers
    BY <2>1 DEF ProvenanceTyped
  <2>3. QED
    BY <2>1, <2>2 DEF ProvenanceTyped, CredentialTyped, Exist
<1>5. ASSUME NEW c \in Credentials, NEW i \in Issuers \cup {Stranger}, NEW n, IssueCredential(c, i, n)
      PROVE  ProvenanceTyped'
  <2>1. /\ credential[c] = Unknown
        /\ UNCHANGED <<today, didkit, registry, verifier, verdict, check>>
    BY <1>5 DEF IssueCredential
  <2>2. today \in Nat
    BY DEF GroundsInvariant
  <2>3. PICK r : credential' = [credential EXCEPT ![c] = r] /\ CredentialTyped(r, today)
    <3>1. PICK at \in IF didkit THEN 0..today ELSE {today} :
            credential' = [credential EXCEPT ![c] =
              [issuer |-> i, at |-> at, until |-> IF n = 0 THEN 0 ELSE at + n]]
      BY <1>5 DEF IssueCredential
    <3> DEFINE r == [issuer |-> i, at |-> at, until |-> IF n = 0 THEN 0 ELSE at + n]
    <3>2. at \in 0..today
      BY <2>2
    <3>3. r.issuer = i /\ r.at = at
      OBVIOUS
    <3>4. CredentialTyped(r, today) /\ credential' = [credential EXCEPT ![c] = r]
      BY <3>1, <3>2, <3>3 DEF CredentialTyped
    <3> HIDE DEF r
    <3>5. QED
      BY <3>4
  <2>4. \A d \in Credentials : credential'[d] = IF d = c THEN r ELSE credential[d]
    BY <2>3 DEF GroundsInvariant
  <2>5. c \notin Exist /\ verdict[c] = Unknown
    BY <2>1 DEF Exist, ProvenanceTyped
  <2>6. ASSUME NEW d \in Credentials
        PROVE  /\ d \in Exist' => CredentialTyped(credential'[d], today')
               /\ verdict'[d] # Unknown => d \in Exist'
    BY <2>1, <2>3, <2>4, <2>5 DEF ProvenanceTyped, Exist, CredentialTyped
  <2>7. QED
    BY <2>1, <2>6 DEF ProvenanceTyped, CredentialTyped
<1>6. ASSUME NEW t \in Checkers, CheckStep(t) PROVE ProvenanceTyped'
  BY <1>6, DataTyped, CallTyped, EndsTyped DEF CheckStep
<1>7. QED
  BY <1>1, <1>2, <1>3, <1>4, <1>5, <1>6 DEF ProvenanceNext
-----------------------------------------------------------------------------
(* The shapes of the other models. *)
LEMMA ProofTypeIs == ASSUME VerdictInvariant PROVE CircuitsTypeOK /\ ProofTypeOK
<1>1. CircuitsTypeOK
  BY DEF VerdictInvariant, CircuitFits, CircuitsTypeOK
<1>2. ASSUME NEW p \in proofs
      PROVE  p.type \in {"zkml", "tee", "hybrid"} /\ p.tee \in attestations \cup {Absent}
  <2>1. ProofFits(p)
    BY DEF VerdictInvariant
  <2> QED
    BY <2>1 DEF ProofFits
<1> QED
  BY <1>1, <1>2 DEF VerdictInvariant, ProofTypeOK

LEMMA IntegrationTypeIs == ASSUME WebFits(web), CallsFit PROVE IntegrationTypeOK
<1>1. web \in Exchange /\ RequestFits(web) /\ ResponseFits(web)
  BY DEF WebFits
<1>2. web.read \in Nat /\ web.captured \in Nat /\ web.start \in Starts /\ web.requestTruncated \in BOOLEAN
  BY <1>1 DEF Exchange
<1>3. web.read \in 0..MaxBody /\ web.captured \in 0..MaxCapture
  BY <1>1, <1>2, IntegrationAssumption DEF RequestFits
<1>4. web.requestTruncated <=> web.read > MaxCapture
  BY <1>1, <1>2, <1>3, IntegrationAssumption DEF RequestFits
<1>5. Len(web.sent) <= MaxBody /\ Len(web.buffered) <= MaxCapture
  BY <1>1 DEF ResponseFits
<1>6. \A t \in Tellers : call[t] # Unset => call[t] \in WrappedCall
  BY DEF CallsFit
<1> QED
  BY <1>2, <1>3, <1>4, <1>5, <1>6 DEF Starts, IntegrationTypeOK

LEMMA CallsStart == ASSUME IntegrationInit PROVE CallsFit
<1>1. call \in [Tellers -> WrappedCall \cup {Unset}] /\ \A t \in Tellers : call[t] = Unset
  BY DEF IntegrationInit
<1>2. lastVerified = Unset /\ sink \in {"none", "sync", "async"}
  BY DEF IntegrationInit
<1> QED
  BY <1>1, <1>2 DEF CallsFit

FrameworksTyped == frameworks \in [ComplianceFrameworks -> 0..MaxRepeats]

LEMMA ComplianceTypeIs == ASSUME ComplianceInvariant, FrameworksTyped PROVE ComplianceTypeOK
BY DEF ComplianceInvariant, FrameworksTyped, ComplianceTypeOK

LEMMA FrameworksStart == ASSUME ComplianceInit PROVE FrameworksTyped
BY DEF ComplianceInit, FrameworksTyped

LEMMA FrameworksStep == ASSUME FrameworksTyped, [ComplianceNext]_complianceVars PROVE FrameworksTyped'
<1>1. ASSUME NEW f \in ComplianceFrameworks, AddFramework(f) PROVE FrameworksTyped'
  <2>1. 1 \in 0..MaxRepeats
    BY ComplianceAssumption
  <2> QED
    BY <1>1, <2>1 DEF FrameworksTyped, AddFramework
<1>2. ASSUME NEW f \in ComplianceFrameworks, RemoveFramework(f) PROVE FrameworksTyped'
  <2>1. frameworks[f] \in 0..MaxRepeats /\ frameworks[f] > 0
    BY <1>2 DEF FrameworksTyped, RemoveFramework, Added
  <2>2. frameworks[f] - 1 \in 0..MaxRepeats
    BY <2>1, ComplianceAssumption
  <2> QED
    BY <1>2, <2>2 DEF FrameworksTyped, RemoveFramework
<1>3. ASSUME NEW data \in Samples, NEW sla \in SLAs \cup {NoSLA},
             NEW f \in ComplianceFrameworks \cup {NoFramework}, Check(data, sla, f)
      PROVE  FrameworksTyped'
  BY <1>3 DEF FrameworksTyped, Check
<1>4. CASE UNCHANGED complianceVars
  BY <1>4 DEF FrameworksTyped, complianceVars
<1> QED
  BY <1>1, <1>2, <1>3, <1>4 DEF ComplianceNext

(* A call of the scrubber that has a result has ended, and no more are analyzed than the
   semaphore lets in. *)
Analyzing(at) == {c \in Calls : at[c] = "analyzing"}
ScrubberTyped ==
  /\ stage = [c \in Calls |-> stage[c]] /\ batch \in BOOLEAN \cup {Pending}
  /\ \A c \in Calls : result[c] # Pending => stage[c] = "ended"
  /\ Cardinality(Analyzing(stage)) <= MaxConcurrent

LEMMA ScrubberTypeIs == ASSUME ScrubberTyped PROVE ScrubberTypeOK
BY DEF ScrubberTyped, ScrubberTypeOK, Analyzing

LEMMA ScrubberTypeStarts == ASSUME ScrubberInit PROVE ScrubberTyped
<1>1. /\ stage = [c \in Calls |-> "queued"] /\ result = [c \in Calls |-> Pending] /\ batch = Pending
  BY DEF ScrubberInit
<1>2. Analyzing(stage) = {}
  BY <1>1 DEF Analyzing
<1>3. Cardinality(Analyzing(stage)) = 0
  BY <1>2, FS_EmptySet
<1>4. Cardinality(Analyzing(stage)) <= MaxConcurrent
  BY <1>3, ScrubberAssumption
<1> QED
  BY <1>1, <1>4 DEF ScrubberTyped

LEMMA ScrubberTypeSteps ==
  ASSUME ScrubberInvariant, ScrubberTyped, [ScrubberNext]_scrubberVars
  PROVE  ScrubberTyped'
<1>1. /\ IsFiniteSet(Analyzing(stage)) /\ Cardinality(Analyzing(stage)) \in Nat /\ MaxConcurrent \in Nat
  <2>1. IsFiniteSet(Calls) /\ Analyzing(stage) \in SUBSET Calls
    BY ScrubberAssumption DEF Analyzing
  <2>2. IsFiniteSet(Analyzing(stage))
    BY <2>1, FS_Subset
  <2> QED
    BY <2>2, FS_CardinalityType, ScrubberAssumption
<1>2. ASSUME UNCHANGED <<stage, result, batch>> PROVE ScrubberTyped'
  BY <1>2 DEF ScrubberTyped, Analyzing
<1>3. CASE Sanitize \/ AddCustomRecognizer \/ UNCHANGED scrubberVars
  <2>1. UNCHANGED <<stage, result, batch>>
    BY <1>3 DEF Sanitize, AddCustomRecognizer, scrubberVars
  <2> QED
    BY <1>2, <2>1
<1>4. CASE EndBatch
  <2>1. batch' \in BOOLEAN /\ stage' = stage /\ result' = result
    BY <1>4 DEF EndBatch
  <2> QED
    BY <2>1 DEF ScrubberTyped, Analyzing
<1>5. ASSUME NEW c \in Calls, StartScrub(c) PROVE ScrubberTyped'
  <2>1. /\ stage[c] = "queued" /\ Cardinality(Analyzing(stage)) < MaxConcurrent
        /\ stage' = [stage EXCEPT ![c] = "analyzing"] /\ result' = result /\ batch' = batch
    BY <1>5 DEF StartScrub, Analyzing
  <2>2. /\ \A d \in Calls : stage'[d] = IF d = c THEN "analyzing" ELSE stage[d]
        /\ stage' = [d \in Calls |-> stage'[d]]
    BY <2>1 DEF ScrubberTyped
  <2>3. Analyzing(stage') = Analyzing(stage) \cup {c} /\ c \notin Analyzing(stage)
    BY <2>1, <2>2 DEF Analyzing
  <2>4. Cardinality(Analyzing(stage')) = Cardinality(Analyzing(stage)) + 1
    BY <1>1, <2>3, FS_AddElement
  <2>5. Cardinality(Analyzing(stage')) <= MaxConcurrent
    BY <1>1, <2>1, <2>4
  <2>6. \A d \in Calls : result'[d] # Pending => stage'[d] = "ended"
    BY <2>1, <2>2 DEF ScrubberTyped
  <2> QED
    BY <2>1, <2>2, <2>5, <2>6 DEF ScrubberTyped, Analyzing
<1>6. ASSUME NEW c \in Calls, NEW analyzed \in BOOLEAN, NEW raises \in BOOLEAN,
             EndScrub(c, analyzed, raises)
      PROVE  ScrubberTyped'
  <2>1. PICK r : /\ stage' = [stage EXCEPT ![c] = "ended"] /\ result' = [result EXCEPT ![c] = r]
                 /\ batch' = batch
    BY <1>6 DEF EndScrub
  <2>2. /\ \A d \in Calls : stage'[d] = IF d = c THEN "ended" ELSE stage[d]
        /\ stage' = [d \in Calls |-> stage'[d]]
    BY <2>1 DEF ScrubberTyped
  <2>3. \A d \in Calls : result'[d] = IF d = c THEN r ELSE result[d]
    BY <2>1 DEF ScrubberInvariant
  <2>4. Analyzing(stage') \in SUBSET Analyzing(stage)
    BY <2>2 DEF Analyzing
  <2>5. Cardinality(Analyzing(stage')) \in Nat /\ Cardinality(Analyzing(stage')) <= Cardinality(Analyzing(stage))
    BY <1>1, <2>4, FS_Subset, FS_CardinalityType
  <2>6. Cardinality(Analyzing(stage')) <= MaxConcurrent
    BY <1>1, <2>5 DEF ScrubberTyped
  <2>7. \A d \in Calls : result'[d] # Pending => stage'[d] = "ended"
    BY <2>2, <2>3 DEF ScrubberTyped
  <2> QED
    BY <2>1, <2>2, <2>6, <2>7 DEF ScrubberTyped, Analyzing
<1> QED
  BY <1>3, <1>4, <1>5, <1>6 DEF ScrubberNext, PresidioNext
=============================================================================
