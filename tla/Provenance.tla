------------------------------ MODULE Provenance ------------------------------
(***************************************************************************)
(* Credentials of oracle data, and who is told that they are valid: the    *)
(* issuer, TrustedData with its remembered verdict, the verifier, and the  *)
(* registry (aethelred/oracles/provenance.py), used by several coroutines. *)
(*                                                                         *)
(* didkit is external: it signs and verifies in an executor, while other   *)
(* coroutines run and time goes on, and may find errors or raise.  Without *)
(* it nothing suspends, and a proof is only looked at for its fields,      *)
(* which those of the issuer have.                                         *)
(*                                                                         *)
(* Abstracted: the data and its hash, kinds of credentials and proofs,     *)
(* warnings, challenge and domain (one more error of the presentation).    *)
(***************************************************************************)
EXTENDS Integers, Sequences, SequencesExt

CONSTANTS
  Oracles, Issuers, Credentials,
  Checkers,     \* coroutines
  LastDay,      \* bound on time
  Lifetimes,    \* expiration_hours: on how many days it is valid; 0 is no limit
  MaxAges,      \* max_age_seconds, likewise
  Stranger,     \* an issuer that nobody registers
  Unknown

ASSUME ProvenanceAssumption == LastDay \in Nat

VARIABLES
  today,
  didkit,       \* DIDKIT_AVAILABLE
  registry,     \* the issuer of each registered oracle
  verifier,     \* a verifier from the registry: its trusted_issuers ({}: whoever),
                \* allow_expired and max_age_seconds
  credential,
  verdict,      \* _verified of each credential
  check         \* what each coroutine is about, and what it was told

provenanceVars == <<today, didkit, registry, verifier, credential, verdict, check>>

NoCheck == [by |-> "nobody", at |-> "told", creds |-> <<>>, next |-> 1, since |-> 0,
            errors |-> FALSE, cached |-> FALSE]

ProvenanceInit ==
  /\ today = 0 /\ didkit \in BOOLEAN
  /\ registry = [o \in Oracles |-> Unknown]
  /\ verifier = Unknown
  /\ credential = [c \in Credentials |-> Unknown]
  /\ verdict = [c \in Credentials |-> Unknown]
  /\ check = [t \in Checkers |-> NoCheck]

Exist == {c \in Credentials : credential[c] # Unknown}
Expired(c, day) == credential[c].until # 0 /\ day >= credential[c].until

NextDay ==
  /\ today < LastDay /\ today' = today + 1
  /\ UNCHANGED <<didkit, registry, verifier, credential, verdict, check>>

RegisterOracle(o, i) ==
  /\ registry' = [registry EXCEPT ![o] = i]
  /\ UNCHANGED <<today, didkit, verifier, credential, verdict, check>>

\* A verifier keeps the issuers of the moment; without any it trusts whoever.
GetVerifier(oracles, allowExpired, maxAge) ==
  /\ verifier = Unknown
  /\ verifier' = [trusted |-> {registry[o] : o \in oracles} \ {Unknown},
                  allowExpired |-> allowExpired, maxAge |-> maxAge]
  /\ UNCHANGED <<today, didkit, registry, credential, verdict, check>>

\* issue_credential(): the dates are those of the beginning, the signing may last.
IssueCredential(c, i, lifetime) ==
  /\ credential[c] = Unknown
  /\ \E at \in IF didkit THEN 0..today ELSE {today} :
       credential' = [credential EXCEPT ![c] =
         [issuer |-> i, at |-> at, until |-> IF lifetime = 0 THEN 0 ELSE at + lifetime]]
  /\ UNCHANGED <<today, didkit, registry, verifier, verdict, check>>
-----------------------------------------------------------------------------
Begins(t, by, creds, at, errors) ==
  check' = [check EXCEPT ![t] =
    [by |-> by, at |-> at, creds |-> creds, next |-> 1, since |-> today,
     errors |-> errors, cached |-> FALSE]]

\* TrustedData.verify() without options: a verdict is not questioned.
VerifyCached(t, c) ==
  /\ check[t].at = "told" /\ verdict[c] # Unknown
  /\ check' = [check EXCEPT ![t] =
       [by |-> "data", at |-> "told", creds |-> <<c>>, next |-> 1, since |-> today,
        errors |-> ~verdict[c], cached |-> TRUE]]
  /\ UNCHANGED <<today, didkit, registry, verifier, credential, verdict>>

\* Without a verdict, or with options.
VerifyData(t, c) ==
  /\ check[t].at = "told" /\ c \in Exist
  /\ IF didkit
     THEN Begins(t, "data", <<c>>, "executor", Expired(c, today)) /\ UNCHANGED verdict
     ELSE /\ Begins(t, "data", <<c>>, "told", Expired(c, today))
          /\ verdict' = [verdict EXCEPT ![c] = ~Expired(c, today)]
  /\ UNCHANGED <<today, didkit, registry, verifier, credential>>

DataVerified(t) ==
  /\ check[t].at = "executor" /\ check[t].by = "data"
  /\ \E found \in BOOLEAN :
       /\ check' = [check EXCEPT ![t].at = "told", ![t].errors = @ \/ found]
       /\ verdict' = [verdict EXCEPT ![Head(check[t].creds)] = ~(check[t].errors \/ found)]
  /\ UNCHANGED <<today, didkit, registry, verifier, credential>>
-----------------------------------------------------------------------------
\* The tests that a verifier makes itself.
Objections(c, day) ==
  \/ verifier.trusted # {} /\ credential[c].issuer \notin verifier.trusted
  \/ Expired(c, day) /\ ~verifier.allowExpired
  \/ verifier.maxAge # 0 /\ day - credential[c].at >= verifier.maxAge

\* verify_credential() and verify_presentation() begin.
CallVerifier(t, by, creds) ==
  /\ check[t].at = "told" /\ verifier # Unknown /\ ToSet(creds) \subseteq Exist
  /\ \E mismatch \in IF by = "presentation" THEN BOOLEAN ELSE {FALSE} :
       Begins(t, by, creds, "verifies", mismatch)
  /\ UNCHANGED <<today, didkit, registry, verifier, credential, verdict>>

\* Mutant: only the last credential counts.
VerifierForgets(t) ==
  LET k == check[t] IN
  /\ k.at = "verifies" /\ k.next <= Len(k.creds)
  /\ check' = [check EXCEPT
       ![t].errors = Objections(k.creds[k.next], today),
       ![t].at = IF didkit THEN "executor" ELSE @,
       ![t].next = IF didkit THEN @ ELSE @ + 1]
  /\ UNCHANGED <<today, didkit, registry, verifier, credential, verdict>>

\* One credential of the presentation, as far as didkit.
VerifierObjects(t) ==
  LET k == check[t] IN
  /\ k.at = "verifies" /\ k.next <= Len(k.creds)
  /\ check' = [check EXCEPT
       ![t].errors = @ \/ Objections(k.creds[k.next], today),
       ![t].at = IF didkit THEN "executor" ELSE @,
       ![t].next = IF didkit THEN @ ELSE @ + 1]
  /\ UNCHANGED <<today, didkit, registry, verifier, credential, verdict>>

\* didkit has verified a credential or, after the last one, the presentation.
VerifierContinues(t) ==
  /\ check[t].at = "executor" /\ check[t].by # "data"
  /\ \E found \in BOOLEAN :
       check' = [check EXCEPT ![t].errors = @ \/ found, ![t].next = @ + 1,
         ![t].at = IF check[t].next > Len(check[t].creds) THEN "told" ELSE "verifies"]
  /\ UNCHANGED <<today, didkit, registry, verifier, credential, verdict>>

VerifierEnds(t) ==
  /\ check[t].at = "verifies" /\ check[t].next > Len(check[t].creds)
  /\ check' = [check EXCEPT ![t].at =
       IF didkit /\ check[t].by = "presentation" THEN "executor" ELSE "told"]
  /\ UNCHANGED <<today, didkit, registry, verifier, credential, verdict>>

Presentations == UNION {[1..n -> Exist] : n \in 0..2}
CheckStep(t) ==
  \/ \E c \in Exist : \/ VerifyCached(t, c) \/ VerifyData(t, c)
                      \/ CallVerifier(t, "credential", <<c>>)
  \/ \E creds \in Presentations : CallVerifier(t, "presentation", creds)
  \/ DataVerified(t) \/ VerifierObjects(t) \/ VerifierContinues(t) \/ VerifierEnds(t)

ProvenanceNext ==
  \/ NextDay
  \/ \E o \in Oracles, i \in Issuers : RegisterOracle(o, i)
  \/ \E oracles \in SUBSET Oracles, allowed \in BOOLEAN, age \in MaxAges :
       GetVerifier(oracles, allowed, age)
  \/ \E c \in Credentials, i \in Issuers \cup {Stranger}, n \in Lifetimes : IssueCredential(c, i, n)
  \/ \E t \in Checkers : CheckStep(t)

ProvenanceSpec == ProvenanceInit /\ [][ProvenanceNext]_provenanceVars
-----------------------------------------------------------------------------
ProvenanceTypeOK ==
  /\ today \in 0..LastDay /\ didkit \in BOOLEAN
  /\ registry \in [Oracles -> Issuers \cup {Unknown}]
  /\ verifier # Unknown => verifier.trusted \subseteq Issuers
  /\ \A c \in Credentials :
       /\ c \in Exist => credential[c].issuer \in Issuers \cup {Stranger} /\ credential[c].at \in 0..today
       /\ verdict[c] \in BOOLEAN \cup {Unknown}
       /\ verdict[c] # Unknown => c \in Exist
  /\ \A t \in Checkers : check[t].at \in {"told", "executor", "verifies"}

(* Who is told that credentials are valid, was told so on grounds: each of them was
   within its dates, and for a verifier trusted by it and not too old, at some moment
   of the call, however long didkit takes for each.  A verdict that was remembered
   has no grounds but the old ones. *)
ToldOnGrounds ==
  \A t \in Checkers : LET k == check[t] IN
    k.at = "told" /\ ~k.errors /\ ~k.cached =>
      \A c \in ToSet(k.creds) : \E day \in k.since..today :
        IF k.by = "data" THEN ~Expired(c, day) ELSE ~Objections(c, day)
=============================================================================
