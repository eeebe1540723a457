----------------------------- MODULE Compliance -----------------------------
(***************************************************************************)
(* The compliance checker (compliance/checker.py): its frameworks and      *)
(* mode, which the caller changes, and the verdict of a check.             *)
(*                                                                         *)
(* Data is the set of PII types that the scrubber finds in it (Scrubber).  *)
(***************************************************************************)
EXTENDS Integers, Sequences, FiniteSets

CONSTANTS
  Samples,       \* the data checked: sets of PII types
  Regions,       \* the regions that an SLA may allow
  MaxRepeats,    \* bound on how often the constructor is given one framework
  NoSLA, NoFramework

ASSUME ComplianceAssumption == MaxRepeats \in Nat \ {0} /\ \A data \in Samples : IsFiniteSet(data)

VARIABLES
  frameworks,    \* how often self.frameworks has each; its order only orders messages
  strict_mode,
  outcome        \* the last result: passed, violations, warnings (rule ids), classification

complianceVars == <<frameworks, strict_mode, outcome>>

ComplianceFrameworks == {"HIPAA", "GDPR", "SOC2", "PCI_DSS", "CCPA", "FERPA"}
PrivacyLevels == <<"none", "tee", "zk", "hybrid">>
EURegions == {"eu-west", "eu-central", "eu-north"}
LevelOf(p) == CHOOSE i \in DOMAIN PrivacyLevels : PrivacyLevels[i] = p
Levels == {PrivacyLevels[i] : i \in DOMAIN PrivacyLevels}
SLAs == [privacy_level : Levels, allowed_regions : SUBSET Regions]
-----------------------------------------------------------------------------
Restricted == {"ssn", "credit_card", "bank_account", "passport", "private_key",
               "seed_phrase", "medical_record"}
Confidential == {"date_of_birth", "api_key", "address", "drivers_license", "npi"}

Classify(data) ==
  CASE data \cap Restricted # {} -> "restricted"
    [] data \cap Restricted = {} /\ data \cap Confidential # {} -> "confidential"
    [] data \cap (Restricted \cup Confidential) = {} /\ data # {} -> "internal"
    [] OTHER -> "public"

\* A rule about PII types fails where an SLA grants less than the level it asks.
\* Without an SLA it holds.
Unprotected(data, sla, types, level) ==
  data \cap types # {} /\ sla # NoSLA /\ LevelOf(sla.privacy_level) < LevelOf(level)

\* The rules that can fail.  HIPAA-002, HIPAA-003, GDPR-001, the three of SOC2 and the
\* two of CCPA ask for privacy, consent, disclosure, a seal, or encryption of no type in
\* particular: nothing checks them.
FRAMEWORK_RULES ==
  [HIPAA |-> {"HIPAA-001"}, GDPR |-> {"GDPR-002", "GDPR-003"}, SOC2 |-> {},
   PCI_DSS |-> {"PCI-001", "PCI-002"}, CCPA |-> {}, FERPA |-> {}]

\* Asking for encryption is asking for more than "none", which the level implies.
Violates(rule, data, sla) ==
  \/ rule = "HIPAA-001" /\ Unprotected(data, sla, {"ssn", "medical_record", "date_of_birth"}, "tee")
  \/ rule = "GDPR-002" /\ Cardinality(data) > 5
  \/ rule = "GDPR-003" /\ sla # NoSLA /\ sla.allowed_regions \ EURegions # {}
  \/ rule = "PCI-001" /\ Unprotected(data, sla, {"credit_card", "bank_account"}, "hybrid")
  \/ rule = "PCI-002" /\ "credit_card" \in data

Severity(rule) ==
  CASE rule = "GDPR-002" -> "warning" [] rule = "PCI-002" -> "critical" [] OTHER -> "error"

Verdict(checked, strict, data, sla) ==
  LET failed == {r \in UNION {FRAMEWORK_RULES[f] : f \in checked} : Violates(r, data, sla)}
      minor == {r \in failed : Severity(r) = "warning" /\ ~strict} IN
  [passed |-> failed \ minor = {}, violations |-> failed \ minor, warnings |-> minor,
   classification |-> Classify(data)]
-----------------------------------------------------------------------------
Added == {f \in ComplianceFrameworks : frameworks[f] > 0}

\* A list given to the constructor may repeat itself.
ComplianceInit ==
  /\ frameworks \in [ComplianceFrameworks -> 0..MaxRepeats] /\ strict_mode \in BOOLEAN
  /\ outcome = Verdict({}, FALSE, {}, NoSLA)

\* A framework given with the call counts for this call only.
Check(data, sla, framework) ==
  /\ outcome' = Verdict(Added \cup ({framework} \ {NoFramework}), strict_mode, data, sla)
  /\ UNCHANGED <<frameworks, strict_mode>>

AddFramework(f) ==
  /\ f \notin Added /\ frameworks' = [frameworks EXCEPT ![f] = 1]
  /\ UNCHANGED <<strict_mode, outcome>>

\* Of a framework that the list repeats, one is left.
RemoveFramework(f) ==
  /\ f \in Added /\ frameworks' = [frameworks EXCEPT ![f] = @ - 1]
  /\ UNCHANGED <<strict_mode, outcome>>

ComplianceNext ==
  \/ \E f \in ComplianceFrameworks : AddFramework(f) \/ RemoveFramework(f)
  \/ \E data \in Samples, sla \in SLAs \cup {NoSLA}, f \in ComplianceFrameworks \cup {NoFramework} :
       Check(data, sla, f)

ComplianceSpec == ComplianceInit /\ [][ComplianceNext]_complianceVars
-----------------------------------------------------------------------------
ComplianceTypeOK ==
  /\ frameworks \in [ComplianceFrameworks -> 0..MaxRepeats] /\ strict_mode \in BOOLEAN
  /\ outcome.passed <=> outcome.violations = {}

(* Asking for more never helps: what fails with a checker, at any point of its life, fails
   as well with more of the data, against one more framework, in strict mode or at a lower
   privacy level. *)
StricterFails ==
  \A data \in Samples, sla \in SLAs \cup {NoSLA} :
    ~Verdict(Added, strict_mode, data, sla).passed =>
      \A f \in ComplianceFrameworks, more \in Samples, strict \in {strict_mode, TRUE},
         lower \in {s \in SLAs \cup {NoSLA} : s = sla \/ (sla # NoSLA /\ s # NoSLA /\
            s.allowed_regions = sla.allowed_regions /\
            LevelOf(s.privacy_level) <= LevelOf(sla.privacy_level))} :
           ~Verdict(Added \cup {f}, strict, data \cup more, lower).passed
=============================================================================
