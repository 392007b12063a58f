------------------------------ MODULE Release -------------------------------
(***************************************************************************)
(* The TESTNET release gate (release_readiness/service.py): evidence, the  *)
(* external attestation, the local canary drill and the decision are       *)
(* append-only artifacts, stored first and then recorded in memory, where  *)
(* the gate looks for them.  Calls run as concurrent tasks while time      *)
(* passes; a write may fail, or its answer may be lost after the commit,   *)
(* and the process may restart.                                            *)
(***************************************************************************)
EXTENDS Naturals, FiniteSets

CONSTANTS
    Bundles,            \* evidence_bundle_ids
    Audits,             \* attestation_ids
    ReleaseCallers,     \* concurrent calls of the service
    LastHour,           \* bound on the clock
    Expiries,           \* hours at which an attestation may expire
    MaxDecisions,       \* bound on the decisions taken
    Validity,           \* how long an authorization lasts at most (24 hours)
    MaxReleaseFaults    \* bound on failed writes and restarts

ASSUME ReleaseAssumption ==
    /\ LastHour \in Nat /\ MaxDecisions \in Nat /\ Expiries \subseteq 1..LastHour
    /\ Validity \in Nat \ {0} /\ MaxReleaseFaults \in Nat

VARIABLES
    artifactRows,   \* the four append-only tables
    recorded,       \* the service's deques
    releaseCall,    \* the artifact each call is saving
    hour,           \* utcnow
    releaseFaults   \* history: failures so far

releaseVars == <<artifactRows, recorded, releaseCall, hour, releaseFaults>>

NoArtifact == [kind |-> "none"]

\* The contracts.  A bundle is its content: the same id with another result is
\* another bundle, and an attestation names the content it was issued for.
EvidenceBundles == [kind : {"evidence"}, id : Bundles, passed : BOOLEAN]
Attestations == [kind : {"attestation"}, id : Audits, evidence : EvidenceBundles,
                 approved : BOOLEAN, expires : Expiries]
Drills == [kind : {"drill"}, evidence : EvidenceBundles, attestation : Attestations,
           passed : BOOLEAN]
GateOutcomes == {"APPROVED_TESTNET", "BLOCKED_PENDING_EXTERNAL_AUDIT", "BLOCKED_TECHNICAL"}
GateDecisions == [kind : {"decision"}, evidence : EvidenceBundles,
                  attestation : Attestations \cup {NoArtifact}, drill : Drills \cup {NoArtifact},
                  outcome : GateOutcomes, decided : 0..LastHour, expires : 0..LastHour]

ReleaseInit ==
    /\ artifactRows = {} /\ recorded = {}
    /\ releaseCall = [c \in ReleaseCallers |-> NoArtifact]
    /\ hour = 0 /\ releaseFaults = 0

\* The contracts a caller has at hand: what is stored, whether or not
\* the service has it recorded.
KnownKind(kind) == {a \in artifactRows \cup recorded : a.kind = kind}

BeginSave(c, artifact) ==
    /\ releaseCall[c] = NoArtifact
    /\ releaseCall' = [releaseCall EXCEPT ![c] = artifact]
    /\ UNCHANGED <<artifactRows, recorded, hour, releaseFaults>>

-----------------------------------------------------------------------------
(* The operations, up to the write *)

\* record_evidence: what ReleaseAuditRunner collected, passed or not.
RecordEvidence(c, e) == BeginSave(c, e)

\* record_external_attestation: the evidence it names is recorded and the same.
RecordAttestation(c, a) ==
    /\ a.evidence \in recorded
    /\ BeginSave(c, a)

\* What canary and gate ask of an audit of this evidence.
AuditStands(e, a) == e.passed /\ a.approved /\ a.expires > hour /\ a.evidence = e

\* run_local_testnet_canary: for recorded artifacts only.
RunCanary(c, e, a) ==
    /\ e \in recorded /\ a \in recorded
    /\ BeginSave(c, [kind |-> "drill", evidence |-> e, attestation |-> a,
                     passed |-> AuditStands(e, a)])

\* evaluate_gate: every criterion, on what the memory holds.  Audit and drill
\* may be absent, which blocks.
GateOpens(e, a, d) ==
    /\ {e, a, d} \subseteq recorded
    /\ AuditStands(e, a)
    /\ d.evidence = e /\ d.attestation = a /\ d.passed

GateOutcome(e, a, d) ==
    IF GateOpens(e, a, d) THEN "APPROVED_TESTNET"
    ELSE IF a = NoArtifact THEN "BLOCKED_PENDING_EXTERNAL_AUDIT" ELSE "BLOCKED_TECHNICAL"

Expiry(a) == IF a.expires <= hour + Validity THEN a.expires ELSE hour + Validity

EvaluateGate(c, e, a, d) ==
    /\ Cardinality(KnownKind("decision")) < MaxDecisions
    /\ BeginSave(c, [kind |-> "decision", evidence |-> e, attestation |-> a, drill |-> d,
                     outcome |-> GateOutcome(e, a, d), decided |-> hour,
                     expires |-> IF GateOpens(e, a, d) THEN Expiry(a) ELSE 0])

-----------------------------------------------------------------------------
(* _save_governance_artifact and what follows it *)

\* Mutant: the id is looked up in memory instead of the table.
IdentityConflictInMemory(a) ==
    /\ a.kind \in {"evidence", "attestation"}
    /\ \E b \in recorded : b.kind = a.kind /\ b.id = a.id /\ b # a

\* "Immutable ... identity conflict".  Drills and decisions get a fresh id.
IdentityConflict(a) ==
    /\ a.kind \in {"evidence", "attestation"}
    /\ \E b \in artifactRows : b.kind = a.kind /\ b.id = a.id /\ b # a

SaveArtifact(c) ==
    LET a == releaseCall[c]
    IN  /\ a # NoArtifact
        /\ IF IdentityConflict(a) THEN UNCHANGED <<artifactRows, recorded>>
           ELSE artifactRows' = artifactRows \cup {a} /\ recorded' = recorded \cup {a}
        /\ releaseCall' = [releaseCall EXCEPT ![c] = NoArtifact]
        /\ UNCHANGED <<hour, releaseFaults>>

SaveArtifactFails(c) ==
    LET a == releaseCall[c]
    IN  /\ a # NoArtifact /\ releaseFaults < MaxReleaseFaults
        /\ releaseFaults' = releaseFaults + 1
        /\ \/ UNCHANGED artifactRows
           \/ ~IdentityConflict(a) /\ artifactRows' = artifactRows \cup {a}
        /\ releaseCall' = [releaseCall EXCEPT ![c] = NoArtifact]
        /\ UNCHANGED <<recorded, hour>>

\* initialize
RestartRelease ==
    /\ releaseFaults < MaxReleaseFaults
    /\ releaseFaults' = releaseFaults + 1
    /\ recorded' = artifactRows
    /\ releaseCall' = [c \in ReleaseCallers |-> NoArtifact]
    /\ UNCHANGED <<artifactRows, hour>>

TimePasses ==
    /\ hour < LastHour /\ hour' = hour + 1
    /\ UNCHANGED <<artifactRows, recorded, releaseCall, releaseFaults>>

ReleaseNext ==
    \/ \E c \in ReleaseCallers :
          \/ \E e \in EvidenceBundles : RecordEvidence(c, e)
          \/ \E a \in Attestations : RecordAttestation(c, a)
          \/ \E e \in KnownKind("evidence"), a \in KnownKind("attestation") : RunCanary(c, e, a)
          \/ \E e \in KnownKind("evidence"), a \in KnownKind("attestation") \cup {NoArtifact},
                d \in KnownKind("drill") \cup {NoArtifact} : EvaluateGate(c, e, a, d)
          \/ SaveArtifact(c) \/ SaveArtifactFails(c)
    \/ RestartRelease \/ TimePasses

ReleaseSpec == ReleaseInit /\ [][ReleaseNext]_releaseVars

-----------------------------------------------------------------------------
(* Properties *)

Artifacts == EvidenceBundles \cup Attestations \cup Drills \cup GateDecisions

ReleaseTypeOK ==
    /\ artifactRows \subseteq Artifacts /\ recorded \subseteq Artifacts
    /\ releaseCall \in [ReleaseCallers -> Artifacts \cup {NoArtifact}]
    /\ hour \in 0..LastHour /\ releaseFaults \in 0..MaxReleaseFaults

\* An authorization rests on evidence that is stored and never contradicted:
\* the one bundle of its id passed, the one attestation of its id approves
\* that bundle and outlives the authorization, and a stored drill rehearsed
\* just these two, whatever concurrent calls, lost answers and restarts did
\* in between.
AuthorizationIsBacked ==
    \A d \in artifactRows : d.kind = "decision" /\ d.outcome = "APPROVED_TESTNET" =>
        /\ \A b \in artifactRows : b.kind = "evidence" /\ b.id = d.evidence.id =>
              b = d.evidence /\ b.passed
        /\ \A b \in artifactRows : b.kind = "attestation" /\ b.id = d.attestation.id =>
              b = d.attestation /\ b.approved /\ b.evidence = d.evidence
        /\ {d.evidence, d.attestation, d.drill} \subseteq artifactRows
        /\ d.drill.evidence = d.evidence /\ d.drill.attestation = d.attestation
        /\ d.decided < d.expires /\ d.expires <= d.attestation.expires
=============================================================================
