-------------------------- MODULE GovernanceProofs --------------------------
(***************************************************************************)
(* Proofs about the governance of agents and releases: what an             *)
(* authorization of the release gate rests on, that the settled history of *)
(* the agents survives, and what the verdict of a campaign says.           *)
(***************************************************************************)
EXTENDS Release, Evaluation, ShadowValidation, FiniteSetTheorems, SequenceTheorems, TLAPS

-----------------------------------------------------------------------------
(* Release: who may be believed about an artifact *)

\* Memory holds only what is stored, and an id stands for one artifact.
Stored ==
    /\ recorded \subseteq artifactRows /\ NoArtifact \notin artifactRows
    /\ \A a, b \in artifactRows :
          a.kind = b.kind /\ a.kind \in {"evidence", "attestation"} /\ a.id = b.id => a = b

\* What an artifact must satisfy, stored or about to be.  Its grounds are rows,
\* and rows stay.
Founded(a) ==
    /\ a.kind = "attestation" => a.expires \in Nat
    /\ a.kind = "decision" /\ a.outcome = "APPROVED_TESTNET" =>
          /\ {a.evidence, a.attestation, a.drill} \subseteq artifactRows
          /\ a.evidence.kind = "evidence" /\ a.attestation.kind = "attestation"
          /\ a.evidence.passed /\ a.attestation.approved
          /\ a.attestation.evidence = a.evidence
          /\ a.drill.evidence = a.evidence /\ a.drill.attestation = a.attestation
          /\ a.decided < a.expires /\ a.expires <= a.attestation.expires

ReleaseInv ==
    /\ Stored
    /\ releaseCall = [c \in ReleaseCallers |-> releaseCall[c]]
    /\ \A a \in artifactRows : Founded(a)
    /\ \A c \in ReleaseCallers : Founded(releaseCall[c])
    /\ hour \in Nat

\* An artifact keeps its grounds, because no row is ever deleted.
LEMMA FoundedStays ==
    ASSUME NEW a, Founded(a), artifactRows \subseteq artifactRows'
    PROVE  Founded(a)'
BY DEF Founded

\* A call that begins to save a founded artifact.
LEMMA BeginSaveInv ==
    ASSUME ReleaseInv, NEW c \in ReleaseCallers, NEW a, Founded(a), BeginSave(c, a)
    PROVE  ReleaseInv'
<1>1. artifactRows' = artifactRows /\ recorded' = recorded /\ hour' = hour
  BY DEF BeginSave
<1>2. \A d \in ReleaseCallers : releaseCall'[d] = releaseCall[d] \/ releaseCall'[d] = a
  BY DEF BeginSave, ReleaseInv
<1>3. \A d \in ReleaseCallers : Founded(releaseCall[d])'
  <2> TAKE d \in ReleaseCallers
  <2>1. Founded(releaseCall'[d])
    BY <1>2 DEF ReleaseInv
  <2> QED BY <1>1, <2>1 DEF Founded
<1>4. \A b \in artifactRows' : Founded(b)'
  BY <1>1, FoundedStays DEF ReleaseInv
<1>5. Stored'
  BY <1>1 DEF Stored, ReleaseInv
<1>6. releaseCall' = [d \in ReleaseCallers |-> releaseCall'[d]]
  BY DEF BeginSave, ReleaseInv
<1> QED BY <1>1, <1>3, <1>4, <1>5, <1>6 DEF ReleaseInv

\* The new artifacts are founded: evidence and drills claim nothing, an
\* attestation has a date, and a decision approves only what memory holds.
LEMMA NewArtifactsFounded ==
    ASSUME ReleaseInv
    PROVE  /\ \A e \in EvidenceBundles : Founded(e)
           /\ \A a \in Attestations : Founded(a)
           /\ Founded(NoArtifact)
<1>1. \A e \in EvidenceBundles : Founded(e)
  BY DEF EvidenceBundles, Founded
<1>2. \A a \in Attestations : Founded(a)
  BY ReleaseAssumption DEF Attestations, Founded
<1>3. Founded(NoArtifact)
  BY DEF NoArtifact, Founded
<1> QED BY <1>1, <1>2, <1>3

\* run_local_testnet_canary saves a drill.
LEMMA RunCanaryInv ==
    ASSUME ReleaseInv, NEW c \in ReleaseCallers, NEW e, NEW a, RunCanary(c, e, a)
    PROVE  ReleaseInv'
<1> DEFINE d == [kind |-> "drill", evidence |-> e, attestation |-> a,
                 passed |-> AuditStands(e, a)]
<1>1. Founded(d)
  BY DEF Founded
<1> QED BY <1>1, BeginSaveInv DEF RunCanary

\* evaluate_gate decides on what memory holds, which is stored.
LEMMA EvaluateGateInv ==
    ASSUME ReleaseInv, NEW c \in ReleaseCallers,
           NEW e \in KnownKind("evidence"), NEW a \in KnownKind("attestation") \cup {NoArtifact},
           NEW d \in KnownKind("drill") \cup {NoArtifact},
           EvaluateGate(c, e, a, d)
    PROVE  ReleaseInv'
<1> DEFINE new == [kind |-> "decision", evidence |-> e, attestation |-> a, drill |-> d,
                   outcome |-> GateOutcome(e, a, d), decided |-> hour,
                   expires |-> IF GateOpens(e, a, d) THEN Expiry(a) ELSE 0]
<1>1. CASE ~GateOpens(e, a, d)
  <2>1. GateOutcome(e, a, d) # "APPROVED_TESTNET"
    BY <1>1 DEF GateOutcome
  <2>2. Founded(new)
    BY <2>1 DEF Founded
  <2> QED BY <2>2, BeginSaveInv DEF EvaluateGate
<1>2. CASE GateOpens(e, a, d)
  <2>1. {e, a, d} \subseteq artifactRows
    BY <1>2 DEF GateOpens, ReleaseInv, Stored
  <2>2. e.kind = "evidence" /\ a.kind = "attestation"
    BY <2>1 DEF KnownKind, ReleaseInv, Stored
  <2>3. a.expires \in Nat /\ hour \in Nat
    BY <2>1, <2>2 DEF ReleaseInv, Founded
  <2>4. /\ e.passed /\ a.approved /\ a.evidence = e /\ a.expires > hour
        /\ d.evidence = e /\ d.attestation = a
    BY <1>2 DEF GateOpens, AuditStands
  <2>5. hour < Expiry(a) /\ Expiry(a) <= a.expires
    BY <2>3, <2>4, ReleaseAssumption DEF Expiry
  <2>6. Founded(new)
    BY <1>2, <2>1, <2>2, <2>4, <2>5 DEF Founded
  <2> QED BY <2>6, BeginSaveInv DEF EvaluateGate
<1> QED BY <1>1, <1>2

\* Storing the artifact of a call: rows only grow, and by no second artifact of
\* the same id.
LEMMA SaveInv ==
    ASSUME ReleaseInv, NEW c \in ReleaseCallers, SaveArtifact(c) \/ SaveArtifactFails(c)
    PROVE  ReleaseInv'
<1> DEFINE a == releaseCall[c]
<1>0. /\ a # NoArtifact /\ Founded(a) /\ hour' = hour
      /\ releaseCall' = [releaseCall EXCEPT ![c] = NoArtifact]
      /\ \/ artifactRows' = artifactRows
         \/ ~IdentityConflict(a) /\ artifactRows' = artifactRows \cup {a}
      /\ recorded' \subseteq recorded \cup (artifactRows' \cap {a})
  BY DEF SaveArtifact, SaveArtifactFails, ReleaseInv
<1>1. artifactRows \subseteq artifactRows'
  BY <1>0
<1>2. \A d \in ReleaseCallers : releaseCall'[d] = releaseCall[d] \/ releaseCall'[d] = NoArtifact
  BY <1>0 DEF ReleaseInv
<1>3. \A d \in ReleaseCallers : Founded(releaseCall[d])'
  <2> TAKE d \in ReleaseCallers
  <2>1. Founded(releaseCall'[d])
    BY <1>2, NewArtifactsFounded DEF ReleaseInv
  <2> QED BY <1>1, <2>1, FoundedStays DEF Founded
<1>4. \A b \in artifactRows' : Founded(b)'
  BY <1>0, <1>1, FoundedStays DEF ReleaseInv
<1>5. Stored'
  BY <1>0 DEF Stored, ReleaseInv, IdentityConflict
<1>6. releaseCall' = [d \in ReleaseCallers |-> releaseCall'[d]]
  BY <1>0 DEF ReleaseInv
<1> QED BY <1>0, <1>3, <1>4, <1>5, <1>6 DEF ReleaseInv

\* Every step keeps what the artifacts rest on.
LEMMA ReleaseStepInv == ASSUME ReleaseInv, [ReleaseNext]_releaseVars PROVE ReleaseInv'
<1>1. ASSUME NEW c \in ReleaseCallers, NEW e \in EvidenceBundles, RecordEvidence(c, e)
      PROVE  ReleaseInv'
  BY <1>1, NewArtifactsFounded, BeginSaveInv DEF RecordEvidence
<1>2. ASSUME NEW c \in ReleaseCallers, NEW a \in Attestations, RecordAttestation(c, a)
      PROVE  ReleaseInv'
  BY <1>2, NewArtifactsFounded, BeginSaveInv DEF RecordAttestation
<1>3. ASSUME NEW c \in ReleaseCallers, SaveArtifact(c) \/ SaveArtifactFails(c) PROVE ReleaseInv'
  BY <1>3, SaveInv
<1>4. CASE RestartRelease
  <2>1. artifactRows' = artifactRows /\ recorded' = artifactRows /\ hour' = hour
    BY <1>4 DEF RestartRelease
  <2>2. \A c \in ReleaseCallers : releaseCall'[c] = NoArtifact
    BY <1>4 DEF RestartRelease
  <2>3. \A c \in ReleaseCallers : Founded(releaseCall[c])'
    BY <2>2 DEF NoArtifact, Founded
  <2>4. \A a \in artifactRows' : Founded(a)'
    BY <2>1, FoundedStays DEF ReleaseInv
  <2>5. releaseCall' = [d \in ReleaseCallers |-> releaseCall'[d]]
    BY <1>4 DEF RestartRelease
  <2> QED BY <2>1, <2>3, <2>4, <2>5 DEF ReleaseInv, Stored
<1>5. CASE TimePasses \/ UNCHANGED releaseVars
  <2>1. UNCHANGED <<artifactRows, recorded, releaseCall>> /\ hour' \in Nat
    BY <1>5 DEF TimePasses, releaseVars, ReleaseInv
  <2> QED BY <2>1 DEF ReleaseInv, Stored, Founded
<1> QED BY <1>1, <1>2, <1>3, <1>4, <1>5, RunCanaryInv, EvaluateGateInv DEF ReleaseNext

\* The gate authorizes TESTNET only on stored, consistent and unexpired evidence,
\* an approval of just that evidence, and a rehearsal of both, whatever concurrent
\* calls, lost answers and restarts do (release_readiness/service.py evaluate_gate
\* over _save_governance_artifact).
THEOREM AuthorizationsAreBacked == ReleaseSpec => []AuthorizationIsBacked
<1>1. ReleaseInit => ReleaseInv
  BY DEF ReleaseInit, ReleaseInv, Stored, Founded, NoArtifact
<1>2. ReleaseInv => AuthorizationIsBacked
  BY DEF ReleaseInv, Stored, Founded, AuthorizationIsBacked
<1> QED BY <1>1, <1>2, ReleaseStepInv, PTL DEF ReleaseSpec

-----------------------------------------------------------------------------
(* Evaluation: the settled history *)

\* A listing of a finite set names every member exactly once.
LEMMA Listing ==
    ASSUME NEW S, IsFiniteSet(S), NEW s \in SetToSeqs(S)
    PROVE  s \in Seq(S) /\ IsInjective(s) /\ ToSet(s) = S
<1> DEFINE D == 1..Cardinality(S)
<1>1. Cardinality(S) \in Nat /\ IsFiniteSet(D) /\ Cardinality(D) = Cardinality(S)
    <2>1. Cardinality(S) \in Nat
        BY FS_CardinalityType
    <2> QED BY <2>1, FS_Interval
<1>2. s \in [D -> S] /\ \A i, j \in D : i # j => s[i] # s[j]
    BY DEF SetToSeqs
<1>3. IsInjective(s)
    BY <1>2 DEF IsInjective
<1>4. s \in Injection(D, S)
    BY <1>2, <1>3 DEF Injection
<1>5. s \in Surjection(D, S)
    BY <1>1, <1>4, FS_Injection
<1>6. ToSet(s) = S
    BY <1>2, <1>5 DEF Surjection, ToSet
<1> QED BY <1>1, <1>2, <1>3, <1>6

\* Two listings of disjoint sets, one after the other.
LEMMA JoinListings ==
    ASSUME NEW S, NEW s \in Seq(S), NEW t \in Seq(S), IsInjective(s), IsInjective(t),
           ToSet(s) \cap ToSet(t) = {}
    PROVE  s \o t \in Seq(S) /\ IsInjective(s \o t) /\ ToSet(s \o t) = ToSet(s) \cup ToSet(t)
<1> DEFINE u == s \o t
<1>1. /\ Len(s) \in Nat /\ Len(t) \in Nat
      /\ DOMAIN s = 1..Len(s) /\ DOMAIN t = 1..Len(t)
    OBVIOUS
<1>2. /\ u \in Seq(S) /\ Len(u) = Len(s) + Len(t)
      /\ \A i \in 1..Len(s) + Len(t) : u[i] = IF i <= Len(s) THEN s[i] ELSE t[i - Len(s)]
    BY ONLY ConcatProperties, s \in Seq(S), t \in Seq(S)
<1> HIDE DEF u
<1>3. DOMAIN u = 1..Len(s) + Len(t)
    BY <1>1, <1>2
<1>4. ASSUME NEW i \in 1..Len(s) + Len(t)
      PROVE  \/ i \in DOMAIN s /\ u[i] = s[i]
             \/ i - Len(s) \in DOMAIN t /\ u[i] = t[i - Len(s)]
    BY <1>1, <1>2
<1>5. IsInjective(u)
    <2> SUFFICES ASSUME NEW i \in DOMAIN u, NEW j \in DOMAIN u, u[i] = u[j] PROVE i = j
        BY DEF IsInjective
    <2>1. \A k \in DOMAIN s, l \in DOMAIN t : s[k] # t[l]
        BY DEF ToSet
    <2>2. /\ (i \in DOMAIN s /\ u[i] = s[i]) \/ (i - Len(s) \in DOMAIN t /\ u[i] = t[i - Len(s)])
          /\ (j \in DOMAIN s /\ u[j] = s[j]) \/ (j - Len(s) \in DOMAIN t /\ u[j] = t[j - Len(s)])
        BY <1>3, <1>4
    <2>3. CASE i \in DOMAIN s /\ u[i] = s[i]
        BY <2>1, <2>2, <2>3 DEF IsInjective
    <2>4. CASE i - Len(s) \in DOMAIN t /\ u[i] = t[i - Len(s)]
        <3>1. j - Len(s) \in DOMAIN t /\ u[j] = t[j - Len(s)]
            BY <2>1, <2>2, <2>4
        <3>2. i - Len(s) = j - Len(s)
            BY <2>4, <3>1 DEF IsInjective
        <3> QED BY <1>1, <1>3, <3>2
    <2> QED BY <2>2, <2>3, <2>4
<1>6. ToSet(u) = ToSet(s) \cup ToSet(t)
    <2>1. ToSet(u) \subseteq ToSet(s) \cup ToSet(t)
        BY <1>3, <1>4 DEF ToSet
    <2>2. ASSUME NEW i \in DOMAIN s PROVE s[i] \in ToSet(u)
        BY <1>1, <1>2, <1>3 DEF ToSet
    <2>3. ASSUME NEW i \in DOMAIN t PROVE t[i] \in ToSet(u)
        <3>1. Len(s) + i \in DOMAIN u /\ u[Len(s) + i] = t[i]
            BY <1>1, <1>2, <1>3
        <3> QED BY <3>1 DEF ToSet
    <2> QED BY <2>1, <2>2, <2>3 DEF ToSet
<1> QED BY <1>2, <1>5, <1>6 DEF u

\* A venue's task settles known forecasts with the candle it has observed.
WatchersSound ==
    \A v \in Venues :
        /\ watcher[v].cohort \subseteq forecasts
        /\ watcher[v].step # "idle" => Candle(v) \in Forecasts

\* The candle a venue's task is working on has no stored forecast yet.
NoSecondForecast ==
    \A v \in Venues : \A f \in forecastRows :
        f[1] = v => /\ f[2] <= watcher[v].period
                    /\ watcher[v].step # "idle" => f[2] < watcher[v].period

HistoryInv ==
    /\ EvaluationTypeOK
    /\ forecasts \subseteq forecastRows
    /\ WatchersSound
    /\ NoSecondForecast
    /\ \A f \in Forecasts : outcomeRows[f] # <<>> => f \in forecastRows
    /\ \A f \in Forecasts : outcomes[f] # <<>> => outcomes[f] = outcomeRows[f]
    /\ IsInjective(settled)
    /\ ToSet(settled) = {f \in forecasts : outcomes[f] # <<>>}

LEMMA ForecastsFinite == IsFiniteSet(Forecasts)
<1>1. IsFiniteSet(Periods)
    BY EvaluationAssumption, FS_Interval DEF Periods
<1> QED BY <1>1, EvaluationAssumption, FS_Product DEF Forecasts

\* A watcher at work has observed a candle.
LEMMA CandleFacts ==
    ASSUME EvaluationTypeOK, NEW v \in Venues
    PROVE  /\ watcher[v].cohort \subseteq Forecasts /\ Candle(v) # <<>>
           /\ \A table \in [Forecasts -> OutcomeRow] : \A f \in Forecasts :
                 Settle(v, table)[f] = IF f \in watcher[v].cohort THEN Candle(v) ELSE table[f]
<1>1. watcher[v].cohort \subseteq Forecasts
    BY DEF EvaluationTypeOK
<1>2. Candle(v) # <<>>
    BY DEF Candle
<1> QED BY <1>1, <1>2 DEF Settle

WatcherRecord == [step : {"idle", "settle", "forecast"}, period : 0..LastPeriod,
                  cohort : SUBSET Forecasts]

\* What a watcher's step leaves true of the watchers.
LEMMA WatcherFrame ==
    ASSUME HistoryInv, NEW v \in Venues, NEW r \in WatcherRecord,
           watcher' = [watcher EXCEPT ![v] = r],
           r.cohort \subseteq forecasts, r.step # "idle" => <<v, r.period>> \in Forecasts,
           forecasts \subseteq forecasts',
           \/ r.step = "idle" /\ r.period = watcher[v].period
              /\ forecastRows' \in {forecastRows, forecastRows \cup {Candle(v)}}
           \/ r.period = watcher[v].period /\ watcher[v].step # "idle" /\ UNCHANGED forecastRows
           \/ r.period > watcher[v].period /\ UNCHANGED forecastRows
    PROVE  watcher' \in [Venues -> WatcherRecord] /\ WatchersSound' /\ NoSecondForecast'
<1>1. watcher \in [Venues -> WatcherRecord] /\ forecastRows \subseteq Venues \X Nat
    BY DEF HistoryInv, EvaluationTypeOK, WatcherRecord, Forecasts, Periods
<1>2. watcher' \in [Venues -> WatcherRecord] /\ WatchersSound'
    BY DEF HistoryInv, WatchersSound, EvaluationTypeOK, WatcherRecord, Candle
<1>3. \A w \in Venues : watcher[w].period \in Nat
    BY <1>1, EvaluationAssumption DEF WatcherRecord
<1>4. ASSUME NEW w \in Venues, NEW f \in forecastRows', f[1] = w
      PROVE  /\ f[2] <= watcher'[w].period
             /\ watcher'[w].step # "idle" => f[2] < watcher'[w].period
    <2>1. CASE f \in forecastRows
        <3>1. /\ f[2] \in Nat /\ f[2] <= watcher[w].period
              /\ watcher[w].step # "idle" => f[2] < watcher[w].period
            BY <1>1, <1>4, <2>1 DEF HistoryInv, NoSecondForecast
        <3>2. r.period \in Nat /\ r.period >= watcher[v].period
            BY <1>3, EvaluationAssumption DEF WatcherRecord
        <3>3. watcher'[w] = IF w = v THEN r ELSE watcher[w]
            BY <1>1
        <3> QED BY <1>3, <3>1, <3>2, <3>3
    <2>2. CASE f = Candle(v) /\ r.step = "idle" /\ r.period = watcher[v].period
        <3>1. w = v /\ watcher'[w] = r /\ f[2] = watcher[v].period
            BY <1>1, <1>4, <2>2 DEF Candle
        <3> QED BY <1>3, <2>2, <3>1
    <2> QED BY <1>4, <2>1, <2>2
<1> QED BY <1>2, <1>4 DEF NoSecondForecast

\* The end of an observation.
LEMMA EndFacts ==
    ASSUME HistoryInv, NEW v \in Venues, EndObservation(v), forecasts \subseteq forecasts',
           forecastRows' \in {forecastRows, forecastRows \cup {Candle(v)}}
    PROVE  watcher' \in [Venues -> WatcherRecord] /\ WatchersSound' /\ NoSecondForecast'
<1> DEFINE r == [watcher[v] EXCEPT !.step = "idle", !.cohort = {}]
<1>1. watcher \in [Venues -> WatcherRecord]
    BY DEF HistoryInv, EvaluationTypeOK, WatcherRecord
<1>2. r \in WatcherRecord /\ r.cohort = {} /\ r.step = "idle" /\ r.period = watcher[v].period
    BY <1>1 DEF WatcherRecord
<1>3. watcher' = [watcher EXCEPT ![v] = r]
    BY <1>1 DEF EndObservation, WatcherRecord
<1> HIDE DEF r
<1> QED BY <1>2, <1>3, WatcherFrame

LEMMA ObserveInv == ASSUME HistoryInv, NEW v \in Venues, NEW period \in Periods, ObserveCandle(v, period)
                    PROVE  HistoryInv'
<1> DEFINE r == [step |-> IF Cohort(period) = {} THEN "forecast" ELSE "settle",
                 period |-> period, cohort |-> Cohort(period)]
<1>1. Cohort(period) \subseteq forecasts /\ Cohort(period) \subseteq Forecasts
    BY DEF Cohort, HistoryInv, EvaluationTypeOK
<1>2. r \in WatcherRecord /\ r.cohort = Cohort(period) /\ r.period = period
    BY <1>1, EvaluationAssumption DEF WatcherRecord, Periods
<1>3. <<v, period>> \in Forecasts
    BY DEF Forecasts
<1>4. watcher' = [watcher EXCEPT ![v] = r] /\ period > watcher[v].period
    BY DEF ObserveCandle
<1> HIDE DEF r
<1>5. UNCHANGED <<forecastRows, outcomeRows, forecasts, outcomes, settled, evaluationFaults>>
    BY DEF ObserveCandle, evaluationRows, evaluationMemory
<1>6. watcher' \in [Venues -> WatcherRecord] /\ WatchersSound' /\ NoSecondForecast'
    BY <1>1, <1>2, <1>3, <1>4, <1>5, WatcherFrame
<1> QED BY <1>5, <1>6 DEF HistoryInv, EvaluationTypeOK, WatcherRecord

LEMMA SaveOutcomesInv == ASSUME HistoryInv, NEW v \in Venues, SaveOutcomes(v) PROVE HistoryInv'
<1> DEFINE fresh == {f \in watcher[v].cohort : f \notin ToSet(settled)}
           r == [watcher[v] EXCEPT !.step = "forecast", !.cohort = {}]
<1>1. watcher \in [Venues -> WatcherRecord] /\ EvaluationTypeOK
    BY DEF HistoryInv, EvaluationTypeOK, WatcherRecord
<1>2. /\ r \in WatcherRecord /\ r.cohort = {} /\ r.period = watcher[v].period
      /\ <<v, r.period>> \in Forecasts
    BY <1>1 DEF WatcherRecord, HistoryInv, WatchersSound, SaveOutcomes, Candle
<1>3. watcher' = [watcher EXCEPT ![v] = r]
    BY <1>1 DEF SaveOutcomes, WatcherRecord
<1> HIDE DEF r
<1>4. watcher' \in [Venues -> WatcherRecord] /\ WatchersSound' /\ NoSecondForecast'
    BY <1>2, <1>3, WatcherFrame DEF SaveOutcomes
<1>5. /\ Candle(v) \in Forecasts /\ Candle(v) # <<>>
      /\ watcher[v].cohort \subseteq Forecasts /\ watcher[v].cohort \subseteq forecasts
    BY <1>1, CandleFacts DEF HistoryInv, WatchersSound, SaveOutcomes
<1>6. /\ outcomeRows' \in [Forecasts -> OutcomeRow] /\ outcomes' \in [Forecasts -> OutcomeRow]
      /\ \A f \in watcher[v].cohort : outcomeRows'[f] = Candle(v) /\ outcomes'[f] = Candle(v)
      /\ \A f \in Forecasts \ watcher[v].cohort :
            outcomeRows'[f] = outcomeRows[f] /\ outcomes'[f] = outcomes[f]
    BY <1>1, <1>5 DEF SaveOutcomes, Settle, EvaluationTypeOK, OutcomeRow
<1>7. PICK new \in SetToSeqs(fresh) : settled' = settled \o new
    BY DEF SaveOutcomes
<1>8. fresh \subseteq Forecasts /\ IsFiniteSet(fresh)
    BY <1>5, ForecastsFinite, FS_Subset
<1>9. new \in Seq(Forecasts) /\ IsInjective(new) /\ ToSet(new) = fresh
    <2>1. new \in Seq(fresh) /\ IsInjective(new) /\ ToSet(new) = fresh
        <3> HIDE DEF fresh
        <3> QED BY <1>8, Listing
    <2> HIDE DEF fresh
    <2> QED BY <1>8, <2>1, SeqMonotonic
<1>10. /\ settled' \in Seq(Forecasts) /\ IsInjective(settled')
       /\ ToSet(settled') = ToSet(settled) \cup fresh
    <2>1. settled \in Seq(Forecasts) /\ IsInjective(settled) /\ ToSet(settled) \cap ToSet(new) = {}
        BY <1>1, <1>9 DEF HistoryInv, EvaluationTypeOK
    <2> HIDE DEF fresh
    <2> QED BY <1>7, <1>9, <2>1, JoinListings
<1>11. ToSet(settled') = {f \in forecasts' : outcomes'[f] # <<>>}
    <2>1. forecasts' = forecasts /\ forecasts \subseteq Forecasts
        BY <1>1 DEF SaveOutcomes, EvaluationTypeOK
    <2> QED BY <1>5, <1>6, <1>10, <2>1 DEF HistoryInv
<1>12. EvaluationTypeOK'
    BY <1>1, <1>4, <1>6, <1>10 DEF EvaluationTypeOK, WatcherRecord, SaveOutcomes
<1>13. /\ \A f \in Forecasts : outcomeRows'[f] # <<>> => f \in forecastRows
       /\ \A f \in Forecasts : outcomes'[f] # <<>> => outcomes'[f] = outcomeRows'[f]
    BY <1>5, <1>6 DEF HistoryInv
<1> QED BY <1>4, <1>10, <1>11, <1>12, <1>13 DEF HistoryInv, SaveOutcomes

LEMMA SaveForecastsInv == ASSUME HistoryInv, NEW v \in Venues, SaveForecasts(v) PROVE HistoryInv'
<1>1. Candle(v) \in Forecasts
    BY DEF HistoryInv, WatchersSound, SaveForecasts
<1>2. watcher' \in [Venues -> WatcherRecord] /\ WatchersSound' /\ NoSecondForecast'
    BY EndFacts DEF SaveForecasts
<1>3. outcomes[Candle(v)] = <<>>
    <2>1. watcher[v].period \in Nat
        BY EvaluationAssumption DEF HistoryInv, EvaluationTypeOK
    <2>2. Candle(v) \notin forecastRows
        BY <2>1 DEF HistoryInv, NoSecondForecast, SaveForecasts, Candle
    <2> QED BY <1>1, <2>2 DEF HistoryInv
<1> QED BY <1>1, <1>2, <1>3 DEF HistoryInv, EvaluationTypeOK, WatcherRecord, SaveForecasts

LEMMA RefusedInv == ASSUME HistoryInv, NEW v \in Venues, OutcomesRefused(v) PROVE HistoryInv'
<1>1. UNCHANGED <<forecastRows, outcomeRows, forecasts, outcomes, settled, evaluationFaults>>
    BY DEF OutcomesRefused, evaluationRows, evaluationMemory
<1>2. watcher' \in [Venues -> WatcherRecord] /\ WatchersSound' /\ NoSecondForecast'
    BY <1>1, EndFacts DEF OutcomesRefused
<1> QED BY <1>1, <1>2 DEF HistoryInv, EvaluationTypeOK, WatcherRecord

LEMMA WriteFailsInv == ASSUME HistoryInv, NEW v \in Venues, EvaluationWriteFails(v) PROVE HistoryInv'
<1>1. UNCHANGED <<forecasts, outcomes, settled>> /\ evaluationFaults' \in 0..MaxEvaluationFaults
    BY EvaluationAssumption DEF EvaluationWriteFails, evaluationMemory, HistoryInv, EvaluationTypeOK
<1>2. watcher' \in [Venues -> WatcherRecord] /\ WatchersSound' /\ NoSecondForecast'
    BY <1>1, EndFacts DEF EvaluationWriteFails, evaluationRows
<1>3. /\ Candle(v) \in Forecasts /\ Candle(v) # <<>> /\ EvaluationTypeOK
      /\ watcher[v].cohort \subseteq Forecasts /\ watcher[v].cohort \subseteq forecasts
    BY CandleFacts DEF HistoryInv, WatchersSound, EvaluationWriteFails
<1>4. /\ forecastRows' \subseteq Forecasts /\ forecastRows \subseteq forecastRows'
      /\ outcomeRows' \in [Forecasts -> OutcomeRow]
      /\ \A f \in Forecasts : outcomeRows'[f] # <<>> => f \in forecastRows'
      /\ \A f \in Forecasts : outcomeRows[f] # <<>> => outcomeRows'[f] = outcomeRows[f]
    <2>1. CASE UNCHANGED evaluationRows
        BY <1>3, <2>1 DEF evaluationRows, HistoryInv, EvaluationTypeOK
    <2>2. CASE ~Contradicted(v) /\ outcomeRows' = Settle(v, outcomeRows) /\ UNCHANGED forecastRows
        BY <1>3, <2>2 DEF HistoryInv, EvaluationTypeOK, Settle, Contradicted, OutcomeRow
    <2>3. CASE forecastRows' = forecastRows \cup {Candle(v)} /\ UNCHANGED outcomeRows
        BY <1>3, <2>3 DEF HistoryInv, EvaluationTypeOK
    <2> QED BY <2>1, <2>2, <2>3 DEF EvaluationWriteFails
<1>5. EvaluationTypeOK'
    BY <1>1, <1>2, <1>3, <1>4 DEF EvaluationTypeOK, WatcherRecord
<1> QED BY <1>1, <1>2, <1>4, <1>5 DEF HistoryInv

\* However the two tables are cut, the rebuilt history is a listing of the
\* restored outcomes that belong to restored forecasts.
LEMMA RestartInv == ASSUME HistoryInv, RestartEvaluation PROVE HistoryInv'
<1> DEFINE answered == {f \in forecasts' : outcomes'[f] # <<>>}
<1>1. UNCHANGED <<forecastRows, outcomeRows>> /\ evaluationFaults' \in 0..MaxEvaluationFaults
    <2>1. evaluationFaults \in 0..MaxEvaluationFaults
        BY DEF HistoryInv, EvaluationTypeOK
    <2>2. evaluationFaults < MaxEvaluationFaults /\ evaluationFaults' = evaluationFaults + 1
        BY DEF RestartEvaluation
    <2>3. evaluationFaults' \in 0..MaxEvaluationFaults
        BY <2>1, <2>2, EvaluationAssumption
    <2> QED BY <2>3 DEF RestartEvaluation, evaluationRows
<1>2. forecasts' \subseteq forecastRows
    BY DEF RestartEvaluation, RestoredForecasts, Newest
<1>3. /\ outcomes' \in [Forecasts -> OutcomeRow]
      /\ \A f \in Forecasts : outcomes'[f] # <<>> => outcomes'[f] = outcomeRows[f]
    <2>1. PICK kept \in Newest(Settled, [f \in Settled |-> outcomeRows[f][2]]) :
              outcomes' = [f \in Forecasts |-> IF f \in kept THEN outcomeRows[f] ELSE <<>>]
        BY DEF RestartEvaluation, RestoredOutcomes
    <2> QED BY <2>1 DEF HistoryInv, EvaluationTypeOK, OutcomeRow
<1>4. settled' \in SetToSeqs(answered)
    BY DEF RestartEvaluation, RebuiltHistories
<1>5. answered \subseteq Forecasts /\ IsFiniteSet(answered)
    <2>1. answered \subseteq Forecasts
        BY <1>2 DEF HistoryInv, EvaluationTypeOK
    <2> QED BY <2>1, ForecastsFinite, FS_Subset
<1>6. settled' \in Seq(Forecasts) /\ IsInjective(settled') /\ ToSet(settled') = answered
    <2> HIDE DEF answered
    <2>1. \A s \in SetToSeqs(answered) : s \in Seq(answered) /\ IsInjective(s) /\ ToSet(s) = answered
        BY <1>5, Listing
    <2>2. settled' \in Seq(answered) /\ IsInjective(settled') /\ ToSet(settled') = answered
        BY <1>4, <2>1
    <2> QED BY <1>5, <2>2, SeqMonotonic
<1>7. \A v \in Venues : /\ watcher'[v] \in WatcherRecord /\ watcher'[v].cohort = {}
                        /\ watcher'[v].step = "idle" /\ watcher'[v].period = watcher[v].period
    BY DEF RestartEvaluation, HistoryInv, EvaluationTypeOK, WatcherRecord
<1>8. watcher' \in [Venues -> WatcherRecord] /\ WatchersSound' /\ NoSecondForecast'
    BY <1>1, <1>7 DEF WatchersSound, NoSecondForecast, RestartEvaluation, HistoryInv
<1>9. EvaluationTypeOK'
    BY <1>1, <1>2, <1>3, <1>6, <1>8 DEF HistoryInv, EvaluationTypeOK, WatcherRecord
<1> QED BY <1>1, <1>2, <1>3, <1>6, <1>8, <1>9 DEF HistoryInv

LEMMA HistoryInitInv == ASSUME EvaluationInit PROVE HistoryInv
<1>1. EvaluationTypeOK
    <2>1. <<>> \in Seq(Forecasts) /\ <<>> \in OutcomeRow
        BY DEF OutcomeRow
    <2> QED BY <2>1, EvaluationAssumption DEF EvaluationInit, EvaluationTypeOK
<1>2. WatchersSound /\ NoSecondForecast
    BY DEF EvaluationInit, WatchersSound, NoSecondForecast
<1>3. IsInjective(<<>>) /\ ToSet(<<>>) = {}
    BY DEF IsInjective, ToSet
<1> QED BY <1>1, <1>2, <1>3 DEF EvaluationInit, HistoryInv

LEMMA HistoryStepInv == ASSUME HistoryInv, [EvaluationNext]_evaluationVars PROVE HistoryInv'
<1>1. CASE UNCHANGED evaluationVars
    BY <1>1 DEF evaluationVars, evaluationRows, evaluationMemory, HistoryInv, EvaluationTypeOK,
                WatchersSound, NoSecondForecast, Candle
<1> QED BY <1>1, ObserveInv, SaveOutcomesInv, RefusedInv, SaveForecastsInv, WriteFailsInv,
           RestartInv DEF EvaluationNext

\* Scorecards and the drift monitor read the durable evidence, each outcome
\* exactly once, for any number of venues, candles and faults
\* (agents/evaluation.py settle, initialize and _rebuild_settled_index).
THEOREM SettledHistory == EvaluationSpec => []SettledHistoryIsDurable
<1>1. HistoryInv => SettledHistoryIsDurable
    BY DEF HistoryInv, SettledHistoryIsDurable, EvaluationTypeOK
<1> QED BY <1>1, HistoryInitInv, HistoryStepInv, PTL DEF EvaluationSpec

\* save_agent_forecast_outcomes never replaces a stored outcome, although two
\* venues settle the same forecasts with different candles.
THEOREM StoredOutcomesAreFinal == EvaluationSpec => OutcomesAreFinal
<1> DEFINE Kept == \A f \in Forecasts : outcomeRows[f] # <<>> => outcomeRows'[f] = outcomeRows[f]
<1>1. ASSUME NEW v \in Venues, ~Contradicted(v), outcomeRows' = Settle(v, outcomeRows) PROVE Kept
    BY <1>1 DEF Contradicted, Settle
<1>2. [EvaluationNext]_evaluationVars => [Kept]_evaluationVars
    BY <1>1 DEF EvaluationNext, ObserveCandle, SaveOutcomes, OutcomesRefused, SaveForecasts,
                EvaluationWriteFails, RestartEvaluation, evaluationRows
<1> QED BY <1>2, PTL DEF EvaluationSpec, OutcomesAreFinal

-----------------------------------------------------------------------------
(* ShadowValidation: what a passed and a quiet campaign say *)

CampaignRecord ==
    [step : {"none", "baseline", "reconcile", "execute", "inspect", "persist", "finish", "report"},
     length : Nat, sequence : Nat, status : CheckpointStatuses \cup {"none"},
     outage : BOOLEAN, drift : BOOLEAN, accepted : BOOLEAN, executed : BOOLEAN,
     scenarios : SUBSET {"BROKER", "DATABASE"}, riskBefore : Nat, ordersListed : Nat,
     tradesBefore : Nat, ordersReal : Nat, riskAfter : Nat]

\* The status an undisturbed checkpoint has.
Expected(n, i) == IF Scenario(n, i) = "none" THEN "EXECUTED" ELSE "SUSPENDED_SAFE_DEGRADATION"
ExpectedRows(n, m) == {[sequence |-> i, status |-> Expected(n, i)] : i \in 1..m}
Seen(n, m) == {Scenario(n, i) : i \in 1..m} \ {"none"}

\* The checkpoints saved, and those inspected, so far.
Saved == IF campaign.step \in {"finish", "report"} THEN campaign.length
         ELSE IF campaign.step \in {"none", "baseline"} THEN 0 ELSE campaign.sequence - 1
Inspected == IF campaign.step = "persist" THEN campaign.sequence ELSE Saved

AtCheckpoint == {"reconcile", "execute", "inspect", "persist"}
AfterBaseline == AtCheckpoint \cup {"finish", "report"}
Blocked == {"BLOCKED_RECONCILIATION", "BLOCKED_RISK"}

\* A checkpoint under way, and the outage injected at it.
CheckpointSound ==
    /\ campaign.step # "none" => campaign.length >= 3
    /\ campaign.step \in AtCheckpoint => campaign.sequence \in 1..campaign.length
    /\ campaign.step \in {"baseline", "reconcile"} => ~campaign.outage
    /\ campaign.step = "baseline" => campaign.scenarios = {}
    /\ campaign.step \in {"execute", "inspect", "persist"} =>
          campaign.outage = (Scenario(campaign.length, campaign.sequence) # "none")
    /\ campaign.step = "inspect" =>
          campaign.status \in Blocked \cup {Expected(campaign.length, campaign.sequence)}
    /\ campaign.step = "persist" /\ campaign.accepted =>
          campaign.status = Expected(campaign.length, campaign.sequence)
    /\ campaign.step \in AfterBaseline => campaign.ordersListed = Listed(campaign.ordersReal)

\* While every checkpoint was accepted, the rows are the expected ones.
RowsExpected ==
    /\ campaign.step = "none" /\ report.status = "none" => checkpointRows = {}
    /\ campaign.step # "none" /\ campaign.accepted =>
          checkpointRows = ExpectedRows(campaign.length, Saved)

\* Nothing happened so far.
Quiet ==
    /\ ~killed
    /\ campaign.step # "none" => campaign.accepted /\ ~campaign.drift /\ risk = campaign.riskBefore
    /\ campaign.step \in AfterBaseline =>
          /\ orders = campaign.ordersReal /\ trades = campaign.tradesBefore
          /\ campaign.scenarios = Seen(campaign.length, Inspected)
    /\ campaign.step \in {"inspect", "persist"} =>
          campaign.status = Expected(campaign.length, campaign.sequence)
    /\ campaign.step \in {"finish", "report"} =>
          campaign.status = Expected(campaign.length, campaign.length)
    /\ campaign.step = "report" => campaign.riskAfter = risk

ShadowInv ==
    /\ orders \in Nat /\ trades \in Nat /\ risk \in Nat /\ killed \in BOOLEAN /\ disturbances \in Nat
    /\ campaign \in CampaignRecord
    /\ report.status # "none" => campaign.step = "none"
    /\ CheckpointSound /\ RowsExpected
    /\ disturbances = 0 => Quiet
    /\ PassedMeansUntouched /\ QuietCampaignPasses

LEMMA ScenarioType ==
    ASSUME NEW n, NEW i PROVE Scenario(n, i) \in {"BROKER", "DATABASE", "none"}
    BY DEF Scenario

\* The two outages fall on different checkpoints, and on the last one only in
\* a campaign of three.
LEMMA ScheduleFacts ==
    ASSUME NEW n \in Nat, n >= 3
    PROVE  /\ Seen(n, n) = {"BROKER", "DATABASE"}
           /\ n # 3 => Scenario(n, n) = "none"
<1> DEFINE a == n \div 3 + 1
           b == (2 * n) \div 3 + 1
<1>1. a \in 1..n /\ b \in 1..n /\ a # b /\ (n # 3 => a # n /\ b # n)
    OBVIOUS
<1> HIDE DEF a, b
<1>2. \A i \in 1..n : Scenario(n, i) = IF i = a THEN "BROKER" ELSE IF i = b THEN "DATABASE" ELSE "none"
    BY DEF Scenario, a, b
<1>3. Scenario(n, a) = "BROKER" /\ Scenario(n, b) = "DATABASE"
    BY <1>1, <1>2
<1>4. Seen(n, n) = {"BROKER", "DATABASE"}
    BY <1>1, <1>3, ScenarioType DEF Seen
<1>5. n # 3 => Scenario(n, n) = "none"
    BY <1>1, <1>2
<1> QED BY <1>4, <1>5

LEMMA ListedFacts ==
    ASSUME NEW m \in Nat, NEW n \in Nat, Listed(m) = Listed(n), Listed(m) < OrderListLimit
    PROVE  m = n
    BY ShadowAssumption DEF Listed

LEMMA ShadowInitInv == ASSUME ShadowInit PROVE ShadowInv
<1>1. campaign \in CampaignRecord /\ campaign.step = "none"
    BY DEF ShadowInit, NoCampaign, CampaignRecord
<1>2. /\ orders \in Nat /\ trades \in Nat /\ risk \in Nat /\ killed = FALSE /\ disturbances \in Nat
      /\ report.status = "none" /\ checkpointRows = {}
    BY ShadowAssumption DEF ShadowInit, NoReport
<1> QED BY <1>1, <1>2 DEF ShadowInv, CheckpointSound, RowsExpected, Quiet, AtCheckpoint,
           AfterBaseline, PassedMeansUntouched, QuietCampaignPasses

\* While a campaign runs, or none has run, there is no report to speak about.
LEMMA NoReportYet ==
    ASSUME ShadowInv, report.status = "none", report' = report
    PROVE  PassedMeansUntouched' /\ QuietCampaignPasses'
    BY DEF PassedMeansUntouched, QuietCampaignPasses

LEMMA StartInv == ASSUME ShadowInv, NEW n \in CampaignLengths, StartCampaign(n) PROVE ShadowInv'
<1>1. /\ campaign.step = "none" /\ report.status = "none" /\ n \in Nat /\ n >= 3
      /\ UNCHANGED <<orders, trades, risk, killed, disturbances, checkpointRows, report>>
    BY ShadowAssumption DEF StartCampaign, Step, system, NoReport
<1>2. /\ campaign' \in CampaignRecord /\ campaign'.step = "baseline" /\ campaign'.length = n
      /\ campaign'.riskBefore = risk /\ campaign'.accepted = TRUE /\ campaign'.drift = FALSE
      /\ campaign'.outage = FALSE /\ campaign'.scenarios = {}
    BY <1>1 DEF StartCampaign, Step, NoCampaign, CampaignRecord, ShadowInv
<1>3. ExpectedRows(n, 0) = {}
    BY DEF ExpectedRows
<1>4. CheckpointSound' /\ RowsExpected'
    BY <1>1, <1>2, <1>3 DEF ShadowInv, CheckpointSound, RowsExpected, Saved, AtCheckpoint, AfterBaseline
<1>5. disturbances' = 0 => Quiet'
    BY <1>1, <1>2 DEF ShadowInv, Quiet, AtCheckpoint, AfterBaseline
<1> QED BY <1>1, <1>2, <1>4, <1>5, NoReportYet DEF ShadowInv

LEMMA BaselineInv == ASSUME ShadowInv, ReadBaseline PROVE ShadowInv'
<1> DEFINE n == campaign.length
<1>1. /\ campaign.step = "baseline" /\ report.status = "none" /\ n \in Nat /\ n >= 3
      /\ UNCHANGED <<orders, trades, risk, killed, disturbances, checkpointRows, report>>
    BY DEF ReadBaseline, Step, system, ShadowInv, CheckpointSound, CampaignRecord
<1>2. Listed(orders) \in Nat
    BY ShadowAssumption DEF Listed, ShadowInv
<1>3. /\ campaign' \in CampaignRecord /\ campaign'.step = "reconcile" /\ campaign'.length = n
      /\ campaign'.riskBefore = campaign.riskBefore /\ campaign'.accepted = campaign.accepted
      /\ campaign'.drift = campaign.drift /\ campaign'.ordersListed = Listed(orders)
      /\ campaign'.ordersReal = orders /\ campaign'.tradesBefore = trades /\ campaign'.sequence = 1
      /\ campaign'.outage = campaign.outage /\ campaign'.scenarios = campaign.scenarios
    BY <1>1, <1>2 DEF ReadBaseline, Step, CampaignRecord, ShadowInv
<1> HIDE DEF n
<1>4. CheckpointSound'
    BY <1>1, <1>3 DEF ShadowInv, CheckpointSound, AtCheckpoint, AfterBaseline, Listed
<1>5. RowsExpected'
    BY <1>1, <1>3 DEF ShadowInv, RowsExpected, Saved, n
<1>6. disturbances' = 0 => Quiet'
    <2>1. Seen(n, 0) = {}
        BY DEF Seen
    <2> QED BY <1>1, <1>3, <2>1 DEF ShadowInv, CheckpointSound, Quiet, AfterBaseline, AtCheckpoint,
            Inspected, Saved
<1> QED BY <1>1, <1>3, <1>4, <1>5, <1>6, NoReportYet DEF ShadowInv

\* The fields of the campaign that most steps leave alone.
Fixed == <<campaign.length, campaign.riskBefore, campaign.ordersListed, campaign.tradesBefore,
           campaign.ordersReal>>

LEMMA ReconcileInv == ASSUME ShadowInv, ReconcileCheckpoint PROVE ShadowInv'
<1> DEFINE n == campaign.length
           k == campaign.sequence
<1>1. /\ campaign.step = "reconcile" /\ report.status = "none" /\ n \in Nat /\ k \in Nat
      /\ UNCHANGED <<orders, trades, risk, killed, checkpointRows, report>>
    BY DEF ReconcileCheckpoint, Step, ShadowInv, CampaignRecord
<1>2. PICK drift \in BOOLEAN :
         campaign' = [[campaign EXCEPT !.drift = drift,
                                       !.outage = @ \/ Scenario(n, k) # "none"]
                         EXCEPT !.step = "execute"]
    BY DEF ReconcileCheckpoint, Step
<1>3. campaign.outage = FALSE
    BY <1>1 DEF ShadowInv, CheckpointSound, CampaignRecord
<1>4. /\ campaign' \in CampaignRecord /\ campaign'.step = "execute" /\ UNCHANGED Fixed
      /\ campaign'.sequence = k /\ campaign'.drift = drift /\ campaign'.accepted = campaign.accepted
      /\ campaign'.scenarios = campaign.scenarios
    BY <1>2 DEF ShadowInv, CampaignRecord, Fixed
<1>5. campaign'.outage = (Scenario(n, k) # "none")
    BY <1>2, <1>3 DEF ShadowInv, CampaignRecord
<1>6. disturbances' \in Nat /\ (disturbances' = 0 => disturbances = 0 /\ campaign'.drift = FALSE)
    BY <1>4 DEF ReconcileCheckpoint, ShadowInv
<1> HIDE DEF n, k
<1>7. CheckpointSound'
    BY <1>1, <1>4, <1>5 DEF ShadowInv, CheckpointSound, AtCheckpoint, AfterBaseline, Fixed, n, k
<1>8. RowsExpected'
    BY <1>1, <1>4 DEF ShadowInv, RowsExpected, Saved, Fixed, n, k
<1>9. disturbances' = 0 => Quiet'
    BY <1>1, <1>4, <1>6 DEF ShadowInv, Quiet, AtCheckpoint, AfterBaseline, Inspected, Saved, Fixed, n, k
<1> QED BY <1>1, <1>4, <1>6, <1>7, <1>8, <1>9, NoReportYet DEF ShadowInv

LEMMA ExecuteInv == ASSUME ShadowInv, ExecuteCohort PROVE ShadowInv'
<1> DEFINE n == campaign.length
           k == campaign.sequence
           status == IF campaign.drift THEN "BLOCKED_RECONCILIATION"
                     ELSE IF killed THEN "BLOCKED_RISK"
                     ELSE IF campaign.outage THEN "SUSPENDED_SAFE_DEGRADATION" ELSE "EXECUTED"
<1>1. /\ campaign.step = "execute" /\ report.status = "none" /\ n \in Nat /\ k \in Nat
      /\ UNCHANGED <<orders, trades, risk, killed, disturbances, checkpointRows, report>>
    BY DEF ExecuteCohort, Step, system, ShadowInv, CampaignRecord
<1>2. /\ status \in CheckpointStatuses /\ status \in Blocked \cup {Expected(n, k)}
      /\ ~campaign.drift /\ ~killed => status = Expected(n, k)
    BY <1>1 DEF CheckpointStatuses, Blocked, Expected, ShadowInv, CheckpointSound
<1>3. campaign' = [[campaign EXCEPT !.status = status] EXCEPT !.step = "inspect"]
    BY DEF ExecuteCohort, Step
<1> HIDE DEF status
<1>4. /\ campaign' \in CampaignRecord /\ campaign'.step = "inspect" /\ UNCHANGED Fixed
      /\ campaign'.sequence = k /\ campaign'.drift = campaign.drift
      /\ campaign'.accepted = campaign.accepted /\ campaign'.outage = campaign.outage
      /\ campaign'.scenarios = campaign.scenarios /\ campaign'.status = status
    BY <1>2, <1>3 DEF ShadowInv, CampaignRecord, Fixed
<1> HIDE DEF n, k
<1>5. CheckpointSound'
    BY <1>1, <1>2, <1>4 DEF ShadowInv, CheckpointSound, AtCheckpoint, AfterBaseline, Fixed, n, k
<1>6. RowsExpected'
    BY <1>1, <1>4 DEF ShadowInv, RowsExpected, Saved, Fixed, n, k
<1>7. disturbances' = 0 => Quiet'
    BY <1>1, <1>2, <1>4 DEF ShadowInv, Quiet, AtCheckpoint, AfterBaseline, Inspected, Saved, Fixed, n, k
<1> QED BY <1>1, <1>4, <1>5, <1>6, <1>7, NoReportYet DEF ShadowInv

LEMMA OneMore ==
    ASSUME NEW n \in Nat, NEW k \in Nat \ {0}
    PROVE  /\ Seen(n, k) = Seen(n, k - 1) \cup ({Scenario(n, k)} \ {"none"})
           /\ ExpectedRows(n, k) = ExpectedRows(n, k - 1)
                                      \cup {[sequence |-> k, status |-> Expected(n, k)]}
<1>1. 1..k = (1..k - 1) \cup {k}
    OBVIOUS
<1> QED BY <1>1 DEF Seen, ExpectedRows

LEMMA InspectInv == ASSUME ShadowInv, InspectCheckpoint PROVE ShadowInv'
<1> DEFINE n == campaign.length
           k == campaign.sequence
           scenario == Scenario(n, k)
           more == IF scenario # "none" /\ campaign.status # "EXECUTED"
                   THEN campaign.scenarios \cup {scenario} ELSE campaign.scenarios
<1>1. /\ campaign.step = "inspect" /\ report.status = "none" /\ n \in Nat /\ k \in Nat \ {0}
      /\ UNCHANGED <<orders, trades, risk, killed, checkpointRows, report>>
    BY DEF InspectCheckpoint, Step, ShadowInv, CampaignRecord, CheckpointSound, AtCheckpoint
<1>2. PICK agentsFine \in BOOLEAN :
         /\ disturbances' = disturbances + (IF agentsFine THEN 0 ELSE 1)
         /\ campaign' = [[campaign EXCEPT
                !.accepted = @ /\ agentsFine /\ Untouched(campaign) /\ campaign.status \notin Blocked,
                !.executed = @ \/ campaign.status = "EXECUTED",
                !.scenarios = more] EXCEPT !.step = "persist"]
    BY DEF InspectCheckpoint, Step, Blocked
<1>3. more \in SUBSET {"BROKER", "DATABASE"}
    BY ScenarioType DEF ShadowInv, CampaignRecord
<1>4. /\ campaign' \in CampaignRecord /\ campaign'.step = "persist" /\ UNCHANGED Fixed
      /\ campaign'.sequence = k /\ campaign'.drift = campaign.drift
      /\ campaign'.outage = campaign.outage
      /\ campaign'.scenarios = more /\ campaign'.status = campaign.status
    <2> HIDE DEF more
    <2> QED BY <1>2, <1>3 DEF ShadowInv, CampaignRecord, Fixed
<1>5. /\ campaign'.accepted => campaign.accepted /\ campaign.status \notin Blocked
      /\ /\ campaign.accepted /\ agentsFine /\ Untouched(campaign) /\ campaign.status \notin Blocked
         => campaign'.accepted
    <2>1. campaign'.accepted = (campaign.accepted /\ agentsFine /\ Untouched(campaign)
                                   /\ campaign.status \notin Blocked)
        BY <1>2 DEF ShadowInv, CampaignRecord
    <2> QED BY <2>1
<1>6. disturbances' \in Nat /\ (disturbances' = 0 => disturbances = 0 /\ agentsFine)
    BY <1>2 DEF ShadowInv
<1>7. CheckpointSound'
    <2> HIDE DEF more
    <2> QED BY <1>1, <1>4, <1>5
            DEF ShadowInv, CheckpointSound, AtCheckpoint, AfterBaseline, Fixed
<1>8. RowsExpected'
    <2> HIDE DEF more
    <2> QED BY <1>1, <1>4, <1>5 DEF ShadowInv, RowsExpected, Saved, Fixed
<1>9. disturbances' = 0 => Quiet'
    <2> SUFFICES ASSUME disturbances' = 0 PROVE Quiet'
        OBVIOUS
    <2>1. Quiet /\ agentsFine
        BY <1>6 DEF ShadowInv
    <2>2. campaign.status = Expected(n, k) /\ campaign.status \notin Blocked /\ Untouched(campaign)
        BY <1>1, <2>1 DEF Quiet, Expected, Blocked, Untouched, ShadowInv, CheckpointSound,
                          AtCheckpoint, AfterBaseline
    <2>3. more = Seen(n, k)
        <3>1. campaign.scenarios = Seen(n, k - 1)
            BY <1>1, <2>1 DEF Quiet, Inspected, Saved, AtCheckpoint, AfterBaseline
        <3>2. Seen(n, k) = Seen(n, k - 1) \cup ({scenario} \ {"none"})
            BY <1>1, OneMore
        <3> QED BY <2>2, <3>1, <3>2 DEF Expected
    <2>4. campaign'.accepted
        BY <1>1, <1>5, <2>1, <2>2 DEF Quiet
    <2> HIDE DEF more
    <2> QED BY <1>1, <1>4, <2>1, <2>2, <2>3, <2>4
            DEF Quiet, AtCheckpoint, AfterBaseline, Inspected, Fixed
<1> QED BY <1>1, <1>4, <1>6, <1>7, <1>8, <1>9, NoReportYet DEF ShadowInv

LEMMA PersistInv == ASSUME ShadowInv, PersistCheckpoint PROVE ShadowInv'
<1> DEFINE n == campaign.length
           k == campaign.sequence
           last == k = n
           next == IF last THEN k ELSE k + 1
           step == IF last THEN "finish" ELSE "reconcile"
<1>1. /\ campaign.step = "persist" /\ report.status = "none" /\ n \in Nat /\ k \in 1..n
      /\ UNCHANGED <<orders, trades, risk, killed, disturbances, report>>
    BY DEF PersistCheckpoint, Step, system, ShadowInv, CampaignRecord, CheckpointSound, AtCheckpoint
<1>2. /\ campaign' = [[campaign EXCEPT !.sequence = next, !.outage = FALSE] EXCEPT !.step = step]
      /\ checkpointRows' = checkpointRows \cup {[sequence |-> k, status |-> campaign.status]}
    BY <1>1 DEF PersistCheckpoint, Step, InsertCheckpoint, ShadowInv, CampaignRecord
<1>3. next \in Nat /\ step \in {"finish", "reconcile"} /\ (step = "finish" <=> k = n)
      /\ (step = "reconcile" => next = k + 1 /\ next \in 1..n) /\ (step = "finish" => next = n)
    BY <1>1
<1> HIDE DEF next, step
<1>4. /\ campaign' \in CampaignRecord /\ campaign'.step = step /\ UNCHANGED Fixed
      /\ campaign'.sequence = next /\ campaign'.drift = campaign.drift
      /\ campaign'.accepted = campaign.accepted /\ campaign'.outage = FALSE
      /\ campaign'.scenarios = campaign.scenarios /\ campaign'.status = campaign.status
    BY <1>2, <1>3 DEF ShadowInv, CampaignRecord, Fixed
<1>5. Saved' = k /\ Inspected' = k /\ Saved = k - 1 /\ Inspected = k
    BY <1>1, <1>3, <1>4 DEF Saved, Inspected, Fixed
<1>6. CheckpointSound'
    BY <1>1, <1>3, <1>4 DEF ShadowInv, CheckpointSound, AtCheckpoint, AfterBaseline, Fixed
<1>7. RowsExpected'
    <2>1. campaign.accepted => checkpointRows' = ExpectedRows(n, k)
        <3>1. campaign.accepted => campaign.status = Expected(n, k)
            BY <1>1 DEF ShadowInv, CheckpointSound
        <3>2. campaign.accepted => checkpointRows = ExpectedRows(n, k - 1)
            BY <1>1, <1>5 DEF ShadowInv, RowsExpected
        <3>3. ExpectedRows(n, k) = ExpectedRows(n, k - 1) \cup {[sequence |-> k, status |-> Expected(n, k)]}
            BY <1>1, OneMore
        <3> QED BY <1>2, <3>1, <3>2, <3>3
    <2> QED BY <1>3, <1>4, <1>5, <2>1 DEF RowsExpected, Fixed
<1>8. disturbances' = 0 => Quiet'
    BY <1>1, <1>3, <1>4, <1>5 DEF ShadowInv, Quiet, AtCheckpoint, AfterBaseline, Fixed
<1> QED BY <1>1, <1>4, <1>6, <1>7, <1>8, NoReportYet DEF ShadowInv

LEMMA FinishCampaignInv == ASSUME ShadowInv, FinishCampaign PROVE ShadowInv'
<1>1. /\ campaign.step = "finish" /\ report.status = "none"
      /\ UNCHANGED <<orders, trades, risk, killed, disturbances, checkpointRows, report>>
    BY DEF FinishCampaign, Step, system, ShadowInv
<1>2. /\ campaign' \in CampaignRecord /\ campaign'.step = "report" /\ UNCHANGED Fixed
      /\ campaign'.drift = campaign.drift /\ campaign'.riskAfter = risk
      /\ campaign'.accepted = campaign.accepted
      /\ campaign'.scenarios = campaign.scenarios /\ campaign'.status = campaign.status
    BY DEF FinishCampaign, Step, ShadowInv, CampaignRecord, Fixed
<1>3. Saved' = Saved /\ Inspected' = Inspected
    BY <1>1, <1>2 DEF Saved, Inspected, Fixed
<1>4. CheckpointSound'
    BY <1>1, <1>2 DEF ShadowInv, CheckpointSound, AtCheckpoint, AfterBaseline, Fixed
<1>5. RowsExpected'
    BY <1>1, <1>2, <1>3 DEF ShadowInv, RowsExpected, Fixed
<1>6. disturbances' = 0 => Quiet'
    BY <1>1, <1>2, <1>3 DEF ShadowInv, Quiet, AtCheckpoint, AfterBaseline, Fixed
<1> QED BY <1>1, <1>2, <1>4, <1>5, <1>6, NoReportYet DEF ShadowInv

LEMMA NoCampaignFacts == NoCampaign \in CampaignRecord /\ NoCampaign.step = "none"
    BY DEF NoCampaign, CampaignRecord

LEMMA SaveReportInv == ASSUME ShadowInv, SaveReport PROVE ShadowInv'
<1> DEFINE n == campaign.length
<1>1. /\ campaign.step = "report" /\ campaign' = NoCampaign /\ n \in Nat /\ n >= 3
      /\ UNCHANGED <<orders, trades, risk, killed, checkpointRows>>
      /\ disturbances' \in Nat /\ (disturbances' = 0 => disturbances = 0)
    BY DEF SaveReport, ShadowInv, CheckpointSound, CampaignRecord
<1>2. /\ report'.status = IF CampaignPasses(campaign) THEN "PASSED" ELSE "FAILED"
      /\ report'.length = n /\ report'.listed = campaign.ordersListed
      /\ report'.newOrders = orders - campaign.ordersReal
      /\ report'.newTrades = trades - campaign.tradesBefore
      /\ report'.newRisk = campaign.riskAfter - campaign.riskBefore
      /\ report'.scenarios = campaign.scenarios
    BY DEF SaveReport
<1>3. campaign' \in CampaignRecord /\ campaign'.step = "none"
    BY <1>1, NoCampaignFacts
<1>4. CheckpointSound' /\ RowsExpected'
    BY <1>2, <1>3 DEF CheckpointSound, RowsExpected, AtCheckpoint, AfterBaseline
<1>5. disturbances' = 0 => Quiet'
    BY <1>1, <1>3 DEF ShadowInv, Quiet, AtCheckpoint, AfterBaseline
<1>6. PassedMeansUntouched'
    <2> SUFFICES ASSUME report'.status = "PASSED", report'.listed < OrderListLimit
                 PROVE  /\ report'.newOrders = 0 /\ report'.newTrades = 0 /\ report'.newRisk = 0
                        /\ report'.scenarios = {"BROKER", "DATABASE"}
                        /\ checkpointRows' = ExpectedRows(n, n)
        BY <1>2 DEF PassedMeansUntouched, ExpectedRows, Expected
    <2>1. CampaignPasses(campaign)
        BY <1>2
    <2>2. /\ orders \in Nat /\ trades \in Nat /\ campaign.ordersReal \in Nat
          /\ campaign.tradesBefore \in Nat /\ campaign.riskAfter \in Nat /\ campaign.riskBefore \in Nat
        BY DEF ShadowInv, CampaignRecord
    <2>3. orders = campaign.ordersReal
        <3>1. Listed(orders) = Listed(campaign.ordersReal) /\ Listed(orders) < OrderListLimit
            BY <1>1, <1>2, <2>1 DEF CampaignPasses, ShadowInv, CheckpointSound, AfterBaseline
        <3> QED BY <2>2, <3>1, ListedFacts
    <2>4. trades = campaign.tradesBefore /\ campaign.riskAfter = campaign.riskBefore
        BY <2>1 DEF CampaignPasses
    <2>5. report'.scenarios = {"BROKER", "DATABASE"} /\ checkpointRows' = ExpectedRows(n, n)
        BY <1>1, <1>2, <2>1 DEF CampaignPasses, ShadowInv, RowsExpected, Saved
    <2> QED BY <1>2, <2>2, <2>3, <2>4, <2>5
<1>7. QuietCampaignPasses'
    <2> SUFFICES ASSUME disturbances' = 0, n # 3 PROVE CampaignPasses(campaign)
        BY <1>2 DEF QuietCampaignPasses
    <2>1. Quiet
        BY <1>1 DEF ShadowInv
    <2>2. /\ campaign.accepted /\ risk = campaign.riskBefore /\ campaign.riskAfter = risk
          /\ orders = campaign.ordersReal /\ trades = campaign.tradesBefore
          /\ campaign.scenarios = Seen(n, n) /\ campaign.status = Expected(n, n)
        BY <1>1, <2>1 DEF Quiet, Inspected, Saved, AfterBaseline
    <2>3. Listed(orders) = campaign.ordersListed
        BY <1>1, <2>2 DEF ShadowInv, CheckpointSound, AfterBaseline
    <2>4. Seen(n, n) = {"BROKER", "DATABASE"} /\ Expected(n, n) = "EXECUTED"
        BY <1>1, ScheduleFacts DEF Expected
    <2> QED BY <2>2, <2>3, <2>4 DEF CampaignPasses
<1> QED BY <1>1, <1>3, <1>4, <1>5, <1>6, <1>7 DEF ShadowInv

LEMMA DisturbedInv == ASSUME ShadowInv, CampaignAborts \/ SystemGoesOn PROVE ShadowInv'
<1>1. /\ report.status = "none" /\ report' = report /\ disturbances' = disturbances + 1
      /\ disturbances' \in Nat /\ disturbances' # 0
    BY DEF CampaignAborts, SystemGoesOn, ShadowInv
<1>2. orders' \in Nat /\ trades' \in Nat /\ risk' \in Nat /\ killed' \in BOOLEAN
    <2>1. orders \in Nat /\ trades \in Nat /\ risk \in Nat /\ killed \in BOOLEAN
        BY DEF ShadowInv
    <2>2. /\ orders' = orders \/ orders' = orders + 1
          /\ trades' = trades \/ trades' = trades + 1
          /\ risk' = risk \/ risk' = risk + 1
        BY DEF CampaignAborts, SystemGoesOn
    <2>3. killed' = killed \/ killed' = ~killed
        BY DEF CampaignAborts, SystemGoesOn
    <2>4. killed' \in BOOLEAN
        BY <2>1, <2>3
    <2>5. orders' \in Nat /\ trades' \in Nat /\ risk' \in Nat
        BY <2>1, <2>2
    <2> QED BY <2>4, <2>5
<1>3. CASE CampaignAborts
    <2>1. campaign' \in CampaignRecord /\ campaign'.step = "none" /\ checkpointRows' = {}
        BY <1>3, NoCampaignFacts DEF CampaignAborts
    <2>2. CheckpointSound' /\ RowsExpected'
        BY <2>1 DEF CheckpointSound, RowsExpected, AtCheckpoint, AfterBaseline
    <2> QED BY <1>1, <1>2, <2>1, <2>2, NoReportYet DEF ShadowInv
<1>4. CASE SystemGoesOn
    <2>1. campaign' = campaign /\ checkpointRows' = checkpointRows
        BY <1>4 DEF SystemGoesOn
    <2>2. CheckpointSound' /\ RowsExpected'
        BY <1>1, <2>1 DEF CheckpointSound, RowsExpected, ShadowInv, Saved
    <2> QED BY <1>1, <1>2, <2>1, <2>2, NoReportYet DEF ShadowInv
<1> QED BY <1>3, <1>4

LEMMA ShadowStepInv == ASSUME ShadowInv, [ShadowNext]_shadowVars PROVE ShadowInv'
<1>1. CASE UNCHANGED shadowVars
    BY <1>1 DEF shadowVars, system, ShadowInv, CheckpointSound, RowsExpected, Quiet, Saved, Inspected,
                PassedMeansUntouched, QuietCampaignPasses
<1> QED BY <1>1, StartInv, BaselineInv, ReconcileInv, ExecuteInv, InspectInv, PersistInv,
           FinishCampaignInv, SaveReportInv, DisturbedInv DEF ShadowNext

LEMMA ShadowInvariant == ShadowSpec => []ShadowInv
    BY ShadowInitInv, ShadowStepInv, PTL DEF ShadowSpec

\* A campaign passes only when no order, trade or risk change happened between
\* its baseline and its last count, whatever the running system does between
\* its awaits (shadow_validation/service.py _report).
THEOREM PassedCampaigns == ShadowSpec => []PassedMeansUntouched
<1>1. ShadowInv => PassedMeansUntouched
    BY DEF ShadowInv
<1> QED BY <1>1, ShadowInvariant, PTL

\* The schedule of fault_schedule lets an undisturbed campaign of any length
\* but three pass.
THEOREM QuietCampaigns == ShadowSpec => []QuietCampaignPasses
<1>1. ShadowInv => QuietCampaignPasses
    BY DEF ShadowInv
<1> QED BY <1>1, ShadowInvariant, PTL
=============================================================================
