-------------------------- MODULE MarketDataProofs --------------------------
(***************************************************************************)
(* Historical data, for any number of runners, importers and candles: a    *)
(* replay skips nothing, and an import that is called complete is.         *)
(***************************************************************************)
EXTENDS Replay, Backfill, WellFoundedInduction, TLAPS

-----------------------------------------------------------------------------
(* Replay: NoCandleSkipped alone is not inductive.  A runner writes its own *)
(* offset to the row, so what the runners remember must be emitted as well. *)

\* Every candle before a runner's position has been handed over.
RunnersAreBacked ==
    \A r \in Runners : runner[r].step # "idle" =>
        \A i \in 1..runner[r].offset : i \in emitted[runner[r].dataset]

ReplayInv == ReplayTypeOK /\ NoCandleSkipped /\ RunnersAreBacked

\* The initial state: no checkpoint, idle runners, nothing emitted.
LEMMA ReplayInitInv == ReplayInit => ReplayInv
BY ReplayAssumption
   DEF ReplayInit, ReplayInv, ReplayTypeOK, NoCandleSkipped, RunnersAreBacked, NoCheckpoint,
       IdleRunner, ReplayStatuses

\* BeginReplay takes over the offset of a checkpoint of the same dataset.
LEMMA BeginReplayInv ==
    ASSUME ReplayInv, NEW r \in Runners, NEW d \in Datasets, NEW reset \in BOOLEAN,
           BeginReplay(r, d, reset)
    PROVE  ReplayInv'
<1>1. ReplayTypeOK'
  BY ReplayAssumption DEF ReplayInv, ReplayTypeOK, BeginReplay
<1>2. NoCandleSkipped'
  BY DEF ReplayInv, NoCandleSkipped, BeginReplay
<1>3. RunnersAreBacked'
  BY ReplayAssumption
     DEF ReplayInv, ReplayTypeOK, NoCandleSkipped, RunnersAreBacked, BeginReplay
<1> QED BY <1>1, <1>2, <1>3 DEF ReplayInv

\* SaveCheckpoint writes a position that is backed; the last one ends the runner.
LEMMA SaveCheckpointInv ==
    ASSUME ReplayInv, NEW r \in Runners, SaveCheckpoint(r)
    PROVE  ReplayInv'
<1>1. ReplayTypeOK'
  BY ReplayAssumption
     DEF ReplayInv, ReplayTypeOK, SaveCheckpoint, StatusAt, ReplayStatuses, IdleRunner
<1>2. NoCandleSkipped'
  BY DEF ReplayInv, ReplayTypeOK, NoCandleSkipped, RunnersAreBacked, SaveCheckpoint
<1>3. RunnersAreBacked'
  BY DEF ReplayInv, ReplayTypeOK, RunnersAreBacked, SaveCheckpoint, StatusAt, IdleRunner
<1> QED BY <1>1, <1>2, <1>3 DEF ReplayInv

LEMMA SaveStartInv ==
    ASSUME ReplayInv, NEW r \in Runners, SaveStart(r)
    PROVE  ReplayInv'
<1>1. ReplayTypeOK'
  BY ReplayAssumption DEF ReplayInv, ReplayTypeOK, SaveStart, ReplayStatuses, IdleRunner
<1>2. NoCandleSkipped'
  BY DEF ReplayInv, ReplayTypeOK, NoCandleSkipped, RunnersAreBacked, SaveStart
<1>3. RunnersAreBacked'
  BY DEF ReplayInv, ReplayTypeOK, RunnersAreBacked, SaveStart, IdleRunner
<1> QED BY <1>1, <1>2, <1>3 DEF ReplayInv

LEMMA SaveFailsInv ==
    ASSUME ReplayInv, NEW r \in Runners, SaveFails(r)
    PROVE  ReplayInv'
<1>1. ReplayTypeOK'
  BY ReplayAssumption DEF ReplayInv, ReplayTypeOK, SaveFails, ReplayStatuses, IdleRunner
<1>2. NoCandleSkipped'
  BY DEF ReplayInv, ReplayTypeOK, NoCandleSkipped, RunnersAreBacked, SaveFails
<1>3. RunnersAreBacked'
  BY DEF ReplayInv, ReplayTypeOK, RunnersAreBacked, SaveFails, IdleRunner
<1> QED BY <1>1, <1>2, <1>3 DEF ReplayInv

\* EmitCandle advances a runner by the candle it hands over.
LEMMA EmitCandleInv ==
    ASSUME ReplayInv, NEW r \in Runners, EmitCandle(r)
    PROVE  ReplayInv'
<1>1. ReplayTypeOK'
  BY ReplayAssumption DEF ReplayInv, ReplayTypeOK, EmitCandle
<1>2. \A d \in Datasets : emitted[d] \subseteq emitted'[d]
  BY DEF ReplayInv, ReplayTypeOK, EmitCandle
<1>3. NoCandleSkipped'
  BY <1>2, ReplayAssumption DEF ReplayInv, ReplayTypeOK, NoCandleSkipped, EmitCandle
<1>4. RunnersAreBacked'
  BY <1>2, ReplayAssumption DEF ReplayInv, ReplayTypeOK, RunnersAreBacked, EmitCandle
<1> QED BY <1>1, <1>3, <1>4 DEF ReplayInv

\* EmitFails saves the last accounted position, whatever the callback did.
LEMMA EmitFailsInv ==
    ASSUME ReplayInv, NEW r \in Runners, EmitFails(r)
    PROVE  ReplayInv'
<1>1. ReplayTypeOK'
  BY ReplayAssumption DEF ReplayInv, ReplayTypeOK, EmitFails, ReplayStatuses, IdleRunner
<1>2. \A d \in Datasets : emitted[d] \subseteq emitted'[d]
  BY DEF ReplayInv, ReplayTypeOK, EmitFails
<1>3. NoCandleSkipped'
  BY <1>2 DEF ReplayInv, ReplayTypeOK, NoCandleSkipped, RunnersAreBacked, EmitFails
<1>4. RunnersAreBacked'
  BY <1>2 DEF ReplayInv, ReplayTypeOK, RunnersAreBacked, EmitFails, IdleRunner
<1> QED BY <1>1, <1>3, <1>4 DEF ReplayInv

\* A runner that dies leaves the row as it is.
LEMMA RunnerDiesInv ==
    ASSUME ReplayInv, NEW r \in Runners, RunnerDies(r)
    PROVE  ReplayInv'
BY ReplayAssumption
   DEF ReplayInv, ReplayTypeOK, NoCandleSkipped, RunnersAreBacked, RunnerDies, IdleRunner

\* Every step of a replay preserves the invariant.
LEMMA ReplayStepInv == ReplayInv /\ [ReplayNext]_replayVars => ReplayInv'
<1> SUFFICES ASSUME ReplayInv, [ReplayNext]_replayVars PROVE ReplayInv'
  OBVIOUS
<1>1. CASE ReplayNext
  <2>1. PICK r \in Runners :
            \/ \E d \in Datasets, reset \in BOOLEAN : BeginReplay(r, d, reset)
            \/ SaveStart(r) \/ SaveCheckpoint(r) \/ SaveFails(r)
            \/ EmitCandle(r) \/ EmitFails(r) \/ RunnerDies(r)
    BY <1>1 DEF ReplayNext
  <2> QED
    BY <2>1, BeginReplayInv, SaveStartInv, SaveCheckpointInv, SaveFailsInv, EmitCandleInv,
       EmitFailsInv, RunnerDiesInv
<1>2. CASE UNCHANGED replayVars
  BY <1>2 DEF replayVars, ReplayInv, ReplayTypeOK, NoCandleSkipped, RunnersAreBacked
<1> QED BY <1>1, <1>2

\* replay.py: rows, runners and offsets keep their types, an emitting runner is
\* never at the end of its dataset.
THEOREM ReplayTypeCorrect == ReplaySpec => []ReplayTypeOK
<1>1. ReplayInv => ReplayTypeOK
  BY DEF ReplayInv
<1> QED BY <1>1, ReplayInitInv, ReplayStepInv, PTL DEF ReplaySpec

\* replay.py and save_replay_checkpoint: whatever a resumed replay skips was
\* handed to a consumer, with any number of runners under one replay_id.
THEOREM ReplaySkipsNothing == ReplaySpec => []NoCandleSkipped
<1>1. ReplayInv => NoCandleSkipped
  BY DEF ReplayInv
<1> QED BY <1>1, ReplayInitInv, ReplayStepInv, PTL DEF ReplaySpec

-----------------------------------------------------------------------------
(* Backfill: what COMPLETED means *)

\* A set of numbers has a least one.
LEMMA LeastNumber ==
    ASSUME NEW S, S \subseteq Nat, S # {}
    PROVE  \E n \in S : \A m \in S : n <= m
<1>1. PICK n \in S : \A m \in S : ~(<<m, n>> \in OpToRel(<, Nat))
    BY NatLessThanWellFounded, WFMin
<1>2. \A m \in S : ~(m < n)
    BY <1>1 DEF OpToRel
<1> QED BY <1>2

\* A scan that reports no gap saw every candle: around a missing one there is a
\* stretch without candles that cannot be made longer.
LEMMA NoGapNothingMissing ==
    ASSUME NEW length \in Nat, NEW present, present \subseteq 1..length,
           DetectGaps(present, length) = {}
    PROVE  present = 1..length
<1> SUFFICES ASSUME NEW k \in 1..length, k \notin present PROVE FALSE
    OBVIOUS
<1> DEFINE A == {n \in 1..k : (n..k) \cap present = {}}
           B == {n \in k..length : n = length \/ n + 1 \in present}
<1>1. PICK a \in A : \A n \in A : a <= n
    <2>1. k \in A /\ A \subseteq Nat
        OBVIOUS
    <2> QED BY <2>1, LeastNumber
<1>2. PICK b \in B : \A n \in B : b <= n
    <2>1. length \in B /\ B \subseteq Nat
        OBVIOUS
    <2> QED BY <2>1, LeastNumber
<1>3. a = 1 \/ a - 1 \in present
    <2> SUFFICES ASSUME a # 1, a - 1 \notin present PROVE a - 1 \in A
        BY <1>1
    <2> QED BY <1>1
<1>4. \A p \in (a..b) : p \notin present
    <2> SUFFICES ASSUME NEW p \in a..b, p \in present PROVE FALSE
        OBVIOUS
    <2>1. p > k
        BY <1>1, <1>2
    <2>2. p - 1 \in B
        BY <2>1, <1>2
    <2> QED BY <2>2, <1>2
<1>5. <<a, b>> \in DetectGaps(present, length)
    BY <1>1, <1>2, <1>3, <1>4 DEF DetectGaps
<1> QED BY <1>5

ImporterRecord ==
    [step : ImportSteps, attempt : Nat, result : JobStates, retryable : BOOLEAN,
     batch : SUBSET Slots, missing : SUBSET GapRanges]

\* The import is done: nothing is missing and its raw page is there.
Archived == pages # {}
Done == stored = Slots /\ Archived

\* What a worker has in hand says the same, wherever it is in its run.
Backed(i) ==
    /\ i.step \in {"save", "scan", "gaps", "resolve", "catalog"} => Archived
    /\ i.step \in {"gaps", "resolve", "catalog"} /\ i.missing = {} => Done
    /\ i.step \in {"finish", "ack"} /\ i.result = "COMPLETED" => Done

BackfillInv ==
    /\ importer \in [BackfillWorkers -> ImporterRecord]
    /\ job \in ImportRow /\ "status" \in DOMAIN queue
    /\ stored \subseteq Slots
    /\ \A w \in BackfillWorkers : Backed(importer[w])
    /\ CompletedMeansComplete

\* Candles and pages only grow, so a worker that does nothing stays backed.
LEMMA OthersStayBacked ==
    ASSUME BackfillInv, NEW w \in BackfillWorkers, NEW i \in ImporterRecord,
           importer' = [importer EXCEPT ![w] = i], job' \in ImportRow, "status" \in DOMAIN queue',
           stored \subseteq stored', stored' \subseteq Slots, pages \subseteq pages',
           Backed(i)', CompletedMeansComplete'
    PROVE  BackfillInv'
<1>1. Done => Done'
    BY DEF Done, Archived
<1>2. Archived => Archived'
    BY DEF Archived
<1>3. \A v \in BackfillWorkers : Backed(importer[v])'
    BY <1>1, <1>2 DEF BackfillInv, Backed
<1>4. importer' \in [BackfillWorkers -> ImporterRecord]
    BY DEF BackfillInv
<1> QED BY <1>3, <1>4 DEF BackfillInv

\* The fields a step of a worker gives, over what it had.
Merged(r, fields) == [f \in DOMAIN r |-> IF f \in DOMAIN fields THEN fields[f] ELSE r[f]]

\* A worker whose new record is backed, and that completes nothing unbacked.
LEMMA WorkerStep ==
    ASSUME BackfillInv, NEW w \in BackfillWorkers, NEW fields, Import(w, fields),
           NEW r, r = importer[w], Merged(r, fields) \in ImporterRecord,
           job' \in ImportRow, "status" \in DOMAIN queue', stored \subseteq stored', stored' \subseteq Slots,
           pages \subseteq pages', Backed(Merged(r, fields))', CompletedMeansComplete'
    PROVE  BackfillInv'
<1>1. importer' = [importer EXCEPT ![w] = Merged(r, fields)]
    BY DEF Import, Merged
<1> HIDE DEF Merged
<1> QED BY <1>1, OthersStayBacked

LEMMA IdleBacked ==
    ASSUME NEW r \in ImporterRecord
    PROVE  Merged(r, IdleImporter) \in ImporterRecord /\ Merged(r, IdleImporter).step = "idle"
BY DEF Merged, ImporterRecord, ImportSteps, IdleImporter, JobStates

LEMMA IdleWorkerStep ==
    ASSUME BackfillInv, NEW w \in BackfillWorkers, Import(w, IdleImporter),
           job' \in ImportRow, "status" \in DOMAIN queue', stored' = stored, pages' = pages, CompletedMeansComplete'
    PROVE  BackfillInv'
<1>1. PICK r \in ImporterRecord : r = importer[w]
    BY DEF BackfillInv
<1>2. Merged(r, IdleImporter) \in ImporterRecord /\ Backed(Merged(r, IdleImporter))'
    BY IdleBacked DEF Backed
<1> QED BY <1>1, <1>2, WorkerStep DEF BackfillInv

\* Claiming, loading, starting: nothing is fetched yet.
LEMMA ClaimBackfillInv ==
    ASSUME BackfillInv, NEW w \in BackfillWorkers, ClaimBackfill(w)
    PROVE  BackfillInv'
<1>1. PICK r \in ImporterRecord : r = importer[w]
    BY DEF BackfillInv
<1> DEFINE i == Merged(r, [step |-> "load"])
<1>2. i \in ImporterRecord /\ i.step = "load"
    BY DEF Merged, ImporterRecord, ImportSteps
<1>3. Backed(i)'
    BY <1>2 DEF Backed
<1>4. job' \in ImportRow /\ stored' = stored /\ pages' = pages /\ CompletedMeansComplete'
    BY DEF ClaimBackfill, BackfillInv, ImportRow, JobStates, CompletedMeansComplete
<1> QED BY <1>1, <1>2, <1>3, <1>4, WorkerStep DEF ClaimBackfill, BackfillInv

LEMMA LoadPreviousInv ==
    ASSUME BackfillInv, NEW w \in BackfillWorkers, LoadPrevious(w)
    PROVE  BackfillInv'
<1>1. PICK r \in ImporterRecord : r = importer[w]
    BY DEF BackfillInv
<1>2. UNCHANGED <<job, queue, stored, pages>> /\ CompletedMeansComplete'
    BY DEF LoadPrevious, BackfillInv, CompletedMeansComplete
<1>3. PICK a \in Nat : a = job.attempt
    BY DEF BackfillInv, ImportRow
<1>4. CASE job.status = "COMPLETED"
    <2> DEFINE fields == [step |-> "ack", result |-> "COMPLETED", retryable |-> FALSE, attempt |-> a]
               i == Merged(r, fields)
    <2>1. i \in ImporterRecord
        BY DEF Merged, ImporterRecord, ImportSteps, JobStates
    <2>2. i.step = "ack"
        BY DEF Merged, ImporterRecord
    <2>3. Backed(i)'
        BY <1>2, <1>4, <2>2 DEF Backed, BackfillInv, CompletedMeansComplete, Done, Archived
    <2>4. Import(w, fields)
        BY <1>3, <1>4 DEF LoadPrevious
    <2> QED BY <1>1, <1>2, <2>1, <2>3, <2>4, WorkerStep DEF BackfillInv
<1>5. CASE job.status # "COMPLETED"
    <2> DEFINE fields == [step |-> "start", attempt |-> a + 1]
               i == Merged(r, fields)
    <2>1. i \in ImporterRecord /\ i.step = "start"
        BY DEF Merged, ImporterRecord, ImportSteps
    <2>2. Backed(i)'
        BY <2>1 DEF Backed
    <2>3. Import(w, fields)
        BY <1>3, <1>5 DEF LoadPrevious
    <2> QED BY <1>1, <1>2, <2>1, <2>2, <2>3, WorkerStep DEF BackfillInv
<1> QED BY <1>4, <1>5

LEMMA StartRunInv ==
    ASSUME BackfillInv, NEW w \in BackfillWorkers, StartRun(w)
    PROVE  BackfillInv'
<1>1. PICK r \in ImporterRecord : r = importer[w]
    BY DEF BackfillInv
<1> DEFINE i == Merged(r, [step |-> "fetch"])
<1>2. i \in ImporterRecord /\ i.step = "fetch"
    BY DEF Merged, ImporterRecord, ImportSteps
<1>3. Backed(i)'
    BY <1>2 DEF Backed
<1>4. job' \in ImportRow /\ stored' = stored /\ pages' = pages /\ CompletedMeansComplete'
    BY <1>1 DEF StartRun, BackfillInv, ImportRow, JobStates, CompletedMeansComplete, ImporterRecord
<1> QED BY <1>1, <1>2, <1>3, <1>4, WorkerStep DEF StartRun, BackfillInv

\* A page is archived before its candles are saved.
LEMMA FetchInv ==
    ASSUME BackfillInv, NEW w \in BackfillWorkers, Fetch(w)
    PROVE  BackfillInv'
<1>1. PICK r \in ImporterRecord : r = importer[w]
    BY DEF BackfillInv
<1>2. UNCHANGED <<job, queue, stored>> /\ pages \subseteq pages'
    BY DEF Fetch, ArchivesPage
<1>3. CompletedMeansComplete'
    BY <1>2 DEF BackfillInv, CompletedMeansComplete
<1>4. ASSUME NEW result \in {"BLOCKED", "FAILED"}, NEW retry \in BOOLEAN,
             Import(w, [step |-> "finish", result |-> result, retryable |-> retry])
      PROVE  BackfillInv'
    <2> DEFINE i == Merged(r, [step |-> "finish", result |-> result, retryable |-> retry])
    <2>1. i \in ImporterRecord
        BY DEF Merged, ImporterRecord, ImportSteps, JobStates
    <2>2. i.step = "finish" /\ i.result = result
        BY DEF Merged, ImporterRecord
    <2>3. Backed(i)'
        BY <2>2 DEF Backed
    <2> QED BY <1>1, <1>2, <1>3, <1>4, <2>1, <2>3, WorkerStep DEF BackfillInv
<1>5. ASSUME NEW batch \in SUBSET Slots, Import(w, [step |-> "save", batch |-> batch]),
             pages' = pages \cup {importer[w].attempt}
      PROVE  BackfillInv'
    <2> DEFINE i == Merged(r, [step |-> "save", batch |-> batch])
    <2>1. i \in ImporterRecord
        BY DEF Merged, ImporterRecord, ImportSteps
    <2>2. i.step = "save"
        BY DEF Merged, ImporterRecord
    <2>3. Archived'
        BY <1>5 DEF Archived
    <2>4. Backed(i)'
        BY <2>2, <2>3 DEF Backed
    <2> QED BY <1>1, <1>2, <1>3, <1>5, <2>1, <2>4, WorkerStep DEF BackfillInv
<1>6. CASE Import(w, IdleImporter) /\ UNCHANGED pages
    BY <1>2, <1>3, <1>6, IdleWorkerStep DEF BackfillInv
<1> QED BY <1>4, <1>5, <1>6 DEF Fetch, ArchivesPage

LEMMA SaveCandlesInv ==
    ASSUME BackfillInv, NEW w \in BackfillWorkers, SaveCandles(w)
    PROVE  BackfillInv'
<1>1. PICK r \in ImporterRecord : r = importer[w]
    BY DEF BackfillInv
<1> DEFINE i == Merged(r, [step |-> "scan"])
<1>2. i \in ImporterRecord /\ i.step = "scan"
    BY DEF Merged, ImporterRecord, ImportSteps
<1>3. UNCHANGED <<job, queue, pages>> /\ stored' = stored \cup r.batch /\ r.batch \subseteq Slots
      /\ r.step = "save"
    BY <1>1 DEF SaveCandles, ImporterRecord
<1>4. stored \subseteq stored' /\ stored' \subseteq Slots
    BY <1>3 DEF BackfillInv
<1>5. CompletedMeansComplete'
    BY <1>3, <1>4 DEF BackfillInv, CompletedMeansComplete
<1>6. Backed(r)
    BY <1>1 DEF BackfillInv
<1>7. Backed(i)'
    BY <1>2, <1>3, <1>6 DEF Backed, Archived
<1> QED BY <1>1, <1>2, <1>3, <1>4, <1>5, <1>7, WorkerStep DEF SaveCandles, BackfillInv

\* A scan that finds nothing has seen the whole range.
LEMMA ScanCandlesInv ==
    ASSUME BackfillInv, NEW w \in BackfillWorkers, ScanCandles(w)
    PROVE  BackfillInv'
<1>1. PICK r \in ImporterRecord : r = importer[w]
    BY DEF BackfillInv
<1>2. PICK missing \in SUBSET GapRanges : missing = DetectGaps(stored, RangeLength)
    BY DEF DetectGaps, GapRanges, Slots
<1> DEFINE i == Merged(r, [step |-> "gaps", missing |-> missing])
<1>3. i \in ImporterRecord
    BY DEF Merged, ImporterRecord, ImportSteps
<1>4. i.step = "gaps" /\ i.missing = missing
    BY DEF Merged, ImporterRecord
<1>5. UNCHANGED <<job, queue, stored, pages>> /\ Archived
    BY <1>1 DEF ScanCandles, BackfillInv, Backed
<1>6. missing = {} => stored = Slots
    BY <1>2, NoGapNothingMissing, BackfillAssumption DEF BackfillInv, Slots
<1>7. Backed(i)'
    BY <1>4, <1>5, <1>6 DEF Backed, Done, Archived
<1>8. CompletedMeansComplete'
    BY <1>5 DEF BackfillInv, CompletedMeansComplete
<1>9. Import(w, [step |-> "gaps", missing |-> missing])
    BY <1>2 DEF ScanCandles
<1> QED BY <1>1, <1>3, <1>5, <1>7, <1>8, <1>9, WorkerStep DEF BackfillInv

LEMMA GapRowsInv ==
    ASSUME BackfillInv, NEW w \in BackfillWorkers, SaveGaps(w) \/ ResolveGaps(w)
    PROVE  BackfillInv'
<1>1. PICK r \in ImporterRecord : r = importer[w]
    BY DEF BackfillInv
<1>2. PICK step \in {"resolve", "catalog"} : Import(w, [step |-> step])
    BY DEF SaveGaps, ResolveGaps
<1> DEFINE i == Merged(r, [step |-> step])
<1>3. i \in ImporterRecord
    BY DEF Merged, ImporterRecord, ImportSteps
<1>4. i.step = step /\ i.missing = r.missing
    BY DEF Merged, ImporterRecord
<1>5. UNCHANGED <<job, queue, stored, pages>> /\ Backed(r) /\ r.step \in {"gaps", "resolve"}
    BY <1>1 DEF SaveGaps, ResolveGaps, BackfillInv
<1>6. Backed(i)'
    BY <1>4, <1>5 DEF Backed, Done, Archived
<1>7. CompletedMeansComplete'
    BY <1>5 DEF BackfillInv, CompletedMeansComplete
<1> QED BY <1>1, <1>2, <1>3, <1>5, <1>6, <1>7, WorkerStep DEF BackfillInv

LEMMA CatalogDatasetInv ==
    ASSUME BackfillInv, NEW w \in BackfillWorkers, CatalogDataset(w)
    PROVE  BackfillInv'
<1>1. PICK r \in ImporterRecord : r = importer[w]
    BY DEF BackfillInv
<1>2. UNCHANGED <<job, queue, stored, pages>> /\ Backed(r) /\ r.step = "catalog"
    BY <1>1 DEF CatalogDataset, BackfillInv
<1>3. PICK result \in {"COMPLETED", "PARTIAL", "FAILED"}, retry \in BOOLEAN :
          /\ Import(w, [step |-> "finish", batch |-> {}, missing |-> {},
                        result |-> result, retryable |-> retry])
          /\ result = "COMPLETED" => r.missing = {}
    <2>1. (importer[w].missing # {}) \in BOOLEAN
        OBVIOUS
    <2> QED BY <1>1, <2>1 DEF CatalogDataset
<1> DEFINE i == Merged(r, [step |-> "finish", batch |-> {}, missing |-> {},
                           result |-> result, retryable |-> retry])
<1>4. i \in ImporterRecord
    BY DEF Merged, ImporterRecord, ImportSteps, JobStates
<1>5. i.step = "finish" /\ i.result = result
    BY DEF Merged, ImporterRecord
<1>6. Backed(i)'
    BY <1>2, <1>3, <1>5 DEF Backed, Done, Archived
<1>7. CompletedMeansComplete'
    BY <1>2 DEF BackfillInv, CompletedMeansComplete
<1> QED BY <1>1, <1>2, <1>3, <1>4, <1>6, <1>7, WorkerStep DEF BackfillInv

\* Lease or no lease: what is written to the job row is backed.
LEMMA FinishRunInv ==
    ASSUME BackfillInv, NEW w \in BackfillWorkers, FinishRun(w)
    PROVE  BackfillInv'
<1>1. PICK r \in ImporterRecord : r = importer[w]
    BY DEF BackfillInv
<1> DEFINE i == Merged(r, [step |-> "ack"])
<1>2. i \in ImporterRecord
    BY DEF Merged, ImporterRecord, ImportSteps
<1>3. i.step = "ack" /\ i.result = r.result
    BY DEF Merged, ImporterRecord
<1>4. /\ UNCHANGED <<queue, stored, pages>> /\ Backed(r) /\ r.step = "finish"
      /\ job' = [status |-> r.result, attempt |-> r.attempt]
    BY <1>1 DEF FinishRun, BackfillInv
<1>5. Backed(i)'
    BY <1>3, <1>4 DEF Backed, Done, Archived
<1>6. job' \in ImportRow
    BY <1>4 DEF ImportRow, ImporterRecord
<1>7. CompletedMeansComplete'
    BY <1>4 DEF BackfillInv, CompletedMeansComplete, Backed, Done, Archived
<1> QED BY <1>1, <1>2, <1>4, <1>5, <1>6, <1>7, WorkerStep DEF FinishRun, BackfillInv

LEMMA AckBackfillInv ==
    ASSUME BackfillInv, NEW w \in BackfillWorkers, AckBackfill(w)
    PROVE  BackfillInv'
<1>1. PICK r \in ImporterRecord : r = importer[w]
    BY DEF BackfillInv
<1>2. /\ UNCHANGED <<stored, pages>> /\ Backed(r) /\ r.step = "ack" /\ Import(w, IdleImporter)
    BY <1>1 DEF AckBackfill, BackfillInv
<1>3. PICK status \in {"PENDING", r.result} : job' = [status |-> status, attempt |-> r.attempt]
    BY <1>1 DEF AckBackfill
<1>4. queue'.status = "COMPLETED" => r.result = "COMPLETED"
    BY <1>1 DEF AckBackfill, OwnsLease
<1>5. job' \in ImportRow
    BY <1>3 DEF ImportRow, ImporterRecord, JobStates
<1>6. CompletedMeansComplete'
    BY <1>2, <1>3, <1>4 DEF CompletedMeansComplete, Backed, Done, Archived
<1>7. "status" \in DOMAIN queue'
    BY DEF AckBackfill, BackfillInv
<1> QED BY <1>2, <1>5, <1>6, <1>7, IdleWorkerStep

LEMMA ScanFailsInv ==
    ASSUME BackfillInv, NEW w \in BackfillWorkers, ScanFails(w)
    PROVE  BackfillInv'
<1>1. PICK r \in ImporterRecord : r = importer[w]
    BY DEF BackfillInv
<1> DEFINE fields == [step |-> "finish", batch |-> {}, result |-> "FAILED", retryable |-> TRUE]
           i == Merged(r, fields)
<1>2. i \in ImporterRecord
    BY DEF Merged, ImporterRecord, ImportSteps, JobStates
<1>3. i.step = "finish" /\ i.result = "FAILED"
    BY DEF Merged, ImporterRecord
<1>4. Backed(i)'
    BY <1>3 DEF Backed
<1>5. /\ UNCHANGED <<job, queue, stored, pages>> /\ CompletedMeansComplete'
      /\ Import(w, fields)
    BY DEF ScanFails, BackfillInv, CompletedMeansComplete
<1> QED BY <1>1, <1>2, <1>4, <1>5, WorkerStep DEF BackfillInv

LEMMA LoadFailsInv ==
    ASSUME BackfillInv, NEW w \in BackfillWorkers, LoadFails(w)
    PROVE  BackfillInv'
<1>1. PICK r \in ImporterRecord : r = importer[w]
    BY DEF BackfillInv
<1> DEFINE i == Merged(r, [step |-> "ended"])
<1>2. i \in ImporterRecord /\ i.step = "ended"
    BY DEF Merged, ImporterRecord, ImportSteps
<1>3. Backed(i)'
    BY <1>2 DEF Backed
<1>4. /\ UNCHANGED <<job, stored, pages>> /\ Import(w, [step |-> "ended"])
      /\ queue'.status = queue.status /\ "status" \in DOMAIN queue'
    BY DEF LoadFails, OwnsLease, BackfillInv
<1>5. CompletedMeansComplete'
    BY <1>4 DEF BackfillInv, CompletedMeansComplete
<1> QED BY <1>1, <1>2, <1>3, <1>4, <1>5, WorkerStep DEF BackfillInv

LEMMA ImporterEndsInv ==
    ASSUME BackfillInv, NEW w \in BackfillWorkers, AckRefused(w) \/ ImporterStops(w)
    PROVE  BackfillInv'
<1>1. UNCHANGED <<job, stored, pages>> /\ Import(w, IdleImporter)
    BY DEF AckRefused, ImporterStops
<1>2. queue'.status = queue.status /\ "status" \in DOMAIN queue'
    BY DEF AckRefused, ImporterStops, OwnsLease, BackfillInv
<1>3. CompletedMeansComplete'
    BY <1>1, <1>2 DEF BackfillInv, CompletedMeansComplete
<1> QED BY <1>1, <1>2, <1>3, IdleWorkerStep DEF BackfillInv

\* Steps without a worker complete nothing.
LEMMA QueueStepInv ==
    ASSUME BackfillInv, SubmitBackfill \/ SweepExhausted \/ ImportLeaseExpires \/ UNCHANGED backfillVars
    PROVE  BackfillInv'
<1>1. UNCHANGED <<importer, stored, pages>>
    BY DEF SubmitBackfill, SweepExhausted, ImportLeaseExpires, backfillVars
<1>2. /\ job' = job \/ job' = [job EXCEPT !.status = "PENDING"] \/ job' = [job EXCEPT !.status = "FAILED"]
    BY DEF SubmitBackfill, QueuedAgain, SweepExhausted, ImportLeaseExpires, backfillVars
<1>3. (queue'.status # "COMPLETED" \/ queue' = queue) /\ "status" \in DOMAIN queue'
    <2>1. CASE SubmitBackfill
        BY <2>1 DEF SubmitBackfill, QueuedAgain
    <2>2. CASE SweepExhausted
        BY <2>2 DEF SweepExhausted, BackfillInv
    <2>3. CASE ImportLeaseExpires
        BY <2>3 DEF ImportLeaseExpires, BackfillInv
    <2>4. CASE UNCHANGED backfillVars
        BY <2>4 DEF backfillVars, BackfillInv
    <2> QED BY <2>1, <2>2, <2>3, <2>4
<1>4. job' \in ImportRow
    BY <1>2 DEF BackfillInv, ImportRow, JobStates
<1>5. job'.status = "COMPLETED" => job.status = "COMPLETED"
    BY <1>2 DEF BackfillInv, ImportRow
<1>6. CompletedMeansComplete'
    BY <1>1, <1>3, <1>5 DEF BackfillInv, CompletedMeansComplete
<1>7. \A w \in BackfillWorkers : Backed(importer[w])'
    BY <1>1 DEF BackfillInv, Backed, Done, Archived
<1> QED BY <1>1, <1>3, <1>4, <1>6, <1>7 DEF BackfillInv

\* A COMPLETED job or queue item means that every candle of the range is stored
\* and a raw page archived, for any number of workers, take-overs and
\* resubmissions, and although the job row is not fenced by the lease
\* (market_data/backfill.py run and _finish, gaps.py detect_candle_gaps).
THEOREM CompletedIsComplete == BackfillSpec => []CompletedMeansComplete
<1>1. BackfillInit => BackfillInv
    BY DEF BackfillInit, BackfillInv, IdleImporter, ImporterRecord, ImportSteps, JobStates, ImportRow,
           Backed, CompletedMeansComplete
<1>2. BackfillInv /\ [BackfillNext]_backfillVars => BackfillInv'
    BY QueueStepInv, ClaimBackfillInv, LoadPreviousInv, StartRunInv, FetchInv, SaveCandlesInv,
       ScanCandlesInv, GapRowsInv, CatalogDatasetInv, FinishRunInv, AckBackfillInv, ImporterEndsInv,
       ScanFailsInv, LoadFailsInv
       DEF BackfillNext, ImporterStep
<1>3. BackfillInv => CompletedMeansComplete
    BY DEF BackfillInv
<1> QED BY <1>1, <1>2, <1>3, PTL DEF BackfillSpec
=============================================================================
