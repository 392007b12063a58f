------------------------------ MODULE Backfill ------------------------------
(***************************************************************************)
(* One historical import: its job summary, its durable queue item, the     *)
(* workers that claim it under a lease, the raw pages they archive, the    *)
(* candles they store and the gaps they scan for (market_data/backfill.py, *)
(* backfill_worker.py, gaps.py, data_lake.py over repository.py).          *)
(*                                                                         *)
(* The queue row is fenced by leased_by; the job row is not, so a worker   *)
(* that lost its lease still writes it.  Each step between two database    *)
(* calls is an action; a worker may die or lose a call at any of them.  A  *)
(* failure the repository wraps as a DatabaseError sends it back to        *)
(* polling; one read is not wrapped and ends it.                           *)
(***************************************************************************)
EXTENDS Naturals, FiniteSets

CONSTANTS
    RangeLength,        \* candle close times in the requested range
    BackfillWorkers,
    MaxQueueAttempts,   \* max_attempts of the queue item
    MaxSubmits,         \* bound on the requests made for this import
    MaxStops            \* bound on workers that die or outlive their lease

ASSUME BackfillAssumption ==
    /\ MaxQueueAttempts \in Nat \ {0}
    /\ MaxSubmits \in Nat /\ MaxStops \in Nat
    /\ RangeLength \in Nat \ {0}

VARIABLES
    job,        \* historical_backfill_jobs: status and attempt_count
    queue,      \* backfill_queue_items: status, attempt_count, owner, expiry
    pages,      \* backfill_raw_pages: attempts with an archived page
    stored,     \* candle_observations of the range
    gapRows,    \* market_data_gaps: the OPEN ranges <<first, last>>
    importer,   \* what each worker is doing
    submits,    \* requests so far
    stops       \* history: workers that died or outlived their lease so far

backfillVars == <<job, queue, pages, stored, gapRows, importer, submits, stops>>

JobStates == {"NONE", "PENDING", "RUNNING", "COMPLETED", "PARTIAL", "FAILED", "BLOCKED"}
QueueStates == {"NONE", "PENDING", "LEASED", "RETRY", "COMPLETED", "DEAD_LETTER"}
ImportSteps == {"idle", "load", "start", "fetch", "save", "scan", "gaps", "resolve",
                "catalog", "finish", "ack", "ended"}
NoOwner == "none"

\* The tables with their CHECK constraints: exactly a leased item has an owner.
ImportRow == [status : JobStates, attempt : Nat]
QueueRow ==
    {q \in [status : QueueStates, attempts : 0..MaxQueueAttempts,
            owner : BackfillWorkers \cup {NoOwner, "departed"}, expired : BOOLEAN] :
        /\ (q.status = "LEASED") = (q.owner # NoOwner)
        /\ q.expired => q.status = "LEASED"}
RawPages == SUBSET (Nat \ {0})

\* Close times, in steps of the timeframe from the start of the range.
Slots == 1..RangeLength

\* A gap is identified by its range, ends included.
GapRanges == {g \in Slots \X Slots : g[1] <= g[2]}

IdleImporter == [step |-> "idle", attempt |-> 0, result |-> "NONE",
                 retryable |-> FALSE, batch |-> {}, missing |-> {}]

StopCounted == stops < MaxStops /\ stops' = stops + 1

BackfillInit ==
    /\ job = [status |-> "NONE", attempt |-> 0]
    /\ queue = [status |-> "NONE", attempts |-> 0, owner |-> NoOwner, expired |-> FALSE]
    /\ pages = {} /\ stored = {} /\ gapRows = {}
    /\ importer = [w \in BackfillWorkers |-> IdleImporter]
    /\ submits = 0 /\ stops = 0

Import(w, fields) ==
    importer' = [importer EXCEPT ![w] = [f \in DOMAIN @ |->
                    IF f \in DOMAIN fields THEN fields[f] ELSE @[f]]]

-----------------------------------------------------------------------------
(* HistoricalBackfillService.submit / submit_historical_backfill *)

\* The transaction: the job is pending and its item queued again, with a new
\* attempt budget after a dead letter.
QueuedAgain ==
    /\ job' = [job EXCEPT !.status = "PENDING"]
    /\ queue' = [status |-> "PENDING", owner |-> NoOwner, expired |-> FALSE,
                 attempts |-> IF queue.status = "DEAD_LETTER" THEN 0 ELSE queue.attempts]

\* A new or failed import is queued.  A completed job, a leased item, or a
\* pending or running job that has its queue item is left as it is.
SubmitBackfill ==
    /\ submits < MaxSubmits /\ submits' = submits + 1
    /\ job.status # "COMPLETED" /\ queue.status # "LEASED"
    /\ job.status \in {"PENDING", "RUNNING"} => queue.status = "NONE"
    /\ QueuedAgain
    /\ UNCHANGED <<pages, stored, gapRows, importer, stops>>

-----------------------------------------------------------------------------
(* claim_next_backfill *)

\* Mutant: expired leases are not taken over.
ImportWaiting == queue.status \in {"PENDING", "RETRY"}

ImportDue ==
    \/ queue.status \in {"PENDING", "RETRY"}
    \/ queue.status = "LEASED" /\ queue.expired

\* A worker that polls dead-letters exhausted items without another provider
\* call.
SweepExhausted ==
    /\ \E w \in BackfillWorkers : importer[w].step = "idle"
    /\ ImportDue /\ queue.attempts >= MaxQueueAttempts
    /\ queue' = [queue EXCEPT !.status = "DEAD_LETTER", !.owner = NoOwner, !.expired = FALSE]
    /\ job' = [job EXCEPT !.status = "FAILED"]
    /\ UNCHANGED <<pages, stored, gapRows, importer, submits, stops>>

ClaimBackfill(w) ==
    /\ importer[w].step = "idle"
    /\ ImportDue /\ queue.attempts < MaxQueueAttempts
    /\ queue' = [status |-> "LEASED", attempts |-> queue.attempts + 1,
                 owner |-> w, expired |-> FALSE]
    /\ job' = [job EXCEPT !.status = "RUNNING"]
    /\ Import(w, [step |-> "load"])
    /\ UNCHANGED <<pages, stored, gapRows, submits, stops>>

\* lease_seconds pass: a departed owner's lease always runs out, that of a
\* worker still busy with it only when the worker is slow.
ImportLeaseExpires ==
    /\ queue.status = "LEASED" /\ ~queue.expired
    /\ queue' = [queue EXCEPT !.expired = TRUE]
    /\ IF \E w \in BackfillWorkers : queue.owner = w /\ importer[w].step # "idle"
       THEN StopCounted ELSE UNCHANGED stops
    /\ UNCHANGED <<job, pages, stored, gapRows, importer, submits>>

-----------------------------------------------------------------------------
(* HistoricalBackfillService.run *)

\* The previous job row is read before it is overwritten: a completed import
\* is returned as it is.
LoadPrevious(w) ==
    /\ importer[w].step = "load"
    /\ IF job.status = "COMPLETED"
       THEN Import(w, [step |-> "ack", result |-> "COMPLETED", retryable |-> FALSE,
                       attempt |-> job.attempt])
       ELSE Import(w, [step |-> "start", attempt |-> job.attempt + 1])
    /\ UNCHANGED <<job, queue, pages, stored, gapRows, submits, stops>>

StartRun(w) ==
    /\ importer[w].step = "start"
    /\ job' = [status |-> "RUNNING", attempt |-> importer[w].attempt]
    /\ Import(w, [step |-> "fetch"])
    /\ UNCHANGED <<queue, pages, stored, gapRows, submits, stops>>

\* Clock gate, provider call and batch validation: an untrusted clock blocks,
\* a provider or quality failure fails (with or without retry).  A page is
\* archived under its attempt number before its candles count, so a run may
\* also fail after it; a second page for the same position violates the
\* lineage key and raises DatabaseError.
ArchivesPage(w) ==
    importer[w].attempt \notin pages /\ pages' = pages \cup {importer[w].attempt}

Fetch(w) ==
    /\ importer[w].step = "fetch"
    /\ \/ /\ Import(w, [step |-> "finish", result |-> "BLOCKED", retryable |-> TRUE])
          /\ UNCHANGED pages
       \/ /\ \E retry \in BOOLEAN :
                Import(w, [step |-> "finish", result |-> "FAILED", retryable |-> retry])
          /\ UNCHANGED pages \/ ArchivesPage(w)
       \/ /\ ArchivesPage(w)
          /\ \E batch \in SUBSET Slots : Import(w, [step |-> "save", batch |-> batch])
       \/ /\ importer[w].attempt \in pages
          /\ Import(w, IdleImporter)
          /\ UNCHANGED pages
    /\ UNCHANGED <<job, queue, stored, gapRows, submits, stops>>

SaveCandles(w) ==
    /\ importer[w].step = "save"
    /\ stored' = stored \cup importer[w].batch
    /\ Import(w, [step |-> "scan"])
    /\ UNCHANGED <<job, queue, pages, gapRows, submits, stops>>

\* Mutant: only the gaps known from an earlier scan are looked at.
ScanKnownGaps(w) ==
    /\ importer[w].step = "scan"
    /\ Import(w, [step |-> "gaps",
                  missing |-> {g \in gapRows : (g[1]..g[2]) \cap stored = {}}])
    /\ UNCHANGED <<job, queue, pages, stored, gapRows, submits, stops>>

\* detect_candle_gaps, on the grid of the timeframe: the whole range when
\* nothing is stored, otherwise what is missing before the first candle,
\* between two neighbours and after the last one.
DetectGaps(present, length) ==
    {g \in (1..length) \X (1..length) :
        /\ g[1] <= g[2] /\ (g[1]..g[2]) \cap present = {}
        /\ g[1] = 1 \/ g[1] - 1 \in present
        /\ g[2] = length \/ g[2] + 1 \in present}

\* GapService.scan: read the stored candles, then upsert the gaps found, then
\* resolve the other open ones.
ScanCandles(w) ==
    /\ importer[w].step = "scan"
    /\ Import(w, [step |-> "gaps", missing |-> DetectGaps(stored, RangeLength)])
    /\ UNCHANGED <<job, queue, pages, stored, gapRows, submits, stops>>

\* The read is not wrapped: like any unexpected error it fails the run.
ScanFails(w) ==
    /\ importer[w].step = "scan" /\ StopCounted
    /\ Import(w, [step |-> "finish", batch |-> {}, result |-> "FAILED", retryable |-> TRUE])
    /\ UNCHANGED <<job, queue, pages, stored, gapRows, submits>>

SaveGaps(w) ==
    /\ importer[w].step = "gaps"
    /\ gapRows' = gapRows \cup importer[w].missing
    /\ Import(w, [step |-> "resolve"])
    /\ UNCHANGED <<job, queue, pages, stored, submits, stops>>

ResolveGaps(w) ==
    /\ importer[w].step = "resolve"
    /\ gapRows' = gapRows \cap importer[w].missing
    /\ Import(w, [step |-> "catalog"])
    /\ UNCHANGED <<job, queue, pages, stored, submits, stops>>

\* The dataset of a run that fetched candles is catalogued, which may fail it;
\* otherwise the run is complete when the scan found no gap.
CatalogDataset(w) ==
    /\ importer[w].step = "catalog"
    /\ \/ Import(w, [step |-> "finish", batch |-> {}, missing |-> {},
                     result |-> IF importer[w].missing = {} THEN "COMPLETED" ELSE "PARTIAL",
                     retryable |-> importer[w].missing # {}])
       \/ /\ importer[w].batch # {}
          /\ \E retry \in BOOLEAN :
                Import(w, [step |-> "finish", batch |-> {}, missing |-> {},
                           result |-> "FAILED", retryable |-> retry])
    /\ UNCHANGED <<job, queue, pages, stored, gapRows, submits, stops>>

\* _finish: the whole job row is overwritten, lease or no lease.
FinishRun(w) ==
    /\ importer[w].step = "finish"
    /\ job' = [status |-> importer[w].result, attempt |-> importer[w].attempt]
    /\ Import(w, [step |-> "ack"])
    /\ UNCHANGED <<queue, pages, stored, gapRows, submits, stops>>

-----------------------------------------------------------------------------
(* finish_backfill_queue_item *)

OwnsLease(w) == queue.status = "LEASED" /\ queue.owner = w

\* The owner acknowledges, reschedules or dead-letters, and writes its result
\* to the job row again; a retry makes the job pending.
AckBackfill(w) ==
    LET result == importer[w].result
        retry == result # "COMPLETED" /\ importer[w].retryable
                 /\ queue.attempts < MaxQueueAttempts
    IN  /\ importer[w].step = "ack" /\ OwnsLease(w)
        /\ queue' = [queue EXCEPT !.owner = NoOwner, !.expired = FALSE,
                        !.status = IF result = "COMPLETED" THEN "COMPLETED"
                                   ELSE IF retry THEN "RETRY" ELSE "DEAD_LETTER"]
        /\ job' = [status |-> IF retry THEN "PENDING" ELSE result,
                   attempt |-> importer[w].attempt]
        /\ Import(w, IdleImporter)
        /\ UNCHANGED <<pages, stored, gapRows, submits, stops>>

\* "backfill lease ownership was lost"
AckRefused(w) ==
    /\ importer[w].step = "ack" /\ ~OwnsLease(w)
    /\ Import(w, IdleImporter)
    /\ UNCHANGED <<job, queue, pages, stored, gapRows, submits, stops>>

\* A restart after a crash, or a DatabaseError that ends the worker's turn: it
\* polls with nothing in hand.  (A restarted worker has a new id; as an idle
\* one it owns no lease either way until its next claim.)
ImporterStops(w) ==
    /\ importer[w].step # "idle" /\ StopCounted
    /\ Import(w, IdleImporter)
    /\ queue' = IF OwnsLease(w) THEN [queue EXCEPT !.owner = "departed"] ELSE queue
    /\ UNCHANGED <<job, pages, stored, gapRows, submits>>

\* load_historical_backfill_job is not wrapped and is called before the try:
\* its failure leaves HistoricalBackfillWorker.run, and the worker is gone
\* until its process is restarted.
LoadFails(w) ==
    /\ importer[w].step = "load" /\ StopCounted
    /\ Import(w, [step |-> "ended"])
    /\ queue' = IF OwnsLease(w) THEN [queue EXCEPT !.owner = "departed"] ELSE queue
    /\ UNCHANGED <<job, pages, stored, gapRows, submits>>

ImporterStep(w) ==
    \/ LoadPrevious(w) \/ StartRun(w) \/ Fetch(w) \/ SaveCandles(w)
    \/ ScanCandles(w) \/ SaveGaps(w) \/ ResolveGaps(w) \/ CatalogDataset(w)
    \/ FinishRun(w) \/ AckBackfill(w) \/ AckRefused(w)

BackfillNext ==
    \/ SubmitBackfill \/ SweepExhausted \/ ImportLeaseExpires
    \/ \E w \in BackfillWorkers : \/ ClaimBackfill(w) \/ ImporterStep(w)
                                \/ ImporterStops(w) \/ ScanFails(w) \/ LoadFails(w)

BackfillSpec == BackfillInit /\ [][BackfillNext]_backfillVars

\* A worker that has not ended polls for ever, steps end (HTTP timeouts), leases
\* run out.
BackfillFairness ==
    /\ WF_backfillVars(SweepExhausted) /\ WF_backfillVars(ImportLeaseExpires)
    /\ WF_backfillVars(\E w \in BackfillWorkers : ClaimBackfill(w))
    /\ \A w \in BackfillWorkers : WF_backfillVars(ImporterStep(w))

-----------------------------------------------------------------------------
(* Properties *)

BackfillTypeOK ==
    /\ job \in ImportRow /\ queue \in QueueRow
    /\ pages \in RawPages /\ stored \subseteq Slots /\ gapRows \subseteq GapRanges
    /\ importer \in [BackfillWorkers ->
          [step : ImportSteps, attempt : Nat, result : JobStates, retryable : BOOLEAN,
           batch : SUBSET Slots, missing : SUBSET GapRanges]]
    /\ submits \in 0..MaxSubmits /\ stops \in 0..MaxStops

\* Whoever wrote it, a COMPLETED job or queue item means that every candle of
\* the range is stored and that a raw page is archived ("raw-first"), also
\* after take-overs, late workers and resubmission.
CompletedMeansComplete ==
    (job.status = "COMPLETED" \/ queue.status = "COMPLETED") => stored = Slots /\ pages # {}

\* A queued import ends: completed, or dead-lettered within its attempts,
\* however many workers die on it, unless a failing read has ended them all.
EveryBackfillEnds ==
    (queue.status \in {"PENDING", "RETRY", "LEASED"})
        ~> (\/ queue.status \in {"COMPLETED", "DEAD_LETTER"}
            \/ \A w \in BackfillWorkers : importer[w].step = "ended")
=============================================================================
