---------------------------- MODULE AgentRuntime ----------------------------
(***************************************************************************)
(* The durable agent queue (agents/runtime.py over repository.py): jobs of *)
(* one agent, claimed under a lease, run under the semaphore and the       *)
(* agent's lock, and finished in one transaction that appends the attempt, *)
(* its memory and the output.  Queue workers, AgentRuntimeWorker.run(),    *)
(* take any job and poll for ever; an inline caller is one execute(),      *)
(* which submits one job, reads its trace until it is terminal and claims  *)
(* only that job meanwhile.                                                *)
(*                                                                         *)
(* A worker's id is fresh for each life of it, so it is the pair of the    *)
(* worker and its epoch.  A worker may outlive its lease or die; a failed  *)
(* database call sends run() back to polling and ends execute(); a broker  *)
(* error ends both.  Each costs one of MaxTroubles.                        *)
(***************************************************************************)
EXTENDS Naturals, Sequences, FiniteSets

CONSTANTS
    Jobs,               \* requests, by fingerprint
    QueueWorkers,       \* lives of AgentRuntimeWorker.run()
    InlineCallers,      \* calls of execute()
    MaxAttempts,        \* registration.max_attempts
    MaxConcurrency,     \* permits of the runtime's semaphore
    MaxTroubles         \* bound on crashes, slow runs and database failures

ASSUME AgentAssumption ==
    /\ QueueWorkers \cap InlineCallers = {}
    /\ MaxAttempts \in Nat \ {0}
    /\ MaxConcurrency \in Nat \ {0}
    /\ MaxTroubles \in Nat

VARIABLES
    row,        \* agent_execution_jobs
    attemptLog, \* agent_execution_attempts, append-only
    memory,     \* agent_memory_entries: <<sequence, entry_type>>, append-only
    outputs,    \* agent_outputs rows per job
    worker,     \* what each worker is doing
    seen,       \* what each caller has read of the trace of its job
    agentState, \* the registry's view of the agent
    tenure,     \* history: claims of each job so far
    troubles    \* history: faults so far

agentVars == <<row, attemptLog, memory, outputs, worker, seen, agentState, tenure, troubles>>

AgentWorkers == QueueWorkers \cup InlineCallers

JobStatuses == {"NONE", "PENDING", "LEASED", "RETRY", "COMPLETED", "DEAD_LETTER"}
TerminalJob == {"COMPLETED", "DEAD_LETTER"}
AgentResults == {"COMPLETED", "SKIPPED", "FAILED", "TIMEOUT"}
BadResults == {"FAILED", "TIMEOUT"}
AgentStates == {"active", "disabled", "replaced"}
Reading == {"load", "loadAttempts", "loadMemory", "try"}
WorkerSteps == {"idle", "claimed", "permit", "lock", "run", "finish", "returned", "ended"}
                   \cup Reading
Nobody == <<>>
NoJob == "none"

IdleWorker(n) == [step |-> "idle", job |-> NoJob, attempt |-> 0, tenure |-> 0,
                  result |-> "FAILED", retryable |-> FALSE, epoch |-> n]
EndedWorker(n) == [IdleWorker(n) EXCEPT !.step = "ended"]
WorkerId(w) == <<w, worker[w].epoch>>

\* After an attempt run() polls again and execute() reads its job again; after
\* a database error run() polls again and execute() raises.
Looping(w) ==
    IF w \in QueueWorkers THEN IdleWorker(worker[w].epoch)
    ELSE [IdleWorker(worker[w].epoch) EXCEPT !.step = "load", !.job = worker[w].job]
Raised(w) ==
    IF w \in QueueWorkers THEN IdleWorker(worker[w].epoch) ELSE EndedWorker(worker[w].epoch)
At(steps) == {w \in AgentWorkers : worker[w].step \in steps}

\* The tables with their CHECK constraints: exactly a leased job has an owner
\* and an expiry, and at least one attempt.
JobRow ==
    {r \in [status : JobStatuses, attempts : 0..MaxAttempts,
            leased_by : {Nobody} \cup (AgentWorkers \X Nat), expired : BOOLEAN] :
        /\ (r.status = "LEASED") = (r.leased_by # Nobody)
        /\ r.status = "LEASED" => r.attempts >= 1
        /\ r.expired => r.status = "LEASED"}
AttemptRow == AgentResults
MemoryEntry == (Nat \ {0}) \X {"INPUT", "ATTEMPT", "OUTPUT", "DEAD_LETTER"}

\* The triggers of attempts and memory: rows are never changed or deleted.
AppendOnly(old, new) == \A j \in Jobs : SubSeq(new[j], 1, Len(old[j])) = old[j]

Trouble == troubles < MaxTroubles /\ troubles' = troubles + 1

NewRow == [status |-> "NONE", attempts |-> 0, leased_by |-> Nobody, expired |-> FALSE]
NoTrace == [row |-> NewRow, attempts |-> <<>>, memory |-> <<>>]

AgentInit ==
    /\ row = [j \in Jobs |-> NewRow]
    /\ attemptLog = [j \in Jobs |-> <<>>]
    /\ memory = [j \in Jobs |-> <<>>]
    /\ outputs = [j \in Jobs |-> 0]
    /\ worker = [w \in AgentWorkers |-> IdleWorker(0)]
    /\ seen = [c \in InlineCallers |-> NoTrace]
    /\ agentState = "active"
    /\ tenure = [j \in Jobs |-> 0]
    /\ troubles = 0

-----------------------------------------------------------------------------
(* The queue *)

\* Mutant: a dead-lettered request may be submitted again under its job.
SubmitJobAgain(j) ==
    /\ row[j].status \in {"NONE", "DEAD_LETTER"}
    /\ agentState # "replaced"
    /\ row' = [row EXCEPT ![j].status = "PENDING"]
    /\ memory' = [memory EXCEPT ![j] = <<<<1, "INPUT">>>>]
    /\ UNCHANGED <<attemptLog, outputs, worker, seen, agentState, tenure, troubles>>

\* create_agent_execution: the job with its first memory entry.
CreatedJob(j) ==
    /\ row' = [row EXCEPT ![j].status = "PENDING"]
    /\ memory' = [memory EXCEPT ![j] = <<<<1, "INPUT">>>>]

\* submit: one job per request; the same request again returns the stored one.
SubmitJob(j) ==
    /\ row[j].status = "NONE"
    /\ agentState # "replaced"
    /\ CreatedJob(j)
    /\ UNCHANGED <<attemptLog, outputs, worker, seen, agentState, tenure, troubles>>

ReadyJob(j) == row[j].status \in {"PENDING", "RETRY"} /\ row[j].attempts < MaxAttempts
\* Mutant: an expired lease is looked for among the jobs to retry.
ExpiredRetry(j) == row[j].status = "RETRY" /\ row[j].expired

ExpiredJob(j) == row[j].status = "LEASED" /\ row[j].expired

\* run() looks for any job, execute() tries its own.
Claimable(w, j) ==
    \/ w \in QueueWorkers /\ worker[w].step = "idle"
    \/ w \in InlineCallers /\ worker[w].step = "try" /\ worker[w].job = j

\* _claim_agent_execution: an expired lease is taken over with the same
\* attempt number, a ready job starts the next attempt.  The claim may be
\* committed and its answer lost.
ClaimJob(w, j) ==
    /\ Claimable(w, j)
    /\ ReadyJob(j) \/ ExpiredJob(j)
    /\ LET n == IF ExpiredJob(j) THEN row[j].attempts ELSE row[j].attempts + 1
       IN  /\ row' = [row EXCEPT ![j] = [status |-> "LEASED", attempts |-> n,
                                         leased_by |-> WorkerId(w), expired |-> FALSE]]
           /\ \/ /\ worker' = [worker EXCEPT ![w].step = "claimed", ![w].job = j,
                                          ![w].attempt = n, ![w].tenure = tenure[j] + 1]
                 /\ UNCHANGED troubles
              \/ worker' = [worker EXCEPT ![w] = Raised(w)] /\ Trouble
    /\ tenure' = [tenure EXCEPT ![j] = @ + 1]
    /\ UNCHANGED <<attemptLog, memory, outputs, seen, agentState>>

\* lease_seconds pass.  A dead or departed owner's lease always runs out; that
\* of a worker still busy with it only when the worker is slow.
LeaseExpires(j) ==
    /\ row[j].status = "LEASED" /\ ~row[j].expired
    /\ row' = [row EXCEPT ![j].expired = TRUE]
    /\ IF \E w \in AgentWorkers : worker[w].job = j /\ WorkerId(w) = row[j].leased_by
       THEN Trouble ELSE UNCHANGED troubles
    /\ UNCHANGED <<attemptLog, memory, outputs, worker, seen, agentState, tenure>>

-----------------------------------------------------------------------------
(* execute *)

\* The call submits its job; the same request again finds the stored one.
BeginExecute(c, j) ==
    /\ c \in InlineCallers /\ worker[c].step = "idle"
    /\ agentState # "replaced"
    /\ IF row[j].status = "NONE" THEN CreatedJob(j) ELSE UNCHANGED <<row, memory>>
    /\ worker' = [worker EXCEPT ![c].step = "load", ![c].job = j]
    /\ UNCHANGED <<attemptLog, outputs, seen, agentState, tenure, troubles>>

\* load_agent_execution_trace: three queries without a common snapshot.
LoadJob(c) ==
    /\ worker[c].step = "load"
    /\ seen' = [seen EXCEPT ![c].row = row[worker[c].job]]
    /\ worker' = [worker EXCEPT ![c].step = "loadAttempts"]
    /\ UNCHANGED <<row, attemptLog, memory, outputs, agentState, tenure, troubles>>

LoadAttempts(c) ==
    /\ worker[c].step = "loadAttempts"
    /\ seen' = [seen EXCEPT ![c].attempts = attemptLog[worker[c].job]]
    /\ worker' = [worker EXCEPT ![c].step = "loadMemory"]
    /\ UNCHANGED <<row, attemptLog, memory, outputs, agentState, tenure, troubles>>

\* What AgentExecutionTrace asks of the three.
ValidTrace(job, attempts, entries) ==
    /\ Len(attempts) <= job.attempts
    /\ \A i, k \in DOMAIN entries : i < k => entries[i][1] < entries[k][1]

\* Mutant: the call returns as soon as an attempt is recorded.
ExecutedOnceRecorded(c) == seen[c].attempts # <<>>

Executed(c) == seen[c].row.status \in TerminalJob

\* The last query, and what execute() does about the trace: it raises, returns
\* it, reads again while somebody holds the job, or tries to claim it.
LoadMemory(c) ==
    LET j == worker[c].job
        valid == ValidTrace(seen[c].row, seen[c].attempts, memory[j])
        leased == seen[c].row.status = "LEASED" /\ ~seen[c].row.expired
    IN  /\ worker[c].step = "loadMemory"
        /\ IF valid /\ Executed(c)
           THEN /\ seen' = [seen EXCEPT ![c].memory = memory[j]]
                /\ worker' = [worker EXCEPT ![c].step = "returned"]
           ELSE /\ seen' = [seen EXCEPT ![c] = NoTrace]
                /\ worker' = IF ~valid THEN [worker EXCEPT ![c] = EndedWorker(@.epoch)]
                             ELSE [worker EXCEPT ![c].step = IF leased THEN "load" ELSE "try"]
        /\ UNCHANGED <<row, attemptLog, memory, outputs, agentState, tenure, troubles>>

\* claim_agent_execution finds the job taken or closed meanwhile.
ClaimRefused(c) ==
    /\ worker[c].step = "try"
    /\ ~ReadyJob(worker[c].job) /\ ~ExpiredJob(worker[c].job)
    /\ worker' = [worker EXCEPT ![c].step = "load"]
    /\ UNCHANGED <<row, attemptLog, memory, outputs, seen, agentState, tenure, troubles>>

\* A query or an announcement of the call fails: execute() raises.
CallFails(c) ==
    /\ worker[c].step \in Reading
    /\ Trouble
    /\ worker' = [worker EXCEPT ![c] = EndedWorker(@.epoch)]
    /\ seen' = [seen EXCEPT ![c] = NoTrace]
    /\ UNCHANGED <<row, attemptLog, memory, outputs, agentState, tenure>>

-----------------------------------------------------------------------------
(* execute_claimed *)

\* A job whose definition or version left the registry fails for good; any
\* other announces its start and goes to the semaphore.
StartJob(w) ==
    /\ worker[w].step = "claimed"
    /\ worker' = IF agentState = "replaced"
                 THEN [worker EXCEPT ![w].step = "finish", ![w].result = "FAILED",
                                     ![w].retryable = FALSE]
                 ELSE [worker EXCEPT ![w].step = "permit"]
    /\ UNCHANGED <<row, attemptLog, memory, outputs, seen, agentState, tenure, troubles>>

TakePermit(w) ==
    /\ worker[w].step = "permit"
    /\ Cardinality(At({"lock", "run"})) < MaxConcurrency
    /\ worker' = [worker EXCEPT ![w].step = "lock"]
    /\ UNCHANGED <<row, attemptLog, memory, outputs, seen, agentState, tenure, troubles>>

TakeAgentLock(w) ==
    /\ worker[w].step = "lock" /\ At({"run"}) = {}
    /\ worker' = [worker EXCEPT ![w].step = "run"]
    /\ UNCHANGED <<row, attemptLog, memory, outputs, seen, agentState, tenure, troubles>>

\* BaseAgent.run: a disabled instance skips; otherwise the analysis succeeds,
\* raises or is cut off by its timeout.
RunResults == IF agentState = "active" THEN AgentResults \ {"SKIPPED"} ELSE {"SKIPPED"}

\* The payload policy may reject a result, which then fails without retry.
RunAgent(w) ==
    /\ worker[w].step = "run"
    /\ \E result \in RunResults, rejected \in BOOLEAN :
          worker' = [worker EXCEPT
              ![w].step = "finish",
              ![w].result = IF rejected THEN "FAILED" ELSE result,
              ![w].retryable = ~rejected /\ result \in BadResults]
    /\ UNCHANGED <<row, attemptLog, memory, outputs, seen, agentState, tenure, troubles>>

-----------------------------------------------------------------------------
(* _record_and_finish / finish_agent_execution *)

\* Mutant: the attempt number alone identifies the worker.
MayFinishByAttempt(w) ==
    LET j == worker[w].job
    IN  /\ row[j].status = "LEASED"
        /\ row[j].attempts = worker[w].attempt
        /\ Len(attemptLog[j]) = worker[w].attempt - 1

MayFinish(w) ==
    LET j == worker[w].job
    IN  /\ row[j].status = "LEASED"
        /\ row[j].leased_by = WorkerId(w)
        /\ row[j].attempts = worker[w].attempt
        /\ Len(attemptLog[j]) = worker[w].attempt - 1

\* Mutant: the last attempt may be retried once more.
FinishedStatusOneMore(w) ==
    CASE worker[w].result \notin BadResults -> "COMPLETED"
      [] worker[w].result \in BadResults /\ worker[w].retryable
         /\ worker[w].attempt <= MaxAttempts -> "RETRY"
      [] OTHER -> "DEAD_LETTER"

FinishedStatus(w) ==
    CASE worker[w].result \notin BadResults -> "COMPLETED"
      [] worker[w].result \in BadResults /\ worker[w].retryable
         /\ worker[w].attempt < MaxAttempts -> "RETRY"
      [] OTHER -> "DEAD_LETTER"

\* The memory entry that closes a job after its n-th attempt.
TerminalMemory(n, status) ==
    CASE status = "COMPLETED" -> <<<<2 * n + 1, "OUTPUT">>>>
      [] status = "DEAD_LETTER" -> <<<<2 * n + 1, "DEAD_LETTER">>>>
      [] OTHER -> <<>>

\* The event is published and the worker goes on; a lost answer or a failed
\* journal (a DatabaseError) or a broker error, which ends run() as well.
Announce(w) ==
    \/ worker' = [worker EXCEPT ![w] = Looping(w)] /\ UNCHANGED troubles
    \/ worker' = [worker EXCEPT ![w] = Raised(w)] /\ Trouble
    \/ worker' = [worker EXCEPT ![w] = EndedWorker(@.epoch)] /\ Trouble

\* The transaction of the lease owner, then the announcement.
FinishJob(w) ==
    LET j == worker[w].job
        n == worker[w].attempt
        status == FinishedStatus(w)
    IN  /\ worker[w].step = "finish"
        /\ MayFinish(w)
        /\ attemptLog' = [attemptLog EXCEPT ![j] = Append(@, worker[w].result)]
        /\ memory' = [memory EXCEPT ![j] = @ \o <<<<2 * n, "ATTEMPT">>>>
                                                  \o TerminalMemory(n, status)]
        /\ AppendOnly(attemptLog, attemptLog') /\ AppendOnly(memory, memory')
        /\ outputs' = [outputs EXCEPT ![j] = IF status \in TerminalJob THEN @ + 1 ELSE @]
        /\ row' = [row EXCEPT ![j].status = status, ![j].leased_by = Nobody,
                              ![j].expired = FALSE]
        /\ Announce(w)
        /\ UNCHANGED <<seen, agentState, tenure>>

\* "Agent execution lease ownership lost", a DatabaseError: the result is
\* dropped.
FinishRefused(w) ==
    /\ worker[w].step = "finish" /\ ~MayFinish(w)
    /\ worker' = [worker EXCEPT ![w] = Raised(w)]
    /\ UNCHANGED <<row, attemptLog, memory, outputs, seen, agentState, tenure, troubles>>

-----------------------------------------------------------------------------
(* Faults and the registry *)

\* Publishing the start or the finish transaction fails with a database
\* error: run() logs it and polls on, execute() raises, the job stays leased.
WorkerFails(w) ==
    /\ worker[w].step \in {"claimed", "finish"}
    /\ Trouble
    /\ worker' = [worker EXCEPT ![w] = Raised(w)]
    /\ UNCHANGED <<row, attemptLog, memory, outputs, seen, agentState, tenure>>

\* Announcing the start raises a broker error: the worker ends, as after a
\* finish, and only a restart of its process brings it back.
WorkerEnds(w) ==
    /\ worker[w].step = "claimed"
    /\ Trouble
    /\ worker' = [worker EXCEPT ![w] = EndedWorker(@.epoch)]
    /\ UNCHANGED <<row, attemptLog, memory, outputs, seen, agentState, tenure>>

\* A crash: the restarted process polls under a new id, a call is gone.
WorkerCrashes(w) ==
    /\ worker[w].step \notin {"returned", "ended"} \/ w \in QueueWorkers
    /\ Trouble
    /\ worker' = [worker EXCEPT ![w] = IF w \in QueueWorkers THEN IdleWorker(@.epoch + 1)
                                       ELSE EndedWorker(@.epoch)]
    /\ UNCHANGED <<row, attemptLog, memory, outputs, seen, agentState, tenure>>

\* AgentRegistry.disable, enable and replace (which disables the old one).
SetAgentState(s) ==
    /\ <<agentState, s>> \in {<<"active", "disabled">>, <<"disabled", "active">>,
                              <<"active", "replaced">>, <<"disabled", "replaced">>}
    /\ agentState' = s
    /\ UNCHANGED <<row, attemptLog, memory, outputs, worker, seen, tenure, troubles>>

AgentWorkerStep(w) ==
    \/ StartJob(w) \/ TakePermit(w) \/ TakeAgentLock(w)
    \/ RunAgent(w) \/ FinishJob(w) \/ FinishRefused(w)
CallStep(c) == LoadJob(c) \/ LoadAttempts(c) \/ LoadMemory(c) \/ ClaimRefused(c)

AgentNext ==
    \/ \E j \in Jobs : SubmitJob(j) \/ LeaseExpires(j)
    \/ \E w \in AgentWorkers, j \in Jobs : ClaimJob(w, j)
    \/ \E w \in AgentWorkers : \/ AgentWorkerStep(w) \/ WorkerFails(w)
                              \/ WorkerEnds(w) \/ WorkerCrashes(w)
    \/ \E c \in InlineCallers : \/ \E j \in Jobs : BeginExecute(c, j)
                               \/ CallStep(c) \/ CallFails(c)
    \/ \E s \in AgentStates : SetAgentState(s)

AgentSpec == AgentInit /\ [][AgentNext]_agentVars

\* A queue worker that has not ended polls for ever; whoever holds a job runs on
\* (runs are cut off by their timeout, the semaphore and the agent's lock are
\* granted to a task that keeps waiting while they are free); leases run out by
\* themselves.  Nothing is asked of the loop of an inline caller.
AgentFairness ==
    /\ \A w \in QueueWorkers : WF_agentVars(\E j \in Jobs : ClaimJob(w, j))
    /\ \A w \in AgentWorkers : WF_agentVars(AgentWorkerStep(w))
    /\ \A j \in Jobs : WF_agentVars(LeaseExpires(j))

-----------------------------------------------------------------------------
(* Properties *)

AgentTypeOK ==
    /\ row \in [Jobs -> JobRow]
    /\ attemptLog \in [Jobs -> Seq(AttemptRow)]
    /\ memory \in [Jobs -> Seq(MemoryEntry)]
    /\ outputs \in [Jobs -> Nat]
    /\ worker \in [AgentWorkers -> [step : WorkerSteps, job : Jobs \cup {NoJob},
                                    attempt : 0..MaxAttempts, tenure : Nat,
                                    result : AgentResults, retryable : BOOLEAN,
                                    epoch : Nat]]
    /\ seen \in [InlineCallers -> [row : JobRow, attempts : Seq(AttemptRow),
                                   memory : Seq(MemoryEntry)]]
    /\ agentState \in AgentStates
    /\ tenure \in [Jobs -> Nat]
    /\ troubles \in 0..MaxTroubles

\* Claims, take-overs, crashes and late workers never lose, repeat or rewrite
\* an attempt: the runtime implements AttemptLedger.
Ledger == INSTANCE AttemptLedger WITH
    LedgerJobs <- Jobs,
    LedgerLimit <- MaxAttempts,
    log <- [j \in Jobs |-> [i \in 1..Len(attemptLog[j]) |->
                               IF attemptLog[j][i] \in BadResults THEN "bad" ELSE "good"]],
    closed <- {j \in Jobs : row[j].status \in TerminalJob}
ImplementsAttemptLedger == Ledger!LedgerSpec

\* Only the latest claim of a job can record a result: a worker that waited
\* for the semaphore or the agent's lock past its lease is refused, although
\* the take-over kept its attempt number (docs: "stale workers cannot commit
\* after losing lease ownership").
Fenced(w) ==
    (worker[w].step = "finish" /\ MayFinish(w)) => worker[w].tenure = tenure[worker[w].job]
FencedResults == \A w \in AgentWorkers : Fenced(w)

\* The rows of a job tell one story in every state: INPUT first, one ATTEMPT
\* entry per recorded attempt at the even sequence numbers, and exactly when
\* the job is terminal one closing entry and one agent output.
TraceWellFormed ==
    \A j \in Jobs :
        LET n == Len(attemptLog[j])
            attempts == [i \in 1..n |-> <<2 * i, "ATTEMPT">>]
            closing == TerminalMemory(n, row[j].status)
        IN  /\ ValidTrace(row[j], attemptLog[j], memory[j])
            /\ memory[j] = IF row[j].status = "NONE" THEN <<>>
                           ELSE <<<<1, "INPUT">>>> \o attempts \o closing
            /\ outputs[j] = Len(closing)

\* The trace execute() returns is all that is and ever will be recorded of its
\* job, although its three queries share no snapshot and other workers write
\* between them.
ReturnedTraceIsWhole ==
    \A c \in InlineCallers :
        worker[c].step = "returned" =>
            seen[c] = [row |-> row[worker[c].job], attempts |-> attemptLog[worker[c].job],
                       memory |-> memory[worker[c].job]]

\* Every submitted job ends, with an output or in the dead letters, unless
\* broker errors have ended every queue worker.
EveryExecutionEnds ==
    \A j \in Jobs : (row[j].status = "PENDING")
        ~> (row[j].status \in TerminalJob \/ QueueWorkers \subseteq At({"ended"}))
=============================================================================
