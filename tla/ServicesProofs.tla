--------------------------- MODULE ServicesProofs ---------------------------
(***************************************************************************)
(* Background services, for any jobs, workers, dependencies, limits and    *)
(* faults.  The durable agent queue: a result is only recorded under the   *)
(* latest claim, the trace of a job is whole in every state, and the       *)
(* runtime implements AttemptLedger.  The operations monitor: alerts       *)
(* alternate, and a halt ends only after fresh probes.                     *)
(***************************************************************************)
EXTENDS AgentRuntime, Operations, SequenceTheorems, TLAPS


\* Steps of a worker that holds a claimed job.
Holding == {"claimed", "permit", "lock", "run", "finish"}

WorkerRecord ==
    [step : WorkerSteps, job : Jobs \cup {NoJob}, attempt : 0..MaxAttempts, tenure : Nat,
     result : AgentResults, retryable : BOOLEAN, epoch : Nat]

TraceRecord == [row : JobRow, attempts : Seq(AttemptRow), memory : Seq(MemoryEntry)]

\* A caller reads and tries a job it has submitted.
Calling == \A w \in AgentWorkers : worker[w].step \in Reading => worker[w].job \in Jobs

\* A worker holds a job with the attempt and the claim it was given.  While the
\* lease names this life of the worker, its claim is the latest one and its
\* attempt the row's.
Claim(w) ==
    /\ worker[w].job \in Jobs /\ worker[w].attempt >= 1
    /\ row[worker[w].job].leased_by = WorkerId(w) =>
          /\ worker[w].tenure = tenure[worker[w].job]
          /\ worker[w].attempt = row[worker[w].job].attempts
Claims == \A w \in AgentWorkers : worker[w].step \in Holding => Claim(w)

\* The attempt under way is the one that is not recorded yet.
Recorded ==
    \A j \in Jobs :
        /\ row[j].status = "LEASED" => Len(attemptLog[j]) = row[j].attempts - 1
        /\ row[j].status # "LEASED" => Len(attemptLog[j]) = row[j].attempts
        /\ row[j].status \in {"NONE", "PENDING"} => row[j].attempts = 0
        /\ row[j].status \in TerminalJob => row[j].attempts >= 1

\* The memory of a job with n recorded attempts, entry by entry.
Whole(entries, n, status, out) ==
    /\ out = Len(TerminalMemory(n, status))
    /\ status = "NONE" => entries = <<>>
    /\ status # "NONE" =>
          /\ Len(entries) = 1 + n + Len(TerminalMemory(n, status))
          /\ entries[1] = <<1, "INPUT">>
          /\ \A i \in 1..n : entries[i + 1] = <<2 * i, "ATTEMPT">>
          /\ \A i \in 1..Len(TerminalMemory(n, status)) :
                entries[n + 1 + i] = TerminalMemory(n, status)[i]
Remembered ==
    \A j \in Jobs : Whole(memory[j], Len(attemptLog[j]), row[j].status, outputs[j])

AgentInv == AgentTypeOK /\ Calling /\ Claims /\ Recorded /\ Remembered

-----------------------------------------------------------------------------
(* Facts about the operators *)

LEMMA OneEntry ==
    ASSUME NEW S, NEW e \in S
    PROVE  <<e>> \in Seq(S) /\ Len(<<e>>) = 1 /\ <<e>>[1] = e
    OBVIOUS

\* The closing entries: one exactly for a terminal job.
LEMMA ClosingFacts ==
    ASSUME NEW n \in Nat, NEW status \in JobStatuses
    PROVE  /\ TerminalMemory(n, status) \in Seq(MemoryEntry)
           /\ status \in TerminalJob =>
                 Len(TerminalMemory(n, status)) = 1 /\ TerminalMemory(n, status)[1][1] = 2 * n + 1
           /\ status \notin TerminalJob => TerminalMemory(n, status) = <<>>
           /\ Len(TerminalMemory(n, status)) \in {0, 1}
<1>1. 2 * n + 1 \in Nat \ {0}
    OBVIOUS
<1>2. CASE status = "COMPLETED"
    <2>1. TerminalMemory(n, status) = <<<<2 * n + 1, "OUTPUT">>>>
        BY <1>2 DEF TerminalMemory
    <2>2. <<2 * n + 1, "OUTPUT">> \in MemoryEntry /\ <<2 * n + 1, "OUTPUT">>[1] = 2 * n + 1
        BY <1>1 DEF MemoryEntry
    <2> QED BY <1>2, <2>1, <2>2, OneEntry DEF TerminalJob
<1>3. CASE status = "DEAD_LETTER"
    <2>1. TerminalMemory(n, status) = <<<<2 * n + 1, "DEAD_LETTER">>>>
        BY <1>3 DEF TerminalMemory
    <2>2. <<2 * n + 1, "DEAD_LETTER">> \in MemoryEntry /\ <<2 * n + 1, "DEAD_LETTER">>[1] = 2 * n + 1
        BY <1>1 DEF MemoryEntry
    <2> QED BY <1>3, <2>1, <2>2, OneEntry DEF TerminalJob
<1>4. CASE status \notin {"COMPLETED", "DEAD_LETTER"}
    <2>1. TerminalMemory(n, status) = <<>>
        BY <1>4 DEF TerminalMemory
    <2> QED BY <1>4, <2>1 DEF TerminalJob
<1> QED BY <1>2, <1>3, <1>4

\* A result completes its job, or it is a bad one that is retried below the
\* limit or ends in the dead letters.
LEMMA FinishFacts ==
    ASSUME NEW w \in AgentWorkers, worker[w].attempt \in Nat
    PROVE  /\ FinishedStatus(w) \in {"COMPLETED", "RETRY", "DEAD_LETTER"}
           /\ FinishedStatus(w) = "RETRY" =>
                 worker[w].result \in BadResults /\ worker[w].attempt < MaxAttempts
    BY AgentAssumption DEF FinishedStatus

LEMMA IdleFacts ==
    ASSUME NEW n \in Nat
    PROVE  /\ IdleWorker(n) \in WorkerRecord /\ EndedWorker(n) \in WorkerRecord
           /\ IdleWorker(n).step = "idle" /\ EndedWorker(n).step = "ended"
<1>1. IdleWorker(n) \in WorkerRecord /\ IdleWorker(n).step = "idle"
    BY AgentAssumption DEF IdleWorker, WorkerRecord, WorkerSteps, AgentResults
<1>2. EndedWorker(n) \in WorkerRecord /\ EndedWorker(n).step = "ended"
    BY <1>1 DEF EndedWorker, WorkerRecord, WorkerSteps
<1> QED BY <1>1, <1>2

\* What becomes of a worker after an attempt, and after a database error.
LEMMA GoesOnFacts ==
    ASSUME NEW w \in AgentWorkers, worker[w] \in WorkerRecord
    PROVE  /\ Looping(w) \in WorkerRecord /\ Raised(w) \in WorkerRecord
           /\ Looping(w).step \in {"idle", "load"} /\ Raised(w).step \in {"idle", "ended"}
           /\ Looping(w).step = "load" => Looping(w).job = worker[w].job
<1>1. worker[w].epoch \in Nat /\ worker[w].job \in Jobs \cup {NoJob}
    BY DEF WorkerRecord
<1>2. PICK idle \in WorkerRecord : idle = IdleWorker(worker[w].epoch) /\ idle.step = "idle"
    BY <1>1, IdleFacts
<1>3. [idle EXCEPT !.step = "load", !.job = worker[w].job] \in WorkerRecord
    BY <1>1, <1>2 DEF WorkerRecord, WorkerSteps, Reading
<1> QED BY <1>1, <1>2, <1>3, IdleFacts DEF Looping, Raised, WorkerRecord

-----------------------------------------------------------------------------
(* The inductive invariant *)

LEMMA NoTraceType == NewRow \in JobRow /\ NoTrace \in TraceRecord
<1>1. NewRow \in JobRow
    BY AgentAssumption DEF NewRow, JobRow, JobStatuses, Nobody
<1>2. <<>> \in Seq(AttemptRow) /\ <<>> \in Seq(MemoryEntry)
    OBVIOUS
<1> QED BY <1>1, <1>2 DEF NoTrace, TraceRecord

LEMMA AgentInitInv == AgentInit => AgentInv
<1> SUFFICES ASSUME AgentInit PROVE AgentInv
    OBVIOUS
<1>1. \A w \in AgentWorkers : worker[w] = IdleWorker(0)
    BY DEF AgentInit
<1>2. \A w \in AgentWorkers : worker[w] \in WorkerRecord /\ worker[w].step \notin Holding
    BY <1>1, IdleFacts DEF Holding
<1>3. AgentTypeOK
    <2>1. worker \in [AgentWorkers -> WorkerRecord]
        BY <1>2 DEF AgentInit
    <2>6. row \in [Jobs -> JobRow] /\ seen \in [InlineCallers -> TraceRecord]
        BY NoTraceType DEF AgentInit
    <2>3. attemptLog \in [Jobs -> Seq(AttemptRow)] /\ memory \in [Jobs -> Seq(MemoryEntry)]
        <3>1. <<>> \in Seq(AttemptRow) /\ <<>> \in Seq(MemoryEntry)
            OBVIOUS
        <3> QED BY <3>1 DEF AgentInit
    <2>4. /\ outputs \in [Jobs -> Nat] /\ agentState \in AgentStates
          /\ tenure \in [Jobs -> Nat] /\ troubles \in 0..MaxTroubles
        BY AgentAssumption DEF AgentInit, AgentStates
    <2> QED BY <2>1, <2>3, <2>4, <2>6 DEF AgentTypeOK, WorkerRecord, TraceRecord
<1>7. Calling
    BY <1>1 DEF Calling, IdleWorker, Reading
<1>4. Claims
    BY <1>2 DEF Claims, Claim
<1>5. Recorded
    BY DEF AgentInit, NewRow, Recorded, TerminalJob
<1>6. Remembered
    <2>1. TerminalMemory(0, "NONE") = <<>>
        BY ClosingFacts DEF JobStatuses, TerminalJob
    <2>2. Whole(<<>>, 0, "NONE", 0)
        BY <2>1 DEF Whole
    <2> QED BY <2>2 DEF AgentInit, NewRow, Remembered
<1> QED BY <1>3, <1>4, <1>5, <1>6, <1>7 DEF AgentInv

\* A worker's own step changes nothing durable: it stays with its claim or drops it.
LEMMA WorkerFrame ==
    ASSUME AgentInv, NEW w \in AgentWorkers, NEW r \in WorkerRecord,
           worker' = [worker EXCEPT ![w] = r],
           \/ r.step \notin Holding
           \/ /\ worker[w].step \in Holding /\ r.job = worker[w].job /\ r.attempt = worker[w].attempt
              /\ r.tenure = worker[w].tenure /\ r.epoch = worker[w].epoch,
           r.step \in Reading => r.job \in Jobs,
           seen' \in [InlineCallers -> TraceRecord],
           UNCHANGED <<row, attemptLog, memory, outputs, agentState, tenure>>,
           troubles' \in 0..MaxTroubles
    PROVE  AgentInv'
<1>1. AgentTypeOK'
    BY DEF AgentInv, AgentTypeOK, WorkerRecord, TraceRecord
<1>2. Claims'
    BY DEF AgentInv, Claims, Claim, AgentTypeOK, WorkerId
<1>3. Recorded' /\ Remembered'
    BY DEF AgentInv, Recorded, Remembered
<1>4. Calling'
    BY DEF AgentInv, AgentTypeOK, Calling
<1> QED BY <1>1, <1>2, <1>3, <1>4 DEF AgentInv

LEMMA TroubleType == ASSUME AgentTypeOK, Trouble \/ UNCHANGED troubles
                     PROVE  troubles' \in 0..MaxTroubles
    BY AgentAssumption DEF AgentTypeOK, Trouble

\* The transaction of a submission; no worker gets hold of a job by it.
LEMMA CreatedInv ==
    ASSUME AgentInv, NEW j \in Jobs, row[j].status = "NONE", CreatedJob(j),
           worker' \in [AgentWorkers -> WorkerRecord],
           \A w \in AgentWorkers :
              \/ worker'[w] = worker[w]
              \/ worker'[w].step \notin Holding /\ worker'[w].job \in Jobs,
           UNCHANGED <<attemptLog, outputs, seen, agentState, tenure, troubles>>
    PROVE  AgentInv'
<1>1. row[j].status = "NONE" /\ row[j] \in JobRow
    BY DEF AgentInv, AgentTypeOK
<1>2. Len(attemptLog[j]) = 0 /\ row[j].attempts = 0
    BY <1>1 DEF AgentInv, Recorded
<1>3. AgentTypeOK'
    <2>1. [row[j] EXCEPT !.status = "PENDING"] \in JobRow
        BY <1>1, AgentAssumption DEF JobRow, JobStatuses
    <2>2. <<<<1, "INPUT">>>> \in Seq(MemoryEntry)
        <3>1. <<1, "INPUT">> \in MemoryEntry
            BY DEF MemoryEntry
        <3> QED BY <3>1, OneEntry
    <2>3. row' \in [Jobs -> JobRow] /\ memory' \in [Jobs -> Seq(MemoryEntry)]
        BY <2>1, <2>2 DEF CreatedJob, AgentInv, AgentTypeOK
    <2> QED BY <2>3 DEF AgentInv, AgentTypeOK, WorkerRecord
<1>4. /\ row'[j].status = "PENDING" /\ row'[j].attempts = row[j].attempts
      /\ row'[j].leased_by = row[j].leased_by /\ memory'[j] = <<<<1, "INPUT">>>>
      /\ \A k \in Jobs : k # j => row'[k] = row[k] /\ memory'[k] = memory[k]
    BY <1>1 DEF CreatedJob, AgentInv, AgentTypeOK, JobRow
<1>5. Claims'
    <2> SUFFICES ASSUME NEW w \in AgentWorkers, worker'[w].step \in Holding PROVE Claim(w)'
        BY DEF Claims
    <2>1. worker'[w] = worker[w] /\ Claim(w)
        BY DEF AgentInv, Claims
    <2>2. row'[worker[w].job].leased_by = row[worker[w].job].leased_by
          /\ row'[worker[w].job].attempts = row[worker[w].job].attempts
        BY <1>4, <2>1 DEF Claim
    <2> QED BY <2>1, <2>2 DEF Claim, WorkerId
<1>6. Recorded'
    BY <1>1, <1>2, <1>4 DEF AgentInv, Recorded, TerminalJob
<1>7. Remembered'
    <2>1. TerminalMemory(0, "NONE") = <<>> /\ TerminalMemory(0, "PENDING") = <<>>
        BY ClosingFacts DEF TerminalJob, JobStatuses
    <2>2. outputs[j] = 0
        <3>1. Whole(memory[j], 0, "NONE", outputs[j])
            BY <1>1, <1>2 DEF AgentInv, Remembered
        <3> QED BY <3>1, <2>1 DEF Whole
    <2>3. Whole(<<<<1, "INPUT">>>>, 0, "PENDING", 0)
        BY <2>1 DEF Whole
    <2> QED BY <1>2, <1>4, <2>2, <2>3 DEF AgentInv, Remembered
<1>8. Calling'
    BY DEF AgentInv, AgentTypeOK, Calling
<1> QED BY <1>3, <1>5, <1>6, <1>7, <1>8 DEF AgentInv

LEMMA SubmitInv == ASSUME AgentInv, NEW j \in Jobs, SubmitJob(j)
                   PROVE  AgentInv'
    BY CreatedInv DEF SubmitJob, AgentInv, AgentTypeOK, WorkerRecord

LEMMA BeginInv == ASSUME AgentInv, NEW c \in InlineCallers, NEW j \in Jobs, BeginExecute(c, j)
                  PROVE  AgentInv'
<1> DEFINE r == [worker[c] EXCEPT !.step = "load", !.job = j]
<1>1. c \in AgentWorkers /\ worker \in [AgentWorkers -> WorkerRecord]
    BY DEF AgentInv, AgentTypeOK, WorkerRecord, AgentWorkers
<1>2. r \in WorkerRecord /\ r.step = "load" /\ r.job = j
    BY <1>1 DEF WorkerRecord, WorkerSteps, Reading
<1>3. worker' = [worker EXCEPT ![c] = r]
    BY <1>1 DEF BeginExecute
<1> HIDE DEF r
<1>4. CASE row[j].status = "NONE"
    <2>1. r.step \notin Holding
        BY <1>2 DEF Holding
    <2>2. \A w \in AgentWorkers : worker'[w] = IF w = c THEN r ELSE worker[w]
        BY <1>1, <1>3
    <2>3. worker' \in [AgentWorkers -> WorkerRecord]
        BY <1>1, <1>2, <1>3
    <2> QED BY <1>2, <1>4, <2>1, <2>2, <2>3, CreatedInv DEF BeginExecute
<1>5. CASE row[j].status # "NONE"
    <2>1. /\ seen' \in [InlineCallers -> TraceRecord] /\ troubles' \in 0..MaxTroubles
          /\ UNCHANGED <<row, attemptLog, memory, outputs, agentState, tenure>>
        BY <1>5 DEF BeginExecute, AgentInv, AgentTypeOK, TraceRecord
    <2> QED BY <1>1, <1>2, <1>3, <2>1, WorkerFrame DEF Holding
<1> QED BY <1>4, <1>5

\* A caller reads, gives up or is refused: what it holds of a job is no claim.
LEMMA CallInv ==
    ASSUME AgentInv, NEW c \in InlineCallers, CallStep(c) \/ CallFails(c)
    PROVE  AgentInv'
<1>1. /\ c \in AgentWorkers /\ worker[c] \in WorkerRecord
      /\ worker \in [AgentWorkers -> WorkerRecord] /\ seen \in [InlineCallers -> TraceRecord]
    BY DEF AgentInv, AgentTypeOK, WorkerRecord, TraceRecord, AgentWorkers
<1> DEFINE j == worker[c].job
<1>2. j \in Jobs
    BY <1>1 DEF CallStep, CallFails, LoadJob, LoadAttempts, LoadMemory, ClaimRefused, AgentInv,
                Calling, Reading
<1>3. troubles' \in 0..MaxTroubles
    BY TroubleType DEF CallStep, CallFails, LoadJob, LoadAttempts, LoadMemory, ClaimRefused, AgentInv
<1>4. UNCHANGED <<row, attemptLog, memory, outputs, agentState, tenure>>
    BY DEF CallStep, CallFails, LoadJob, LoadAttempts, LoadMemory, ClaimRefused
<1>5. seen' \in [InlineCallers -> TraceRecord]
    <2>1. /\ row[j] \in JobRow /\ attemptLog[j] \in Seq(AttemptRow)
          /\ memory[j] \in Seq(MemoryEntry) /\ seen[c] \in TraceRecord
        BY <1>1, <1>2 DEF AgentInv, AgentTypeOK
    <2> HIDE DEF j
    <2>2. /\ [seen[c] EXCEPT !.row = row[j]] \in TraceRecord
          /\ [seen[c] EXCEPT !.attempts = attemptLog[j]] \in TraceRecord
          /\ [seen[c] EXCEPT !.memory = memory[j]] \in TraceRecord
        BY <2>1 DEF TraceRecord
    <2>3. NoTrace \in TraceRecord
        BY NoTraceType
    <2>4. PICK t \in TraceRecord : seen' = [seen EXCEPT ![c] = t]
        <3>1. CASE LoadJob(c)
            BY <1>1, <2>2, <3>1 DEF LoadJob, j
        <3>2. CASE LoadAttempts(c)
            BY <1>1, <2>2, <3>2 DEF LoadAttempts, j
        <3>3. CASE LoadMemory(c)
            BY <1>1, <2>2, <2>3, <3>3 DEF LoadMemory, j
        <3>4. CASE ClaimRefused(c)
            BY <1>1, <3>4 DEF ClaimRefused
        <3>5. CASE CallFails(c)
            BY <1>1, <2>3, <3>5 DEF CallFails
        <3> QED BY <3>1, <3>2, <3>3, <3>4, <3>5 DEF CallStep
    <2> QED BY <1>1, <2>4
<1>6. PICK r \in WorkerRecord :
         /\ worker' = [worker EXCEPT ![c] = r]
         /\ r.step \in {"loadAttempts", "loadMemory", "returned", "load", "try", "ended"}
         /\ r.step \in Reading => r.job \in Jobs
    <2>1. \A step \in {"loadAttempts", "loadMemory", "returned", "load", "try"} :
             /\ [worker[c] EXCEPT !.step = step] \in WorkerRecord
             /\ [worker[c] EXCEPT !.step = step].step = step
             /\ [worker[c] EXCEPT !.step = step].job = j
        BY <1>1 DEF WorkerRecord, WorkerSteps, Reading
    <2>2. EndedWorker(worker[c].epoch) \in WorkerRecord /\ EndedWorker(worker[c].epoch).step = "ended"
        BY <1>1, IdleFacts DEF WorkerRecord
    <2>3. CASE CallFails(c)
        BY <1>1, <2>2, <2>3 DEF CallFails, Reading
    <2>4. CASE LoadJob(c)
        BY <1>1, <1>2, <2>1, <2>4 DEF LoadJob
    <2>5. CASE LoadAttempts(c)
        BY <1>1, <1>2, <2>1, <2>5 DEF LoadAttempts
    <2>6. CASE ClaimRefused(c)
        BY <1>1, <1>2, <2>1, <2>6 DEF ClaimRefused
    <2>7. CASE LoadMemory(c)
        BY <1>1, <1>2, <2>1, <2>2, <2>7 DEF LoadMemory, Reading
    <2> QED BY <2>3, <2>4, <2>5, <2>6, <2>7 DEF CallStep
<1>7. r.step \notin Holding
    BY <1>6 DEF Holding
<1> HIDE DEF j
<1> QED BY <1>1, <1>3, <1>4, <1>5, <1>6, <1>7, WorkerFrame

LEMMA ClaimInv == ASSUME AgentInv, NEW w \in AgentWorkers, NEW j \in Jobs, ClaimJob(w, j)
                  PROVE  AgentInv'
<1> DEFINE n == IF ExpiredJob(j) THEN row[j].attempts ELSE row[j].attempts + 1
           claimed == [status |-> "LEASED", attempts |-> n,
                       leased_by |-> WorkerId(w), expired |-> FALSE]
           holder == [worker[w] EXCEPT !.step = "claimed", !.job = j, !.attempt = n,
                                       !.tenure = tenure[j] + 1]
<1>1. row[j] \in JobRow /\ worker[w] \in WorkerRecord /\ tenure[j] \in Nat
    BY DEF AgentInv, AgentTypeOK, WorkerRecord
<1>2. n \in 1..MaxAttempts /\ n - 1 = Len(attemptLog[j])
    <2>1. CASE ExpiredJob(j)
        BY <1>1, <2>1, AgentAssumption DEF ExpiredJob, JobRow, AgentInv, Recorded
    <2>2. CASE ReadyJob(j) /\ ~ExpiredJob(j)
        BY <1>1, <2>2, AgentAssumption DEF ReadyJob, JobRow, AgentInv, Recorded
    <2> QED BY <2>1, <2>2 DEF ClaimJob
<1>3. claimed \in JobRow
    <2>1. WorkerId(w) \in AgentWorkers \X Nat /\ WorkerId(w) # Nobody
        BY <1>1 DEF WorkerId, WorkerRecord, Nobody
    <2> HIDE DEF n
    <2> QED BY <1>2, <2>1, AgentAssumption DEF JobRow, JobStatuses
<1>4. holder \in WorkerRecord
    <2>1. n \in 0..MaxAttempts /\ tenure[j] + 1 \in Nat /\ "claimed" \in WorkerSteps
        BY <1>1, <1>2 DEF WorkerSteps
    <2> HIDE DEF n
    <2> QED BY <1>1, <2>1 DEF WorkerRecord
<1>5. /\ row' = [row EXCEPT ![j] = claimed] /\ tenure' = [tenure EXCEPT ![j] = tenure[j] + 1]
      /\ \/ worker' = [worker EXCEPT ![w] = holder]
         \/ worker' = [worker EXCEPT ![w] = Raised(w)]
    BY <1>1 DEF ClaimJob, AgentInv, AgentTypeOK
<1>10. PICK r \in WorkerRecord :
          /\ worker' = [worker EXCEPT ![w] = r]
          /\ r = holder \/ r.step \in {"idle", "ended"}
    BY <1>1, <1>4, <1>5, GoesOnFacts
<1>11. r.step \notin Reading /\ (r.step \in Holding => r = holder)
    <2>1. holder.step = "claimed"
        BY <1>1 DEF WorkerRecord
    <2> QED BY <1>10, <2>1 DEF Reading, Holding
<1>6. AgentTypeOK'
    <2> HIDE DEF claimed, holder
    <2>1. tenure' \in [Jobs -> Nat]
        BY <1>1, <1>5 DEF AgentInv, AgentTypeOK
    <2>2. row' \in [Jobs -> JobRow]
        BY <1>3, <1>5 DEF AgentInv, AgentTypeOK
    <2>3. worker' \in [AgentWorkers -> WorkerRecord]
        BY <1>10 DEF AgentInv, AgentTypeOK, WorkerRecord
    <2>4. troubles' \in 0..MaxTroubles
        BY TroubleType DEF ClaimJob, AgentInv
    <2> QED BY <2>1, <2>2, <2>3, <2>4 DEF AgentInv, AgentTypeOK, WorkerRecord, ClaimJob
<1>7. Claims'
    <2>1. /\ holder.job = j /\ holder.attempt = n /\ holder.tenure = tenure[j] + 1
          /\ holder.epoch = worker[w].epoch /\ claimed.leased_by = WorkerId(w)
          /\ claimed.attempts = n
        BY <1>1 DEF WorkerRecord
    <2> HIDE DEF claimed, holder, n
    <2> SUFFICES ASSUME NEW u \in AgentWorkers, worker'[u].step \in Holding
                 PROVE  Claim(u)'
        BY DEF Claims, Claim
    <2>2. CASE u = w
        <3>1. worker'[w] = holder
            BY <1>10, <1>11, <2>2 DEF AgentInv, AgentTypeOK
        <3> QED BY <1>1, <1>2, <1>5, <2>1, <2>2, <3>1 DEF AgentInv, AgentTypeOK, WorkerId, Claim
    <2>3. CASE u # w
        <3>1. worker'[u] = worker[u] /\ worker[u].job \in Jobs /\ worker[u].attempt >= 1
            BY <1>10, <2>3 DEF AgentInv, AgentTypeOK, Claims, Claim
        <3>2. CASE worker[u].job = j
            BY <1>5, <2>1, <2>3, <3>1, <3>2 DEF AgentInv, AgentTypeOK, WorkerId, Claim
        <3>3. CASE worker[u].job # j
            BY <1>5, <2>3, <3>1, <3>3 DEF AgentInv, AgentTypeOK, WorkerId, Claims, Claim
        <3> QED BY <3>2, <3>3
    <2> QED BY <2>2, <2>3
<1>8. Recorded'
    <2> HIDE DEF n
    <2> QED BY <1>2, <1>5 DEF AgentInv, AgentTypeOK, Recorded, ClaimJob, TerminalJob
<1>9. Remembered'
    <2>1. row[j].status \notin {"NONE"} \cup TerminalJob /\ row[j].status \in JobStatuses
        BY <1>1 DEF ClaimJob, ReadyJob, ExpiredJob, JobRow, TerminalJob
    <2>2. Len(attemptLog[j]) \in Nat
        BY DEF AgentInv, AgentTypeOK
    <2>3. Whole(memory[j], Len(attemptLog[j]), "LEASED", outputs[j])
        <3>1. Whole(memory[j], Len(attemptLog[j]), row[j].status, outputs[j])
            BY DEF AgentInv, Remembered
        <3>2. /\ TerminalMemory(Len(attemptLog[j]), row[j].status) = <<>>
              /\ TerminalMemory(Len(attemptLog[j]), "LEASED") = <<>>
            BY <2>1, <2>2, ClosingFacts DEF TerminalJob, JobStatuses
        <3> QED BY <2>1, <3>1, <3>2 DEF Whole
    <2> HIDE DEF n
    <2>4. row'[j].status = "LEASED" /\ \A k \in Jobs : k # j => row'[k] = row[k]
        BY <1>5 DEF AgentInv, AgentTypeOK
    <2> QED BY <2>3, <2>4 DEF AgentInv, Remembered, ClaimJob
<1>12. Calling'
    BY <1>10, <1>11 DEF AgentInv, AgentTypeOK, Calling
<1> QED BY <1>6, <1>7, <1>8, <1>9, <1>12 DEF AgentInv

LEMMA ExpiresInv == ASSUME AgentInv, NEW j \in Jobs, LeaseExpires(j)
                    PROVE  AgentInv'
<1>1. row[j] \in JobRow /\ row[j].status = "LEASED"
    BY DEF AgentInv, AgentTypeOK, LeaseExpires
<1>2. [row[j] EXCEPT !.expired = TRUE] \in JobRow
    BY <1>1 DEF JobRow
<1>3. troubles' \in 0..MaxTroubles
    BY TroubleType DEF LeaseExpires, AgentInv
<1>4. AgentTypeOK'
    BY <1>2, <1>3 DEF AgentInv, AgentTypeOK, LeaseExpires
<1>5. \A k \in Jobs : /\ row'[k].status = row[k].status /\ row'[k].attempts = row[k].attempts
                       /\ row'[k].leased_by = row[k].leased_by
    BY <1>1 DEF AgentInv, AgentTypeOK, LeaseExpires, JobRow
<1>6. Claims'
    BY <1>5 DEF AgentInv, Claims, Claim, LeaseExpires, WorkerId
<1>7. Recorded' /\ Remembered'
    BY <1>5 DEF AgentInv, Recorded, Remembered, LeaseExpires
<1>8. Calling'
    BY DEF AgentInv, Calling, LeaseExpires
<1> QED BY <1>4, <1>6, <1>7, <1>8 DEF AgentInv

\* The steps in which a worker only moves on with its claim, or drops it.
LEMMA WorkerInv ==
    ASSUME AgentInv, NEW w \in AgentWorkers,
           \/ StartJob(w) \/ TakePermit(w) \/ TakeAgentLock(w) \/ RunAgent(w) \/ FinishRefused(w)
           \/ WorkerFails(w) \/ WorkerEnds(w) \/ WorkerCrashes(w)
    PROVE  AgentInv'
<1>1. /\ worker[w] \in WorkerRecord /\ worker \in [AgentWorkers -> WorkerRecord]
      /\ troubles \in 0..MaxTroubles /\ seen \in [InlineCallers -> TraceRecord]
    BY DEF AgentInv, AgentTypeOK, WorkerRecord, TraceRecord
<1>2. CASE StartJob(w)
    <2>1. CASE agentState = "replaced"
        <3> DEFINE r == [worker[w] EXCEPT !.step = "finish", !.result = "FAILED", !.retryable = FALSE]
        <3>1. worker' = [worker EXCEPT ![w] = r] /\ worker[w].step = "claimed"
            BY <1>1, <1>2, <2>1 DEF StartJob
        <3>2. /\ r \in WorkerRecord /\ r.job = worker[w].job /\ r.attempt = worker[w].attempt
              /\ r.tenure = worker[w].tenure /\ r.epoch = worker[w].epoch /\ r.step = "finish"
            BY <1>1 DEF WorkerRecord, WorkerSteps, AgentResults
        <3> HIDE DEF r
        <3> QED BY <1>1, <1>2, <3>1, <3>2, WorkerFrame DEF StartJob, Holding, Reading
    <2>2. CASE agentState # "replaced"
        <3> DEFINE r == [worker[w] EXCEPT !.step = "permit"]
        <3>1. worker' = [worker EXCEPT ![w] = r] /\ worker[w].step = "claimed"
            BY <1>1, <1>2, <2>2 DEF StartJob
        <3>2. /\ r \in WorkerRecord /\ r.job = worker[w].job /\ r.attempt = worker[w].attempt
              /\ r.tenure = worker[w].tenure /\ r.epoch = worker[w].epoch /\ r.step = "permit"
            BY <1>1 DEF WorkerRecord, WorkerSteps
        <3> HIDE DEF r
        <3> QED BY <1>1, <1>2, <3>1, <3>2, WorkerFrame DEF StartJob, Holding, Reading
    <2> QED BY <2>1, <2>2
<1>3. CASE TakePermit(w)
    <2> DEFINE r == [worker[w] EXCEPT !.step = "lock"]
    <2>1. worker' = [worker EXCEPT ![w] = r] /\ worker[w].step = "permit"
        BY <1>1, <1>3 DEF TakePermit
    <2>2. /\ r \in WorkerRecord /\ r.job = worker[w].job /\ r.attempt = worker[w].attempt
          /\ r.tenure = worker[w].tenure /\ r.epoch = worker[w].epoch /\ r.step = "lock"
        BY <1>1 DEF WorkerRecord, WorkerSteps
    <2> HIDE DEF r
    <2> QED BY <1>1, <1>3, <2>1, <2>2, WorkerFrame DEF TakePermit, Holding, Reading
<1>4. CASE TakeAgentLock(w)
    <2> DEFINE r == [worker[w] EXCEPT !.step = "run"]
    <2>1. worker' = [worker EXCEPT ![w] = r] /\ worker[w].step = "lock"
        BY <1>1, <1>4 DEF TakeAgentLock
    <2>2. /\ r \in WorkerRecord /\ r.job = worker[w].job /\ r.attempt = worker[w].attempt
          /\ r.tenure = worker[w].tenure /\ r.epoch = worker[w].epoch /\ r.step = "run"
        BY <1>1 DEF WorkerRecord, WorkerSteps
    <2> HIDE DEF r
    <2> QED BY <1>1, <1>4, <2>1, <2>2, WorkerFrame DEF TakeAgentLock, Holding, Reading
<1>5. CASE RunAgent(w)
    <2>1. PICK result \in RunResults, rejected \in BOOLEAN :
             worker' = [worker EXCEPT ![w].step = "finish",
                           ![w].result = IF rejected THEN "FAILED" ELSE result,
                           ![w].retryable = ~rejected /\ result \in BadResults]
        BY <1>5 DEF RunAgent
    <2> DEFINE outcome == IF rejected THEN "FAILED" ELSE result
               again == ~rejected /\ result \in BadResults
               r == [worker[w] EXCEPT !.step = "finish", !.result = outcome, !.retryable = again]
    <2>2. outcome \in AgentResults /\ again \in BOOLEAN
        BY DEF RunResults, AgentResults
    <2>3. worker' = [worker EXCEPT ![w] = r] /\ worker[w].step = "run"
        BY <1>1, <1>5, <2>1 DEF RunAgent
    <2> HIDE DEF outcome, again
    <2>4. /\ r \in WorkerRecord /\ r.job = worker[w].job /\ r.attempt = worker[w].attempt
          /\ r.tenure = worker[w].tenure /\ r.epoch = worker[w].epoch /\ r.step = "finish"
        BY <1>1, <2>2 DEF WorkerRecord, WorkerSteps
    <2> HIDE DEF r
    <2> QED BY <1>1, <1>5, <2>3, <2>4, WorkerFrame DEF RunAgent, Holding, Reading
<1>6. CASE FinishRefused(w) \/ WorkerFails(w) \/ WorkerEnds(w) \/ WorkerCrashes(w)
    <2>1. worker[w].epoch \in Nat /\ worker[w].epoch + 1 \in Nat
        BY <1>1 DEF WorkerRecord
    <2>2. PICK r \in WorkerRecord : /\ r.step \in {"idle", "ended"}
                                    /\ worker' = [worker EXCEPT ![w] = r]
        BY <1>1, <1>6, <2>1, IdleFacts, GoesOnFacts
           DEF FinishRefused, WorkerFails, WorkerEnds, WorkerCrashes
    <2>3. troubles' \in 0..MaxTroubles
        BY <1>6, TroubleType DEF FinishRefused, WorkerFails, WorkerEnds, WorkerCrashes, AgentInv
    <2>4. r.step \notin Holding /\ r.step \notin Reading
        BY <2>2 DEF Holding, Reading
    <2>5. UNCHANGED <<row, attemptLog, memory, outputs, seen, agentState, tenure>>
        BY <1>6 DEF FinishRefused, WorkerFails, WorkerEnds, WorkerCrashes
    <2> QED BY <1>1, <2>2, <2>3, <2>4, <2>5, WorkerFrame
<1> QED BY <1>2, <1>3, <1>4, <1>5, <1>6

LEMMA JoinFacts ==
    ASSUME NEW S, NEW s \in Seq(S), NEW t \in Seq(S)
    PROVE  /\ s \o t \in Seq(S) /\ Len(s \o t) = Len(s) + Len(t)
           /\ \A i \in 1..Len(s) : (s \o t)[i] = s[i]
           /\ \A i \in 1..Len(t) : (s \o t)[Len(s) + i] = t[i]
<1>1. Len(s) \in Nat /\ Len(t) \in Nat
    OBVIOUS
<1> QED BY <1>1, ConcatProperties

\* Recording the n-th attempt keeps the memory whole.
LEMMA WholeGrows ==
    ASSUME NEW entries \in Seq(MemoryEntry), NEW n \in Nat \ {0}, NEW out,
           NEW status \in {"COMPLETED", "RETRY", "DEAD_LETTER"},
           Whole(entries, n - 1, "LEASED", out)
    PROVE  LET more == entries \o <<<<2 * n, "ATTEMPT">>>> \o TerminalMemory(n, status)
           IN  /\ more \in Seq(MemoryEntry)
               /\ Whole(more, n, status, IF status \in TerminalJob THEN out + 1 ELSE out)
<1> DEFINE mark == <<<<2 * n, "ATTEMPT">>>>
           closing == TerminalMemory(n, status)
           most == entries \o mark
           more == most \o closing
<1>1. n - 1 \in Nat /\ n \in Nat /\ TerminalMemory(n - 1, "LEASED") = <<>>
    BY ClosingFacts DEF JobStatuses, TerminalJob
<1>2. /\ Len(entries) = n /\ entries[1] = <<1, "INPUT">> /\ out = 0
      /\ \A i \in 1..n - 1 : entries[i + 1] = <<2 * i, "ATTEMPT">>
    BY <1>1 DEF Whole
<1>3. mark \in Seq(MemoryEntry) /\ Len(mark) = 1 /\ mark[1] = <<2 * n, "ATTEMPT">>
    <2>1. <<2 * n, "ATTEMPT">> \in MemoryEntry
        BY DEF MemoryEntry
    <2> QED BY <2>1, OneEntry
<1>4. /\ closing \in Seq(MemoryEntry) /\ Len(closing) \in Nat
      /\ Len(closing) = IF status \in TerminalJob THEN 1 ELSE 0
    <2>1. status \in JobStatuses
        BY DEF JobStatuses
    <2>2. Len(<<>>) = 0
        OBVIOUS
    <2> QED BY <1>1, <2>1, <2>2, ClosingFacts
<1> HIDE DEF mark, closing
<1>5. /\ most \in Seq(MemoryEntry) /\ Len(most) = n + 1
      /\ \A i \in 1..n : most[i] = entries[i]
      /\ most[n + 1] = <<2 * n, "ATTEMPT">>
    <2>1. /\ most \in Seq(MemoryEntry) /\ Len(most) = Len(entries) + Len(mark)
          /\ \A i \in 1..Len(entries) : most[i] = entries[i]
          /\ \A i \in 1..Len(mark) : most[Len(entries) + i] = mark[i]
        <3>1. mark \in Seq(MemoryEntry) /\ entries \in Seq(MemoryEntry)
            BY <1>3
        <3> QED BY ONLY <3>1, JoinFacts
    <2> HIDE DEF most
    <2> QED BY <1>1, <1>2, <1>3, <2>1
<1> HIDE DEF most
<1>6. /\ more \in Seq(MemoryEntry) /\ Len(more) = n + 1 + Len(closing)
      /\ \A i \in 1..n + 1 : more[i] = most[i]
      /\ \A i \in 1..Len(closing) : more[n + 1 + i] = closing[i]
    <2>1. /\ more \in Seq(MemoryEntry) /\ Len(more) = Len(most) + Len(closing)
          /\ \A i \in 1..Len(most) : more[i] = most[i]
          /\ \A i \in 1..Len(closing) : more[Len(most) + i] = closing[i]
        <3>1. most \in Seq(MemoryEntry) /\ closing \in Seq(MemoryEntry)
            BY <1>4, <1>5
        <3> QED BY ONLY <3>1, JoinFacts
    <2> HIDE DEF more
    <2> QED BY <1>1, <1>4, <1>5, <2>1
<1> HIDE DEF more
<1>7. more[1] = <<1, "INPUT">> /\ \A i \in 1..n : more[i + 1] = <<2 * i, "ATTEMPT">>
    <2>1. ASSUME NEW i \in 1..n PROVE more[i + 1] = <<2 * i, "ATTEMPT">>
        <3>1. CASE i = n
            BY <1>1, <1>5, <1>6, <3>1
        <3>2. CASE i # n
            BY <1>1, <1>2, <1>5, <1>6, <3>2
        <3> QED BY <3>1, <3>2
    <2>2. 1 \in 1..n /\ 1 \in 1..n + 1
        BY <1>1
    <2>3. more[1] = <<1, "INPUT">>
        BY <1>2, <1>5, <1>6, <2>2
    <2> QED BY <2>1, <2>3
<1>8. Whole(more, n, status, IF status \in TerminalJob THEN out + 1 ELSE out)
    BY <1>1, <1>2, <1>4, <1>6, <1>7 DEF Whole, closing
<1> QED BY <1>6, <1>8 DEF more, most, mark, closing

LEMMA FinishInv == ASSUME AgentInv, NEW w \in AgentWorkers, FinishJob(w)
                   PROVE  AgentInv'
<1> DEFINE j == worker[w].job
           n == worker[w].attempt
           status == FinishedStatus(w)
           done == [row[j] EXCEPT !.status = status, !.leased_by = Nobody, !.expired = FALSE]
           more == memory[j] \o <<<<2 * n, "ATTEMPT">>>> \o TerminalMemory(n, status)
<1>1. /\ worker[w] \in WorkerRecord /\ worker \in [AgentWorkers -> WorkerRecord]
      /\ j \in Jobs /\ row[j] \in JobRow
    BY DEF AgentInv, AgentTypeOK, WorkerRecord, FinishJob, Claims, Claim, Holding
<1>2. /\ row[j].status = "LEASED" /\ row[j].attempts = n /\ Len(attemptLog[j]) = n - 1
      /\ n \in Nat \ {0} /\ n \in 0..MaxAttempts /\ worker[w].result \in AttemptRow
    BY <1>1, AgentAssumption DEF FinishJob, MayFinish, AgentInv, Claims, Claim, Holding, WorkerRecord, AttemptRow
<1>3. status \in {"COMPLETED", "RETRY", "DEAD_LETTER"}
    BY <1>2, FinishFacts
<1>4. PICK r \in WorkerRecord :
         /\ worker' = [worker EXCEPT ![w] = r]
         /\ r.step \notin Holding /\ (r.step \in Reading => r.job \in Jobs)
    <2>1. worker[w].epoch \in Nat
        BY <1>1 DEF WorkerRecord
    <2>2. PICK r \in WorkerRecord :
             /\ worker' = [worker EXCEPT ![w] = r] /\ r.step \in {"idle", "ended", "load"}
             /\ r.step = "load" => r.job = worker[w].job
        BY <1>1, <2>1, IdleFacts, GoesOnFacts DEF FinishJob, Announce
    <2> QED BY <1>1, <2>2 DEF Holding, Reading
<1>5. done \in JobRow /\ done.status = status /\ done.attempts = n /\ done.leased_by = Nobody
    <2> HIDE DEF status
    <2> QED BY <1>1, <1>2, <1>3 DEF JobRow, JobStatuses, Nobody
<1>6. more \in Seq(MemoryEntry) /\ Whole(more, n, status, outputs'[j]) /\ outputs'[j] \in Nat
    <2>1. memory[j] \in Seq(MemoryEntry) /\ outputs[j] \in Nat
        BY <1>1 DEF AgentInv, AgentTypeOK
    <2>2. Whole(memory[j], n - 1, "LEASED", outputs[j])
        BY <1>1, <1>2 DEF AgentInv, Remembered
    <2>3. outputs'[j] = IF status \in TerminalJob THEN outputs[j] + 1 ELSE outputs[j]
        BY <1>1 DEF FinishJob, AgentInv, AgentTypeOK
    <2>4. more \in Seq(MemoryEntry) /\ Whole(more, n, status, outputs'[j])
        <3> HIDE DEF n, status
        <3> QED BY <1>2, <1>3, <2>1, <2>2, <2>3, WholeGrows
    <2> HIDE DEF j, n, status, more
    <2> QED BY <2>1, <2>3, <2>4
<1>7. /\ row' = [row EXCEPT ![j] = done] /\ memory' = [memory EXCEPT ![j] = more]
      /\ attemptLog' = [attemptLog EXCEPT ![j] = Append(attemptLog[j], worker[w].result)]
      /\ outputs' = [outputs EXCEPT ![j] = outputs'[j]]
    BY <1>1 DEF FinishJob, AgentInv, AgentTypeOK
<1>8. UNCHANGED <<seen, tenure, agentState>> /\ troubles' \in 0..MaxTroubles
    BY TroubleType DEF FinishJob, Announce, AgentInv
<1> HIDE DEF j, n, status, done, more
<1>9. AgentTypeOK'
    <2>1. worker' \in [AgentWorkers -> WorkerRecord]
        BY <1>1, <1>4
    <2>2. row' \in [Jobs -> JobRow] /\ memory' \in [Jobs -> Seq(MemoryEntry)]
        BY <1>1, <1>5, <1>6, <1>7 DEF AgentInv, AgentTypeOK
    <2>3. attemptLog' \in [Jobs -> Seq(AttemptRow)]
        <3>1. attemptLog[j] \in Seq(AttemptRow) /\ Append(attemptLog[j], worker[w].result) \in Seq(AttemptRow)
            BY <1>1, <1>2 DEF AgentInv, AgentTypeOK
        <3> QED BY <1>1, <1>7, <3>1 DEF AgentInv, AgentTypeOK
    <2>4. outputs' \in [Jobs -> Nat]
        BY <1>1, <1>6, <1>7 DEF AgentInv, AgentTypeOK
    <2> QED BY <1>8, <2>1, <2>2, <2>3, <2>4 DEF AgentInv, AgentTypeOK, WorkerRecord
<1>10. Claims'
    <2> SUFFICES ASSUME NEW u \in AgentWorkers, worker'[u].step \in Holding PROVE Claim(u)'
        BY DEF Claims
    <2>1. u # w /\ worker'[u] = worker[u] /\ Claim(u)
        BY <1>1, <1>4 DEF AgentInv, Claims
    <2>2. WorkerId(u) # Nobody
        BY DEF WorkerId, Nobody
    <2>3. CASE worker[u].job = j
        BY <1>1, <1>5, <1>7, <2>1, <2>2, <2>3 DEF Claim, WorkerId, AgentInv, AgentTypeOK
    <2>4. CASE worker[u].job # j
        BY <1>1, <1>7, <1>8, <2>1, <2>4 DEF Claim, WorkerId, AgentInv, AgentTypeOK
    <2> QED BY <2>3, <2>4
<1>11. Len(attemptLog'[j]) = n
    BY <1>1, <1>2, <1>7 DEF AgentInv, AgentTypeOK
<1>12. Recorded'
    <2>1. row'[j] = done /\ row \in [Jobs -> JobRow] /\ attemptLog \in [Jobs -> Seq(AttemptRow)]
        BY <1>1, <1>7 DEF AgentInv, AgentTypeOK
    <2>2. \A k \in Jobs : k # j => row'[k] = row[k] /\ attemptLog'[k] = attemptLog[k]
        BY <1>7, <2>1
    <2>3. \A k \in Jobs :
             LET len == Len(attemptLog'[k])
             IN  /\ row'[k].status = "LEASED" => len = row'[k].attempts - 1
                 /\ row'[k].status # "LEASED" => len = row'[k].attempts
                 /\ row'[k].status \in {"NONE", "PENDING"} => row'[k].attempts = 0
                 /\ row'[k].status \in TerminalJob => row'[k].attempts >= 1
        <3> SUFFICES ASSUME NEW k \in Jobs
                     PROVE  LET len == Len(attemptLog'[k])
                            IN  /\ row'[k].status = "LEASED" => len = row'[k].attempts - 1
                                /\ row'[k].status # "LEASED" => len = row'[k].attempts
                                /\ row'[k].status \in {"NONE", "PENDING"} => row'[k].attempts = 0
                                /\ row'[k].status \in TerminalJob => row'[k].attempts >= 1
            OBVIOUS
        <3>1. CASE k = j
            <4>1. n >= 1
                BY <1>2
            <4> HIDE DEF n, status
            <4> QED BY <1>3, <1>5, <1>11, <2>1, <3>1, <4>1
        <3>2. CASE k # j
            BY <2>2, <3>2 DEF AgentInv, Recorded
        <3> QED BY <3>1, <3>2
    <2> QED BY <2>3 DEF Recorded
<1>13. Remembered'
    BY <1>1, <1>5, <1>6, <1>7, <1>11 DEF AgentInv, AgentTypeOK, Remembered
<1>14. Calling'
    BY <1>1, <1>4 DEF AgentInv, Calling
<1> QED BY <1>9, <1>10, <1>12, <1>13, <1>14 DEF AgentInv

LEMMA AgentStepInv == AgentInv /\ [AgentNext]_agentVars => AgentInv'
<1> SUFFICES ASSUME AgentInv, [AgentNext]_agentVars PROVE AgentInv'
    OBVIOUS
<1>1. CASE UNCHANGED agentVars
    BY <1>1 DEF agentVars, AgentInv, AgentTypeOK, Calling, Claims, Claim, WorkerId, Recorded, Remembered
<1>2. ASSUME NEW s \in AgentStates, SetAgentState(s) PROVE AgentInv'
    BY <1>2 DEF SetAgentState, AgentInv, AgentTypeOK, Calling, Claims, Claim, WorkerId, Recorded,
                Remembered
<1> QED BY <1>1, <1>2, SubmitInv, BeginInv, CallInv, ClaimInv, ExpiresInv, WorkerInv, FinishInv
        DEF AgentNext, AgentWorkerStep

-----------------------------------------------------------------------------
(* The theorems *)

LEMMA AgentInvariant == AgentSpec => []AgentInv
    BY AgentInitInv, AgentStepInv, PTL DEF AgentSpec

\* The tables keep their CHECK constraints and the workers their bounds.
THEOREM AgentTypes == AgentSpec => []AgentTypeOK
<1>1. AgentInv => AgentTypeOK
    BY DEF AgentInv
<1> QED BY <1>1, AgentInvariant, PTL

\* finish_agent_execution only accepts the latest claim of a job, although a
\* take-over keeps the attempt number of the lease it replaces.
THEOREM ResultsAreFenced == AgentSpec => []FencedResults
<1>1. AgentInv => FencedResults
    BY DEF AgentInv, FencedResults, Fenced, MayFinish, Claims, Claim, Holding
<1> QED BY <1>1, AgentInvariant, PTL

\* The sequence that Whole describes entry by entry.
LEMMA WholeIsTrace ==
    ASSUME NEW entries \in Seq(MemoryEntry), NEW n \in Nat, NEW status \in JobStatuses, NEW out,
           Whole(entries, n, status, out), status # "NONE", status \in TerminalJob => n >= 1
    PROVE  /\ entries = <<<<1, "INPUT">>>> \o [i \in 1..n |-> <<2 * i, "ATTEMPT">>]
                           \o TerminalMemory(n, status)
           /\ \A i, k \in DOMAIN entries : i < k => entries[i][1] < entries[k][1]
<1> DEFINE first == <<<<1, "INPUT">>>>
           attempts == [i \in 1..n |-> <<2 * i, "ATTEMPT">>]
           closing == TerminalMemory(n, status)
           start == first \o attempts
           all == start \o closing
<1>1. first \in Seq(MemoryEntry) /\ Len(first) = 1 /\ first[1] = <<1, "INPUT">>
    <2>1. <<1, "INPUT">> \in MemoryEntry
        BY DEF MemoryEntry
    <2> QED BY <2>1, OneEntry
<1>2. /\ attempts \in Seq(MemoryEntry) /\ Len(attempts) = n
      /\ \A i \in 1..n : attempts[i] = <<2 * i, "ATTEMPT">>
    <2>1. attempts \in [1..n -> MemoryEntry]
        BY DEF MemoryEntry
    <2> QED BY <2>1
<1>3. /\ closing \in Seq(MemoryEntry) /\ Len(closing) \in {0, 1}
      /\ Len(closing) = 1 => closing[1][1] = 2 * n + 1 /\ n >= 1
    <2>1. Len(<<>>) = 0
        OBVIOUS
    <2>2. CASE status \in TerminalJob
        BY <2>2, ClosingFacts
    <2>3. CASE status \notin TerminalJob
        <3>1. closing = <<>> /\ closing \in Seq(MemoryEntry)
            BY <2>3, ClosingFacts
        <3> HIDE DEF closing
        <3> QED BY <2>1, <3>1
    <2> QED BY <2>2, <2>3
<1> HIDE DEF first, attempts, closing
<1>4. /\ start \in Seq(MemoryEntry) /\ Len(start) = n + 1
      /\ start[1] = <<1, "INPUT">>
      /\ \A i \in 1..n : start[i + 1] = <<2 * i, "ATTEMPT">>
    <2>1. first \in Seq(MemoryEntry) /\ attempts \in Seq(MemoryEntry)
        BY <1>1, <1>2
    <2>2. /\ start \in Seq(MemoryEntry) /\ Len(start) = Len(first) + Len(attempts)
          /\ \A i \in 1..Len(first) : start[i] = first[i]
          /\ \A i \in 1..Len(attempts) : start[Len(first) + i] = attempts[i]
        BY ONLY <2>1, JoinFacts
    <2> HIDE DEF start
    <2>3. start[1] = <<1, "INPUT">>
        BY <1>1, <2>2
    <2>4. ASSUME NEW i \in 1..n PROVE start[i + 1] = <<2 * i, "ATTEMPT">>
        <3>1. start[1 + i] = attempts[i]
            BY <1>1, <1>2, <2>2
        <3>2. 1 + i = i + 1
            OBVIOUS
        <3> QED BY <1>2, <3>1, <3>2
    <2> QED BY <1>1, <1>2, <2>2, <2>3, <2>4
<1> HIDE DEF start
<1>5. /\ all \in Seq(MemoryEntry) /\ Len(all) = n + 1 + Len(closing)
      /\ \A i \in 1..n + 1 : all[i] = start[i]
      /\ \A i \in 1..Len(closing) : all[n + 1 + i] = closing[i]
    <2>1. start \in Seq(MemoryEntry) /\ closing \in Seq(MemoryEntry)
        BY <1>3, <1>4
    <2>2. /\ all \in Seq(MemoryEntry) /\ Len(all) = Len(start) + Len(closing)
          /\ \A i \in 1..Len(start) : all[i] = start[i]
          /\ \A i \in 1..Len(closing) : all[Len(start) + i] = closing[i]
        BY ONLY <2>1, JoinFacts
    <2> HIDE DEF all
    <2> QED BY <1>3, <1>4, <2>2
<1> HIDE DEF all
<1>6. /\ Len(entries) = 1 + n + Len(closing) /\ entries[1] = <<1, "INPUT">>
      /\ \A i \in 1..n : entries[i + 1] = <<2 * i, "ATTEMPT">>
      /\ \A i \in 1..Len(closing) : entries[n + 1 + i] = closing[i]
    BY DEF Whole, closing
<1>7. ASSUME NEW i \in 1..Len(entries)
      PROVE  /\ entries[i] = all[i]
             /\ i <= n + 1 => entries[i][1] = IF i = 1 THEN 1 ELSE 2 * (i - 1)
             /\ i > n + 1 => i = n + 2 /\ n >= 1 /\ entries[i][1] = 2 * n + 1
    <2>1. CASE i = 1
        <3>1. 1 \in 1..n + 1 /\ ~(1 > n + 1)
            OBVIOUS
        <3>2. all[1] = <<1, "INPUT">>
            BY <1>4, <1>5, <3>1
        <3> QED BY <1>6, <2>1, <3>1, <3>2
    <2>2. CASE i \in 2..n + 1
        <3>1. PICK m \in 1..n : i = m + 1
            BY <2>2
        <3>2. entries[i] = <<2 * m, "ATTEMPT">> /\ all[i] = <<2 * m, "ATTEMPT">>
            BY <1>4, <1>5, <1>6, <3>1
        <3> QED BY <3>1, <3>2
    <2>3. CASE i > n + 1
        <3>1. i = n + 1 + 1 /\ Len(closing) = 1
            <4>1. Len(closing) \in {0, 1}
                BY <1>3
            <4>2. i <= 1 + n + Len(closing)
                BY <1>6
            <4>3. i \in Int /\ n \in Nat
                BY <1>3, <1>6
            <4>4. CASE Len(closing) = 0
                <5>1. i <= 1 + n
                    BY <4>2, <4>3, <4>4
                <5> QED BY <2>3, <4>3, <5>1
            <4>5. CASE Len(closing) = 1
                <5>1. i <= n + 1 + 1
                    BY <4>2, <4>3, <4>5
                <5> QED BY <2>3, <4>3, <4>5, <5>1
            <4> QED BY <4>1, <4>4, <4>5
        <3>2. 1 \in 1..Len(closing)
            BY <3>1
        <3>3. entries[n + 1 + 1] = closing[1] /\ all[n + 1 + 1] = closing[1]
            BY <1>5, <1>6, <3>2
        <3> QED BY <1>3, <2>3, <3>1, <3>3
    <2> QED BY <1>3, <1>6, <2>1, <2>2, <2>3
<1>8. entries = all
    BY <1>3, <1>5, <1>6, <1>7, SeqEqual
<1>9. ASSUME NEW i \in DOMAIN entries, NEW k \in DOMAIN entries, i < k
      PROVE  entries[i][1] < entries[k][1]
    <2>1. i \in 1..Len(entries) /\ k \in 1..Len(entries) /\ Len(entries) \in Nat
        OBVIOUS
    <2>2. i <= n + 1
        BY <1>7, <2>1, <1>9
    <2>3. entries[i][1] = IF i = 1 THEN 1 ELSE 2 * (i - 1)
        BY <1>7, <2>1, <2>2
    <2>4. entries[k][1] = IF k <= n + 1 THEN 2 * (k - 1) ELSE 2 * n + 1
        BY <1>7, <2>1, <1>9
    <2>5. k > n + 1 => n >= 1
        BY <1>7, <2>1
    <2>8. i \in Int /\ k \in Int /\ n \in Nat /\ i >= 1 /\ i < k
        BY <2>1, <1>9
    <2>6. CASE i = 1
        BY <2>3, <2>4, <2>5, <2>6, <2>8
    <2>7. CASE i # 1
        BY <2>2, <2>3, <2>4, <2>7, <2>8
    <2> QED BY <2>6, <2>7
<1> QED BY <1>8, <1>9 DEF all, start, first, attempts, closing

\* The trace of a job is whole and can be loaded in every state.
THEOREM TracesAreWellFormed == AgentSpec => []TraceWellFormed
<1>1. ASSUME AgentInv, NEW j \in Jobs
      PROVE  LET n == Len(attemptLog[j])
                 attempts == [i \in 1..n |-> <<2 * i, "ATTEMPT">>]
                 closing == TerminalMemory(n, row[j].status)
             IN  /\ ValidTrace(row[j], attemptLog[j], memory[j])
                 /\ memory[j] = IF row[j].status = "NONE" THEN <<>>
                                ELSE <<<<1, "INPUT">>>> \o attempts \o closing
                 /\ outputs[j] = Len(closing)
    <2>1. /\ memory[j] \in Seq(MemoryEntry) /\ Len(attemptLog[j]) \in Nat
          /\ row[j].status \in JobStatuses /\ row[j].attempts \in Nat
        BY <1>1, AgentAssumption DEF AgentInv, AgentTypeOK, JobRow
    <2>2. Whole(memory[j], Len(attemptLog[j]), row[j].status, outputs[j])
        BY <1>1 DEF AgentInv, Remembered
    <2>3. Len(attemptLog[j]) <= row[j].attempts
        BY <1>1, <2>1 DEF AgentInv, Recorded
    <2>4. CASE row[j].status = "NONE"
        <3>1. memory[j] = <<>> /\ outputs[j] = Len(TerminalMemory(Len(attemptLog[j]), row[j].status))
            BY <2>2, <2>4 DEF Whole
        <3> QED BY <2>3, <2>4, <3>1 DEF ValidTrace
    <2>5. CASE row[j].status # "NONE"
        <3>1. outputs[j] = Len(TerminalMemory(Len(attemptLog[j]), row[j].status))
            BY <2>2 DEF Whole
        <3>2. /\ memory[j] = <<<<1, "INPUT">>>>
                             \o [i \in 1..Len(attemptLog[j]) |-> <<2 * i, "ATTEMPT">>]
                             \o TerminalMemory(Len(attemptLog[j]), row[j].status)
              /\ \A i, k \in DOMAIN memory[j] : i < k => memory[j][i][1] < memory[j][k][1]
            <4>1. row[j].status \in TerminalJob => Len(attemptLog[j]) >= 1
                BY <1>1, <2>1 DEF AgentInv, Recorded, TerminalJob
            <4> QED BY <2>1, <2>2, <2>5, <4>1, WholeIsTrace
        <3>3. ValidTrace(row[j], attemptLog[j], memory[j])
            BY <2>3, <3>2 DEF ValidTrace
        <3> QED BY <2>5, <3>1, <3>2, <3>3
    <2> QED BY <2>4, <2>5
<1>2. AgentInv => TraceWellFormed
    BY <1>1 DEF TraceWellFormed
<1> QED BY <1>2, AgentInvariant, PTL

-----------------------------------------------------------------------------
(* What a caller returns *)

\* A caller that has seen a terminal job has seen what its rows still are.
Loaded ==
    \A c \in InlineCallers :
        LET j == worker[c].job
        IN  /\ worker[c].step \in {"loadAttempts", "loadMemory", "returned"} /\ Executed(c) =>
                  seen[c].row = row[j]
            /\ worker[c].step \in {"loadMemory", "returned"} /\ Executed(c) =>
                  seen[c].attempts = attemptLog[j]
            /\ worker[c].step = "returned" =>
                  j \in Jobs /\ Executed(c) /\ seen[c].memory = memory[j]

\* Nothing is written for a terminal job.
LEMMA TerminalStays ==
    ASSUME AgentInv, [AgentNext]_agentVars, NEW j \in Jobs, row[j].status \in TerminalJob
    PROVE  row'[j] = row[j] /\ attemptLog'[j] = attemptLog[j] /\ memory'[j] = memory[j]
<1>1. /\ row \in [Jobs -> JobRow] /\ attemptLog \in [Jobs -> Seq(AttemptRow)]
      /\ memory \in [Jobs -> Seq(MemoryEntry)]
    BY DEF AgentInv, AgentTypeOK
<1>2. ASSUME NEW k \in Jobs, SubmitJob(k) \/ \E c \in InlineCallers : BeginExecute(c, k)
      PROVE  row'[j] = row[j] /\ attemptLog'[j] = attemptLog[j] /\ memory'[j] = memory[j]
    BY <1>1, <1>2 DEF SubmitJob, BeginExecute, CreatedJob, TerminalJob
<1>3. ASSUME NEW k \in Jobs, LeaseExpires(k) \/ \E w \in AgentWorkers : ClaimJob(w, k)
      PROVE  row'[j] = row[j] /\ attemptLog'[j] = attemptLog[j] /\ memory'[j] = memory[j]
    BY <1>1, <1>3 DEF LeaseExpires, ClaimJob, ReadyJob, ExpiredJob, TerminalJob
<1>4. ASSUME NEW w \in AgentWorkers, FinishJob(w)
      PROVE  row'[j] = row[j] /\ attemptLog'[j] = attemptLog[j] /\ memory'[j] = memory[j]
    BY <1>1, <1>4 DEF FinishJob, MayFinish, TerminalJob
<1>5. ASSUME NEW w \in AgentWorkers,
             \/ StartJob(w) \/ TakePermit(w) \/ TakeAgentLock(w) \/ RunAgent(w)
             \/ FinishRefused(w) \/ WorkerFails(w) \/ WorkerEnds(w) \/ WorkerCrashes(w)
      PROVE  UNCHANGED <<row, attemptLog, memory>>
    BY <1>5 DEF StartJob, TakePermit, TakeAgentLock, RunAgent, FinishRefused,
                WorkerFails, WorkerEnds, WorkerCrashes
<1>6. ASSUME NEW c \in InlineCallers, CallStep(c) \/ CallFails(c)
      PROVE  UNCHANGED <<row, attemptLog, memory>>
    BY <1>6 DEF CallStep, CallFails, LoadJob, LoadAttempts, LoadMemory, ClaimRefused
<1>7. ASSUME NEW s \in AgentStates, SetAgentState(s) PROVE UNCHANGED <<row, attemptLog, memory>>
    BY <1>7 DEF SetAgentState
<1> QED BY <1>2, <1>3, <1>4, <1>5, <1>6, <1>7 DEF AgentNext, AgentWorkerStep, agentVars

\* A caller that is reading stays where it is, reads on or leaves off.
LEMMA ReadingStep ==
    ASSUME AgentInv, [AgentNext]_agentVars, NEW c \in InlineCallers
    PROVE  \/ worker'[c] = worker[c] /\ seen'[c] = seen[c]
           \/ worker'[c].step \notin {"loadAttempts", "loadMemory", "returned"}
           \/ LoadJob(c) \/ LoadAttempts(c) \/ LoadMemory(c)
<1> DEFINE Goal == \/ worker'[c] = worker[c] /\ seen'[c] = seen[c]
                   \/ worker'[c].step \notin {"loadAttempts", "loadMemory", "returned"}
                   \/ LoadJob(c) \/ LoadAttempts(c) \/ LoadMemory(c)
<1>1. /\ worker \in [AgentWorkers -> WorkerRecord] /\ seen \in [InlineCallers -> TraceRecord]
      /\ c \in AgentWorkers
    BY DEF AgentInv, AgentTypeOK, WorkerRecord, TraceRecord, AgentWorkers
<1>2. CASE worker' = worker /\ seen' = seen
    BY <1>2
<1>3. ASSUME NEW w \in AgentWorkers, NEW r, worker' = [worker EXCEPT ![w] = r], UNCHANGED seen,
             r.step \notin {"loadAttempts", "loadMemory", "returned"}
      PROVE  Goal
    BY <1>1, <1>3
<1>4. ASSUME NEW d \in InlineCallers, NEW j \in Jobs, BeginExecute(d, j) PROVE Goal
    BY <1>1, <1>4 DEF BeginExecute, AgentWorkers, WorkerRecord
<1>5. ASSUME NEW w \in AgentWorkers, NEW j \in Jobs, ClaimJob(w, j) PROVE Goal
    <2>1. Raised(w).step \in {"idle", "ended"}
        BY <1>1, GoesOnFacts
    <2>2. CASE worker' = [worker EXCEPT ![w] = Raised(w)]
        BY <1>1, <1>5, <2>1, <2>2 DEF ClaimJob
    <2>3. CASE worker'[w].step = "claimed" /\ \A u \in AgentWorkers : u # w => worker'[u] = worker[u]
        BY <1>1, <1>5, <2>3 DEF ClaimJob
    <2> QED BY <1>1, <1>5, <2>2, <2>3 DEF ClaimJob, WorkerRecord
<1>6. ASSUME NEW w \in AgentWorkers,
             StartJob(w) \/ TakePermit(w) \/ TakeAgentLock(w) \/ RunAgent(w)
      PROVE  Goal
    <2>1. /\ seen' = seen /\ \A u \in AgentWorkers : u # w => worker'[u] = worker[u]
          /\ worker'[w].step \notin {"loadAttempts", "loadMemory", "returned"}
        <3> HIDE DEF Goal
        <3>1. CASE StartJob(w)
            BY <1>1, <3>1 DEF StartJob, WorkerRecord
        <3>2. CASE TakePermit(w) \/ TakeAgentLock(w)
            BY <1>1, <3>2 DEF TakePermit, TakeAgentLock, WorkerRecord
        <3>3. CASE RunAgent(w)
            BY <1>1, <3>3 DEF RunAgent, WorkerRecord
        <3> QED BY <1>6, <3>1, <3>2, <3>3
    <2> QED BY <1>1, <2>1
<1>7. ASSUME NEW w \in AgentWorkers, FinishJob(w) \/ FinishRefused(w) \/ WorkerFails(w)
      PROVE  Goal
    <2>1. /\ Raised(w).step \in {"idle", "ended"} /\ Looping(w).step \in {"idle", "load"}
          /\ EndedWorker(worker[w].epoch).step = "ended"
        BY <1>1, GoesOnFacts, IdleFacts DEF WorkerRecord
    <2> HIDE DEF Goal
    <2>2. CASE FinishJob(w)
        BY <1>1, <1>3, <2>1, <2>2 DEF FinishJob, Announce
    <2>3. CASE FinishRefused(w) \/ WorkerFails(w)
        BY <1>1, <1>3, <2>1, <2>3 DEF FinishRefused, WorkerFails
    <2> QED BY <1>7, <2>2, <2>3
<1>8. ASSUME NEW w \in AgentWorkers, WorkerEnds(w) \/ WorkerCrashes(w) PROVE Goal
    <2>1. /\ EndedWorker(worker[w].epoch).step = "ended"
          /\ IdleWorker(worker[w].epoch + 1).step = "idle"
        <3>1. worker[w].epoch \in Nat /\ worker[w].epoch + 1 \in Nat
            BY <1>1 DEF WorkerRecord
        <3> HIDE DEF Goal
        <3> QED BY <3>1, IdleFacts
    <2> HIDE DEF Goal
    <2> QED BY <1>1, <1>3, <1>8, <2>1 DEF WorkerEnds, WorkerCrashes
<1>9. ASSUME NEW d \in InlineCallers, CallStep(d) \/ CallFails(d) PROVE Goal
    <2>1. d \in AgentWorkers /\ EndedWorker(worker[d].epoch).step = "ended"
        BY <1>1, IdleFacts DEF WorkerRecord, AgentWorkers
    <2>2. CASE d # c
        <3>1. worker'[c] = worker[c] /\ seen'[c] = seen[c]
            BY <1>1, <1>9, <2>1, <2>2
               DEF CallStep, CallFails, LoadJob, LoadAttempts, LoadMemory, ClaimRefused
        <3> QED BY <3>1
    <2>3. CASE d = c
        <3>1. ClaimRefused(c) => worker'[c].step = "load"
            BY <1>1 DEF ClaimRefused, WorkerRecord
        <3>2. CallFails(c) => worker'[c].step = "ended"
            BY <1>1, <2>1, <2>3 DEF CallFails
        <3> QED BY <1>9, <2>3, <3>1, <3>2 DEF CallStep
    <2> QED BY <2>2, <2>3
<1>10. ASSUME NEW j \in Jobs, SubmitJob(j) \/ LeaseExpires(j) PROVE Goal
    BY <1>2, <1>10 DEF SubmitJob, LeaseExpires
<1>12. ASSUME NEW s \in AgentStates, SetAgentState(s) PROVE Goal
    BY <1>2, <1>12 DEF SetAgentState
<1> HIDE DEF Goal
<1>11. Goal
    <2>1. CASE AgentNext
        BY <2>1, <1>4, <1>5, <1>6, <1>7, <1>8, <1>9, <1>10, <1>12 DEF AgentNext, AgentWorkerStep
    <2>2. CASE UNCHANGED agentVars
        <3>1. worker' = worker /\ seen' = seen
            BY <2>2 DEF agentVars
        <3> QED BY <3>1 DEF Goal
    <2> QED BY <2>1, <2>2
<1> QED BY <1>11 DEF Goal

LEMMA LoadedStep ==
    ASSUME AgentInv, Loaded, [AgentNext]_agentVars
    PROVE  Loaded'
<1> SUFFICES ASSUME NEW c \in InlineCallers
             PROVE  LET j == worker'[c].job
                        final == seen'[c].row.status \in TerminalJob
                    IN  /\ worker'[c].step \in {"loadAttempts", "loadMemory", "returned"} /\ final =>
                              seen'[c].row = row'[j]
                        /\ worker'[c].step \in {"loadMemory", "returned"} /\ final =>
                              seen'[c].attempts = attemptLog'[j]
                        /\ worker'[c].step = "returned" =>
                              j \in Jobs /\ final /\ seen'[c].memory = memory'[j]
    BY DEF Loaded, Executed
<1> DEFINE j == worker[c].job
<1>1. /\ worker \in [AgentWorkers -> WorkerRecord] /\ seen \in [InlineCallers -> TraceRecord]
      /\ c \in AgentWorkers
    BY DEF AgentInv, AgentTypeOK, WorkerRecord, TraceRecord, AgentWorkers
<1>2. worker[c].step \in Reading => j \in Jobs
    BY <1>1 DEF AgentInv, Calling
<1>3. CASE worker'[c] = worker[c] /\ seen'[c] = seen[c]
    <2>1. worker[c].step \in {"loadAttempts", "loadMemory", "returned"} => j \in Jobs
        BY <1>2 DEF Loaded, Reading
    <2>2. CASE j \in Jobs /\ row[j].status \in TerminalJob
        BY <1>3, <2>2, TerminalStays DEF Loaded, Executed
    <2>3. CASE row[j].status \notin TerminalJob
        BY <1>3, <2>3 DEF Loaded, Executed
    <2> QED BY <1>3, <2>1, <2>2, <2>3
<1>4. CASE worker'[c].step \notin {"loadAttempts", "loadMemory", "returned"}
    BY <1>4
<1>5. CASE LoadJob(c)
    <2>1. /\ worker'[c].step = "loadAttempts" /\ worker'[c].job = j
          /\ seen'[c].row = row[j] /\ row' = row
        BY <1>1, <1>5 DEF LoadJob, WorkerRecord, TraceRecord
    <2> QED BY <2>1
<1>6. CASE LoadAttempts(c)
    <2>1. /\ worker[c].step = "loadAttempts" /\ worker'[c].step = "loadMemory" /\ worker'[c].job = j
          /\ seen'[c].row = seen[c].row /\ seen'[c].attempts = attemptLog[j]
          /\ row' = row /\ attemptLog' = attemptLog
        BY <1>1, <1>6 DEF LoadAttempts, WorkerRecord, TraceRecord
    <2> QED BY <2>1 DEF Loaded, Executed
<1>7. CASE LoadMemory(c)
    <2>1. worker[c].step = "loadMemory" /\ j \in Jobs
        BY <1>2, <1>7 DEF LoadMemory, Reading
    <2>2. CASE worker'[c].step = "returned"
        <3>1. /\ worker'[c].job = j /\ Executed(c)
              /\ seen'[c].row = seen[c].row /\ seen'[c].attempts = seen[c].attempts
              /\ seen'[c].memory = memory[j]
            <4>1. EndedWorker(worker[c].epoch).step = "ended"
                BY <1>1, IdleFacts DEF WorkerRecord
            <4> QED BY <1>1, <1>7, <2>2, <4>1 DEF LoadMemory, WorkerRecord, TraceRecord
        <3>2. UNCHANGED <<row, attemptLog, memory>>
            BY <1>7 DEF LoadMemory
        <3> QED BY <2>1, <2>2, <3>1, <3>2 DEF Loaded, Executed
    <2>3. CASE worker'[c].step # "returned"
        <3>1. worker'[c].step \in {"ended", "load", "try"}
            <4>1. EndedWorker(worker[c].epoch).step = "ended"
                BY <1>1, IdleFacts DEF WorkerRecord
            <4> QED BY <1>1, <1>7, <2>3, <4>1 DEF LoadMemory, WorkerRecord
        <3> QED BY <3>1
    <2> QED BY <2>2, <2>3
<1> HIDE DEF j
<1> QED BY <1>3, <1>4, <1>5, <1>6, <1>7, ReadingStep

\* The trace execute() returns is all that is and ever will be recorded of its
\* job, however its three queries interleave with the writers.
THEOREM ReturnedTracesAreWhole == AgentSpec => []ReturnedTraceIsWhole
<1>1. AgentInit => Loaded
    BY DEF AgentInit, AgentWorkers, IdleWorker, Loaded
<1>2. AgentInv /\ Loaded => ReturnedTraceIsWhole
    <2> SUFFICES ASSUME AgentInv, Loaded, NEW c \in InlineCallers, worker[c].step = "returned"
                 PROVE  seen[c] = [row |-> row[worker[c].job],
                                   attempts |-> attemptLog[worker[c].job],
                                   memory |-> memory[worker[c].job]]
        BY DEF ReturnedTraceIsWhole
    <2>1. seen[c] \in TraceRecord
        BY DEF AgentInv, AgentTypeOK, TraceRecord
    <2> QED BY <2>1 DEF Loaded, TraceRecord
<1> QED BY <1>1, <1>2, LoadedStep, AgentInvariant, PTL DEF AgentSpec

-----------------------------------------------------------------------------
(* The refinement of AttemptLedger *)

Grade(result) == IF result \in BadResults THEN "bad" ELSE "good"
Graded(j) == [i \in 1..Len(attemptLog[j]) |-> Grade(attemptLog[j][i])]
Log == [j \in Jobs |-> Graded(j)]
Closed == {j \in Jobs : row[j].status \in TerminalJob}

\* Steps other than a finish neither record an attempt nor close a job.
LEMMA LedgerFrame ==
    ASSUME attemptLog' = attemptLog,
           \A k \in Jobs : (row'[k].status \in TerminalJob) <=> (row[k].status \in TerminalJob)
    PROVE  UNCHANGED <<Log, Closed>>
    BY DEF Log, Graded, Closed

\* Appending a result appends its grade.
LEMMA GradedGrows ==
    ASSUME NEW s \in Seq(AttemptRow), NEW x \in AttemptRow
    PROVE  [i \in 1..Len(Append(s, x)) |-> Grade(Append(s, x)[i])]
              = Append([i \in 1..Len(s) |-> Grade(s[i])], Grade(x))
<1> DEFINE old == [i \in 1..Len(s) |-> Grade(s[i])]
           new == [i \in 1..Len(Append(s, x)) |-> Grade(Append(s, x)[i])]
<1>1. Len(s) \in Nat /\ Len(Append(s, x)) = Len(s) + 1
    OBVIOUS
<1>2. old \in Seq({"bad", "good"}) /\ Len(old) = Len(s)
    <2>1. old \in [1..Len(s) -> {"bad", "good"}]
        BY DEF Grade
    <2> QED BY <1>1, <2>1
<1>3. new \in Seq({"bad", "good"}) /\ Len(new) = Len(s) + 1
    <2>1. new \in [1..Len(s) + 1 -> {"bad", "good"}]
        BY <1>1 DEF Grade
    <2> HIDE DEF new
    <2>2. Len(s) + 1 \in Nat
        BY <1>1
    <2> QED BY <2>1, <2>2
<1>4. Grade(x) \in {"bad", "good"}
    BY DEF Grade
<1>5. /\ Append(old, Grade(x)) \in Seq({"bad", "good"})
      /\ Len(Append(old, Grade(x))) = Len(s) + 1
    <2> HIDE DEF old
    <2> QED BY <1>2, <1>4
<1>6. ASSUME NEW i \in 1..Len(s) + 1 PROVE new[i] = Append(old, Grade(x))[i]
    <2>1. new[i] = Grade(Append(s, x)[i])
        BY <1>1
    <2>2. CASE i = Len(s) + 1
        <3>1. Append(s, x)[i] = x
            BY <2>2
        <3>2. Append(old, Grade(x))[i] = Grade(x)
            <4> HIDE DEF old
            <4> QED BY <1>2, <1>4, <2>2
        <3> QED BY <2>1, <3>1, <3>2
    <2>3. CASE i # Len(s) + 1
        <3>1. i \in 1..Len(s)
            BY <1>1, <2>3
        <3>2. Append(s, x)[i] = s[i]
            BY <3>1
        <3>3. old[i] = Grade(s[i])
            BY <3>1
        <3>4. Append(old, Grade(x))[i] = old[i]
            <4> HIDE DEF old
            <4> QED BY <1>2, <1>4, <3>1
        <3> QED BY <2>1, <3>2, <3>3, <3>4
    <2> QED BY <2>2, <2>3
<1> HIDE DEF new, old
<1>7. new = Append(old, Grade(x))
    BY <1>1, <1>3, <1>5, <1>6, SeqEqual
<1> QED BY <1>7 DEF new, old

\* What AttemptLedger says of the mapped variables.
LEMMA LedgerMeaning ==
    /\ Ledger!LedgerInit <=> (Log = [j \in Jobs |-> <<>>] /\ Closed = {})
    /\ (UNCHANGED <<Log, Closed>>) <=> UNCHANGED Ledger!ledgerVars
    /\ \A j \in Jobs, result \in {"good", "bad"} :
          Ledger!Record(j, result) <=>
              /\ j \notin Closed
              /\ Log' = [Log EXCEPT ![j] = Append(@, result)]
              /\ \/ Closed' = Closed \cup {j}
                 \/ /\ result = "bad" /\ Len(Log[j]) + 1 < MaxAttempts
                    /\ UNCHANGED Closed
    BY DEF Ledger!LedgerInit, Ledger!ledgerVars, Ledger!Record, Log, Closed, Graded, Grade

LEMMA FinishRecords ==
    ASSUME AgentInv, NEW w \in AgentWorkers, FinishJob(w)
    PROVE  Ledger!LedgerNext
<1>1. worker[w] \in WorkerRecord /\ worker[w].job \in Jobs
    BY DEF AgentInv, AgentTypeOK, WorkerRecord, FinishJob, Claims, Claim, Holding
<1> PICK j \in Jobs, result \in AttemptRow, n \in Nat \ {0}, status \in JobStatuses :
        /\ j = worker[w].job /\ result = worker[w].result
        /\ n = worker[w].attempt /\ status = FinishedStatus(w)
    <2>1. worker[w].attempt \in Nat \ {0} /\ worker[w].result \in AttemptRow
        BY <1>1, AgentAssumption
           DEF AgentInv, Claims, Claim, FinishJob, Holding, WorkerRecord, AttemptRow
    <2>2. FinishedStatus(w) \in JobStatuses
        BY <2>1, FinishFacts DEF JobStatuses
    <2> QED BY <1>1, <2>1, <2>2
<1>2. /\ row[j] \in JobRow /\ row[j].status = "LEASED" /\ Len(attemptLog[j]) = n - 1
      /\ attemptLog[j] \in Seq(AttemptRow)
    BY DEF FinishJob, MayFinish, AgentInv, AgentTypeOK
<1>3. /\ status \in {"COMPLETED", "RETRY", "DEAD_LETTER"}
      /\ status = "RETRY" => result \in BadResults /\ n < MaxAttempts
    BY FinishFacts
<1>4. /\ attemptLog' = [attemptLog EXCEPT ![j] = Append(attemptLog[j], result)]
      /\ row'[j].status = status /\ \A k \in Jobs : k # j => row'[k] = row[k]
    BY <1>2 DEF FinishJob, AgentInv, AgentTypeOK, JobRow
<1>5. j \notin Closed
    BY <1>2 DEF Closed, TerminalJob
<1>6. Log' = [Log EXCEPT ![j] = Append(Log[j], Grade(result))]
    <2>1. ASSUME NEW k \in Jobs
          PROVE  Graded(k)' = IF k = j THEN Append(Graded(j), Grade(result)) ELSE Graded(k)
        <3>1. CASE k = j
            <4>1. attemptLog'[j] = Append(attemptLog[j], result)
                BY <1>1, <1>4 DEF AgentInv, AgentTypeOK
            <4>2. Graded(j)' = [i \in 1..Len(Append(attemptLog[j], result)) |->
                                   Grade(Append(attemptLog[j], result)[i])]
                BY <4>1 DEF Graded, Grade
            <4>3. Graded(j)' = Append(Graded(j), Grade(result))
                BY <1>2, <4>2, GradedGrows DEF Graded
            <4> QED BY <3>1, <4>3
        <3>2. CASE k # j
            BY <1>4, <3>2 DEF AgentInv, AgentTypeOK, Graded, Grade
        <3> QED BY <3>1, <3>2
    <2> QED BY <1>1, <2>1 DEF Log
<1>7. /\ status # "RETRY" => Closed' = Closed \cup {j}
      /\ status = "RETRY" => Closed' = Closed
    BY <1>1, <1>2, <1>3, <1>4 DEF Closed, TerminalJob
<1>8. Len(Log[j]) = n - 1
    <2>1. Log[j] = Graded(j)
        BY <1>1 DEF Log
    <2>2. Graded(j) \in [1..n - 1 -> {"good", "bad"}] /\ n - 1 \in Nat
        BY <1>2 DEF Graded, Grade
    <2> QED BY <2>1, <2>2
<1>9. Grade(result) \in {"good", "bad"} /\ (status = "RETRY" => Grade(result) = "bad")
    BY <1>3 DEF Grade
<1>10. Ledger!Record(j, Grade(result))
    <2>1. CASE status = "RETRY"
        <3>1. Grade(result) = "bad" /\ Len(Log[j]) + 1 < MaxAttempts /\ UNCHANGED Closed
            BY <1>3, <1>7, <1>8, <1>9, <2>1, AgentAssumption
        <3> QED BY <1>5, <1>6, <1>9, <3>1, LedgerMeaning
    <2>2. CASE status # "RETRY"
        BY <1>1, <1>5, <1>6, <1>7, <1>9, <2>2, LedgerMeaning
    <2> QED BY <2>1, <2>2
<1> QED BY <1>1, <1>9, <1>10 DEF Ledger!LedgerNext

\* Claims, take-overs, late workers, crashes and lost calls never lose, repeat
\* or rewrite a recorded attempt, and nothing is recorded for a closed job.
THEOREM RuntimeImplementsLedger == AgentSpec => ImplementsAttemptLedger
<1>1. AgentInit => Ledger!LedgerInit
    <2> SUFFICES ASSUME AgentInit PROVE Log = [j \in Jobs |-> <<>>] /\ Closed = {}
        BY LedgerMeaning
    <2>1. Closed = {}
        BY DEF AgentInit, NewRow, Closed, TerminalJob
    <2>2. ASSUME NEW j \in Jobs PROVE Graded(j) = <<>>
        <3>1. attemptLog[j] = <<>> /\ Len(<<>>) = 0
            BY DEF AgentInit
        <3>2. Graded(j) = [i \in 1..0 |-> Grade(attemptLog[j][i])]
            BY <3>1 DEF Graded
        <3>3. Graded(j) \in Seq({"good", "bad"}) /\ Len(Graded(j)) = 0
            <4>1. Graded(j) \in [1..0 -> {"good", "bad"}]
                BY <3>2 DEF Grade
            <4> QED BY <4>1
        <3> QED BY <3>3, EmptySeq
    <2> QED BY <2>1, <2>2 DEF Log
<1>2. AgentInv /\ [AgentNext]_agentVars => [Ledger!LedgerNext]_(Ledger!ledgerVars)
    <2> SUFFICES ASSUME AgentInv, [AgentNext]_agentVars
                 PROVE  Ledger!LedgerNext \/ UNCHANGED <<Log, Closed>>
        BY LedgerMeaning
    <2>1. row \in [Jobs -> JobRow]
        BY DEF AgentInv, AgentTypeOK
    <2>2. CASE UNCHANGED agentVars
        BY <2>2, LedgerFrame DEF agentVars
    <2>3. ASSUME NEW j \in Jobs, SubmitJob(j) \/ \E c \in InlineCallers : BeginExecute(c, j)
          PROVE  UNCHANGED <<Log, Closed>>
        <3>1. attemptLog' = attemptLog
            BY <2>3 DEF SubmitJob, BeginExecute
        <3>2. \/ row' = row
              \/ /\ row[j].status = "NONE" /\ row'[j].status = "PENDING"
                 /\ \A k \in Jobs : k # j => row'[k] = row[k]
            BY <2>1, <2>3 DEF SubmitJob, BeginExecute, CreatedJob, JobRow
        <3> QED BY <3>1, <3>2, LedgerFrame DEF TerminalJob
    <2>4. ASSUME NEW j \in Jobs, LeaseExpires(j) PROVE UNCHANGED <<Log, Closed>>
        <3>1. attemptLog' = attemptLog /\ \A k \in Jobs : row'[k].status = row[k].status
            BY <2>1, <2>4 DEF LeaseExpires, JobRow
        <3> QED BY <3>1, LedgerFrame
    <2>5. ASSUME NEW w \in AgentWorkers, NEW j \in Jobs, ClaimJob(w, j) PROVE UNCHANGED <<Log, Closed>>
        <3>1. /\ row[j].status \notin TerminalJob /\ row'[j].status = "LEASED"
              /\ attemptLog' = attemptLog /\ \A k \in Jobs : k # j => row'[k] = row[k]
            BY <2>1, <2>5 DEF ClaimJob, ReadyJob, ExpiredJob, TerminalJob
        <3> QED BY <3>1, LedgerFrame DEF TerminalJob
    <2>6. ASSUME NEW w \in AgentWorkers,
                 \/ StartJob(w) \/ TakePermit(w) \/ TakeAgentLock(w) \/ RunAgent(w)
                 \/ FinishRefused(w) \/ WorkerFails(w) \/ WorkerEnds(w) \/ WorkerCrashes(w)
          PROVE  UNCHANGED <<Log, Closed>>
        <3>1. attemptLog' = attemptLog /\ row' = row
            BY <2>6 DEF StartJob, TakePermit, TakeAgentLock, RunAgent, FinishRefused,
                        WorkerFails, WorkerEnds, WorkerCrashes
        <3> QED BY <3>1, LedgerFrame
    <2>7. ASSUME NEW s \in AgentStates, SetAgentState(s) PROVE UNCHANGED <<Log, Closed>>
        BY <2>7, LedgerFrame DEF SetAgentState
    <2>8. ASSUME NEW c \in InlineCallers, CallStep(c) \/ CallFails(c)
          PROVE  UNCHANGED <<Log, Closed>>
        BY <2>8, LedgerFrame
           DEF CallStep, CallFails, LoadJob, LoadAttempts, LoadMemory, ClaimRefused
    <2> QED BY <2>2, <2>3, <2>4, <2>5, <2>6, <2>7, <2>8, FinishRecords
            DEF AgentNext, AgentWorkerStep
<1> QED BY <1>1, <1>2, AgentInvariant, PTL
        DEF AgentSpec, ImplementsAttemptLedger, Ledger!LedgerSpec

-----------------------------------------------------------------------------
(* Operations: the life cycle of an alert *)

\* The event number i of a key.
Turn(i) == IF i % 2 = 1 THEN "OPENED" ELSE "RESOLVED"

\* The rows of a key alternate, and memory, which has counted n of them, may be
\* behind.
KeySound(rows, n) ==
    /\ rows \in Seq(AlertEvents) /\ n \in Nat /\ n <= Len(rows)
    /\ \A i \in 1..Len(rows) : rows[i] = Turn(i)

\* An alert is active exactly when memory has counted an odd number of events.
ActiveSound == \A k \in AlertKeys : k \in activeAlerts <=> sequences[k] % 2 = 1

ObserverRecord ==
    [step : {"idle", "lock", "save"}, key : AlertKeys \cup {"none"},
     event : AlertEvents \cup {"none"}]

\* A task waits for the lock with an event to record; the one that saves holds
\* it, and its event is the next of its key.
ObserverSound(o) ==
    /\ observer[o].step # "idle" =>
          observer[o].key \in AlertKeys /\ observer[o].event \in AlertEvents
    /\ observer[o].step = "save" =>
          /\ alertLock = o
          /\ observer[o].event = Turn(sequences[observer[o].key] + 1)

AlertInv ==
    /\ observer \in [Observers -> ObserverRecord]
    /\ activeAlerts \subseteq AlertKeys /\ sequences \in [AlertKeys -> Nat]
    /\ alertRows \in [AlertKeys -> Seq(AlertEvents)]
    /\ \A k \in AlertKeys : KeySound(alertRows[k], sequences[k])
    /\ ActiveSound
    /\ \A o \in Observers : ObserverSound(o)

LEMMA Parity ==
    ASSUME NEW n \in Nat
    PROVE  /\ n % 2 \in {0, 1}
           /\ (n + 1) % 2 = 1 <=> n % 2 # 1
           /\ Turn(n) \in AlertEvents /\ (Turn(n) = "OPENED" <=> n % 2 = 1)
<1>1. n % 2 \in {0, 1} /\ ((n + 1) % 2 = 1 <=> n % 2 # 1)
    OBVIOUS
<1> QED BY <1>1 DEF Turn, AlertEvents

\* A task that starts to wait, or gives up, disturbs nobody.
LEMMA WaitingInv ==
    ASSUME AlertInv, NEW o \in Observers, NEW r \in ObserverRecord,
           observer' = [observer EXCEPT ![o] = r],
           r.step = "idle" \/ (r.step = "lock" /\ r.key \in AlertKeys /\ r.event \in AlertEvents),
           UNCHANGED <<activeAlerts, sequences, alertRows>>,
           \/ alertLock' = alertLock
           \/ observer[o].step = "save"
    PROVE  AlertInv'
<1>1. observer' \in [Observers -> ObserverRecord]
    BY DEF AlertInv
<1>2. (\A k \in AlertKeys : KeySound(alertRows[k], sequences[k])') /\ ActiveSound'
    BY DEF AlertInv, ActiveSound
<1>3. ASSUME NEW v \in Observers PROVE ObserverSound(v)'
    <2>1. CASE v = o
        BY <2>1 DEF ObserverSound, AlertInv
    <2>2. CASE v # o
        <3>1. observer'[v] = observer[v]
            BY <2>2 DEF AlertInv
        <3>2. observer[v].step = "save" => alertLock' = alertLock
            BY <2>2 DEF AlertInv, ObserverSound
        <3> QED BY <3>1, <3>2 DEF AlertInv, ObserverSound
    <2> QED BY <2>1, <2>2
<1> QED BY <1>1, <1>2, <1>3 DEF AlertInv

LEMMA Stepping ==
    ASSUME NEW r \in ObserverRecord, NEW step \in {"idle", "lock", "save"}
    PROVE  /\ [r EXCEPT !.step = step] \in ObserverRecord
           /\ [r EXCEPT !.step = step].step = step
           /\ [r EXCEPT !.step = step].key = r.key /\ [r EXCEPT !.step = step].event = r.event
BY DEF ObserverRecord

LEMMA AlertingInv ==
    ASSUME AlertInv, NEW o \in Observers, NEW key \in AlertKeys, NEW event \in AlertEvents \cup {"none"},
           Alerting(o, key, event), UNCHANGED <<alerts, alertRows, alertLock>>
    PROVE  AlertInv'
<1>1. UNCHANGED <<activeAlerts, sequences, alertRows>> /\ alertLock' = alertLock
    BY DEF alerts
<1>2. CASE event = "none"
    <2>1. observer[o] \in ObserverRecord
        BY DEF AlertInv
    <2>2. PICK r \in ObserverRecord : r = [observer[o] EXCEPT !.step = "idle"] /\ r.step = "idle"
        BY <2>1, Stepping
    <2>3. observer' = [observer EXCEPT ![o] = r]
        BY <1>2, <2>2 DEF Alerting
    <2> QED BY <1>1, <2>2, <2>3, WaitingInv
<1>3. CASE event # "none"
    <2>1. PICK r \in ObserverRecord : r = [step |-> "lock", key |-> key, event |-> event]
        BY DEF ObserverRecord
    <2>2. observer' = [observer EXCEPT ![o] = r]
        BY <1>3, <2>1 DEF Alerting
    <2> QED BY <1>3, <1>1, <2>1, <2>2, WaitingInv
<1> QED BY <1>2, <1>3

LEMMA IdleFact == IdleObserver \in ObserverRecord /\ IdleObserver.step = "idle"
BY DEF IdleObserver, ObserverRecord

\* What is decided before the lock is checked again under it.
LEMMA LockAlertsInv ==
    ASSUME AlertInv, NEW o \in Observers, LockAlerts(o)
    PROVE  AlertInv'
<1>1. CASE Redundant(observer[o].key, observer[o].event)
    <2>1. /\ observer' = [observer EXCEPT ![o] = IdleObserver] /\ alertLock' = alertLock
          /\ UNCHANGED <<activeAlerts, sequences, alertRows>>
        BY <1>1 DEF LockAlerts, alerts
    <2> QED BY <2>1, IdleFact, WaitingInv
<1>2. CASE ~Redundant(observer[o].key, observer[o].event)
    <2>1. PICK r \in ObserverRecord : r = observer[o]
        BY DEF AlertInv
    <2>2. /\ r.step = "lock" /\ r.key \in AlertKeys /\ r.event \in AlertEvents
          /\ UNCHANGED <<activeAlerts, sequences, alertRows>> /\ alertLock = Free /\ alertLock' = o
        BY <1>2, <2>1 DEF LockAlerts, alerts, AlertInv, ObserverSound
    <2>3. observer' = [observer EXCEPT ![o] = [r EXCEPT !.step = "save"]]
        BY <1>2, <2>1 DEF LockAlerts
    <2>4. PICK s \in ObserverRecord : s = [r EXCEPT !.step = "save"] /\ s.step = "save"
                                      /\ s.key = r.key /\ s.event = r.event
        BY Stepping
    <2>5. s.event = Turn(sequences[s.key] + 1)
        <3>1. (s.event = "OPENED") # (s.key \in activeAlerts)
            BY <1>2, <2>1, <2>4 DEF Redundant
        <3>2. s.key \in activeAlerts <=> sequences[s.key] % 2 = 1
            BY <2>2, <2>4 DEF AlertInv, ActiveSound
        <3>3. PICK n \in Nat : n = sequences[s.key]
            BY <2>2, <2>4 DEF AlertInv
        <3> QED BY <2>2, <2>4, <3>1, <3>2, <3>3, Parity DEF Turn, AlertEvents
    <2>6. \A v \in Observers : v # o => observer'[v] = observer[v] /\ observer[v].step # "save"
        <3>1. Free \notin Observers
            BY OperationsAssumption DEF Observers, Free, Monitor
        <3> QED BY <2>2, <2>3, <3>1 DEF AlertInv, ObserverSound
    <2>7. observer' \in [Observers -> ObserverRecord] /\ observer'[o] = s
        BY <2>3, <2>4 DEF AlertInv
    <2>8. \A v \in Observers : ObserverSound(v)'
        BY <2>2, <2>4, <2>5, <2>6, <2>7 DEF AlertInv, ObserverSound
    <2> QED BY <2>2, <2>7, <2>8 DEF AlertInv, ActiveSound
<1> QED BY <1>1, <1>2

\* The row appended is the next of its key.
LEMMA AppendedRow ==
    ASSUME NEW rows, NEW n, KeySound(rows, n), ~(n + 1 <= Len(rows))
    PROVE  /\ KeySound(Append(rows, Turn(n + 1)), n + 1)
           /\ KeySound(Append(rows, Turn(n + 1)), n)
<1>1. rows \in Seq(AlertEvents) /\ n \in Nat /\ n = Len(rows) /\ Turn(n + 1) \in AlertEvents
    BY DEF KeySound, Turn, AlertEvents
<1>2. /\ Append(rows, Turn(n + 1)) \in Seq(AlertEvents)
      /\ Len(Append(rows, Turn(n + 1))) = n + 1
      /\ \A i \in 1..n : Append(rows, Turn(n + 1))[i] = rows[i]
      /\ Append(rows, Turn(n + 1))[n + 1] = Turn(n + 1)
    BY <1>1
<1>3. \A i \in 1..(n + 1) : Append(rows, Turn(n + 1))[i] = Turn(i)
    <2> SUFFICES ASSUME NEW i \in 1..(n + 1) PROVE Append(rows, Turn(n + 1))[i] = Turn(i)
        OBVIOUS
    <2>1. CASE i = n + 1
        BY <1>2, <2>1
    <2>2. CASE i # n + 1
        <3>1. i \in 1..n
            BY <1>1, <2>2
        <3> QED BY <1>1, <1>2, <3>1 DEF KeySound
    <2> QED BY <2>1, <2>2
<1> HIDE DEF Turn
<1> QED BY <1>1, <1>2, <1>3 DEF KeySound

LEMMA SaverFacts ==
    ASSUME AlertInv, NEW o \in Observers, observer[o].step = "save"
    PROVE  /\ observer[o].key \in AlertKeys
           /\ observer[o].event = Turn(sequences[observer[o].key] + 1)
           /\ sequences[observer[o].key] \in Nat
           /\ (observer[o].event = "OPENED") <=> observer[o].key \notin activeAlerts
           /\ \A v \in Observers : v # o => observer[v].step # "save"
<1>1. /\ observer[o].key \in AlertKeys
      /\ observer[o].event = Turn(sequences[observer[o].key] + 1)
      /\ sequences[observer[o].key] \in Nat
      /\ observer[o].key \in activeAlerts <=> sequences[observer[o].key] % 2 = 1
    BY DEF AlertInv, ObserverSound, ActiveSound
<1>2. \A v \in Observers : v # o => observer[v].step # "save"
    BY DEF AlertInv, ObserverSound
<1>3. PICK n \in Nat : n = sequences[observer[o].key]
    BY <1>1
<1> QED BY <1>1, <1>2, <1>3, Parity

\* Rows, memory and the saver's record after its write.
LEMMA SaveAlertInv ==
    ASSUME AlertInv, NEW o \in Observers, SaveAlert(o)
    PROVE  AlertInv'
<1>1. PICK key \in AlertKeys, n \in Nat, event \in AlertEvents :
          /\ key = observer[o].key /\ n = sequences[key] /\ event = observer[o].event
          /\ event = Turn(n + 1) /\ (event = "OPENED" <=> key \notin activeAlerts)
    BY SaverFacts DEF SaveAlert, AlertInv, ObserverSound
<1>2. /\ observer' = [observer EXCEPT ![o] = IdleObserver]
      /\ alertRows' = [alertRows EXCEPT ![key] = Append(alertRows[key], event)]
      /\ sequences' = [sequences EXCEPT ![key] = n + 1]
      /\ activeAlerts' = IF event = "OPENED" THEN activeAlerts \cup {key} ELSE activeAlerts \ {key}
      /\ ~(n + 1 <= Len(alertRows[key]))
    BY <1>1 DEF SaveAlert, InsertAlert, NextSequence, SequenceTaken
<1>3. KeySound(alertRows[key], n)
    BY <1>1 DEF AlertInv
<1>4. KeySound(Append(alertRows[key], event), n + 1)
    BY <1>1, <1>2, <1>3, AppendedRow
<1>5. key \in activeAlerts' <=> key \notin activeAlerts
    BY <1>1, <1>2
<1>6. /\ alertRows'[key] = Append(alertRows[key], event) /\ sequences'[key] = n + 1
      /\ \A k \in AlertKeys : k # key =>
            /\ alertRows'[k] = alertRows[k] /\ sequences'[k] = sequences[k]
            /\ k \in activeAlerts' <=> k \in activeAlerts
    BY <1>2 DEF AlertInv
<1>7. (\A k \in AlertKeys : KeySound(alertRows[k], sequences[k])') /\ ActiveSound'
    <2>1. \A k \in AlertKeys : KeySound(alertRows'[k], sequences'[k])
        BY <1>4, <1>6 DEF AlertInv
    <2>2. key \in activeAlerts' <=> (n + 1) % 2 = 1
        BY <1>1, <1>5, Parity DEF AlertInv, ActiveSound
    <2>3. ActiveSound'
        BY <1>6, <2>2 DEF AlertInv, ActiveSound
    <2> QED BY <2>1, <2>3
<1>8. /\ alertRows' \in [AlertKeys -> Seq(AlertEvents)] /\ sequences' \in [AlertKeys -> Nat]
      /\ activeAlerts' \subseteq AlertKeys
    <2>1. Append(alertRows[key], event) \in Seq(AlertEvents)
        BY <1>1 DEF AlertInv
    <2> QED BY <1>2, <2>1 DEF AlertInv
<1>9. observer' \in [Observers -> ObserverRecord] /\ \A v \in Observers : ObserverSound(v)'
    <2>1. \A v \in Observers : v # o => observer[v].step # "save"
        BY SaverFacts DEF SaveAlert
    <2>2. observer' \in [Observers -> ObserverRecord] /\ observer'[o].step = "idle"
          /\ \A v \in Observers : v # o => observer'[v] = observer[v]
        BY <1>2, IdleFact DEF AlertInv
    <2> QED BY <2>1, <2>2 DEF AlertInv, ObserverSound
<1> QED BY <1>7, <1>8, <1>9 DEF AlertInv

\* The exception releases the lock; a row whose answer is lost is ahead of memory.
LEMMA AlertRaisesInv ==
    ASSUME AlertInv, NEW o \in Observers, SaveConflicts(o) \/ SaveAlertFails(o)
    PROVE  AlertInv'
<1>1. /\ observer[o].step = "save" /\ observer' = [observer EXCEPT ![o] = IdleObserver]
      /\ UNCHANGED <<activeAlerts, sequences>>
    BY DEF SaveConflicts, SaveAlertFails, AlertRaises, alerts
<1>2. CASE alertRows' = alertRows
    BY <1>1, <1>2, IdleFact, WaitingInv
<1>3. CASE ~SequenceTaken(observer[o].key) /\ InsertAlert(o)
    <2>1. PICK key \in AlertKeys, n \in Nat, event \in AlertEvents :
              /\ key = observer[o].key /\ n = sequences[key] /\ event = observer[o].event
              /\ event = Turn(n + 1)
        BY <1>1, SaverFacts DEF AlertInv, ObserverSound
    <2>2. /\ alertRows' = [alertRows EXCEPT ![key] = Append(alertRows[key], event)]
          /\ ~(n + 1 <= Len(alertRows[key]))
        BY <1>3, <2>1 DEF InsertAlert, NextSequence, SequenceTaken
    <2>3. KeySound(alertRows[key], n)
        BY <2>1 DEF AlertInv
    <2>4. KeySound(Append(alertRows[key], event), n)
        BY <2>1, <2>2, <2>3, AppendedRow
    <2>5. /\ alertRows'[key] = Append(alertRows[key], event)
          /\ \A k \in AlertKeys : k # key => alertRows'[k] = alertRows[k]
        BY <2>2 DEF AlertInv
    <2>6. (\A k \in AlertKeys : KeySound(alertRows[k], sequences[k])') /\ ActiveSound'
        BY <1>1, <2>1, <2>4, <2>5 DEF AlertInv, ActiveSound
    <2>7. alertRows' \in [AlertKeys -> Seq(AlertEvents)]
        <3>1. Append(alertRows[key], event) \in Seq(AlertEvents)
            BY <2>1 DEF AlertInv
        <3> QED BY <2>2, <3>1 DEF AlertInv
    <2>8. \A v \in Observers : v # o => observer[v].step # "save"
        BY <1>1, SaverFacts
    <2>9. observer' \in [Observers -> ObserverRecord] /\ observer'[o].step = "idle"
          /\ \A v \in Observers : v # o => observer'[v] = observer[v]
        BY <1>1, IdleFact DEF AlertInv
    <2>10. \A v \in Observers : ObserverSound(v)'
        BY <2>8, <2>9 DEF AlertInv, ObserverSound
    <2> QED BY <1>1, <2>6, <2>7, <2>9, <2>10 DEF AlertInv
<1> QED BY <1>2, <1>3 DEF SaveConflicts, SaveAlertFails

\* A restart counts the rows and takes the alerts whose last row opened them.
LEMMA CrashInv == ASSUME AlertInv, CrashOperations PROVE AlertInv'
<1>1. /\ alertRows' = alertRows /\ sequences' = [k \in AlertKeys |-> Len(alertRows[k])]
      /\ activeAlerts' = {k \in AlertKeys : alertRows[k] # <<>> /\
                              alertRows[k][Len(alertRows[k])] = "OPENED"}
      /\ observer' = [o \in Observers |-> IdleObserver]
    BY DEF CrashOperations
<1>2. ASSUME NEW k \in AlertKeys
      PROVE  KeySound(alertRows[k], sequences[k])' /\ (k \in activeAlerts' <=> sequences'[k] % 2 = 1)
    <2>1. PICK rows \in Seq(AlertEvents) : rows = alertRows[k] /\ \A i \in 1..Len(rows) : rows[i] = Turn(i)
        BY DEF AlertInv, KeySound
    <2>2. Len(rows) \in Nat /\ (rows # <<>> <=> Len(rows) >= 1)
        OBVIOUS
    <2>3. (rows # <<>> /\ rows[Len(rows)] = "OPENED") <=> Len(rows) % 2 = 1
        <3>1. CASE Len(rows) = 0
            BY <2>2, <3>1
        <3>2. CASE Len(rows) # 0
            <4>1. rows[Len(rows)] = Turn(Len(rows))
                BY <2>1, <2>2, <3>2
            <4> QED BY <2>2, <3>2, <4>1, Parity
        <3> QED BY <3>1, <3>2
    <2>4. k \in activeAlerts' <=> Len(rows) % 2 = 1
        BY <1>1, <2>1, <2>3
    <2>5. alertRows'[k] = rows /\ sequences'[k] = Len(rows)
        BY <1>1, <2>1
    <2>6. KeySound(rows, Len(rows))
        BY <2>1, <2>2 DEF KeySound
    <2> QED BY <2>4, <2>5, <2>6
<1>3. sequences' \in [AlertKeys -> Nat] /\ activeAlerts' \subseteq AlertKeys
      /\ alertRows' \in [AlertKeys -> Seq(AlertEvents)]
    BY <1>1 DEF AlertInv
<1>4. observer' \in [Observers -> ObserverRecord] /\ \A o \in Observers : ObserverSound(o)'
    BY <1>1, IdleFact DEF ObserverSound
<1> QED BY <1>2, <1>3, <1>4 DEF AlertInv, ActiveSound

\* Observing decides on an alert and waits for the lock.
LEMMA ObservingInv ==
    ASSUME AlertInv, \/ MonitorObserves \/ SyncSloAlert
                     \/ \E o \in Reporters, d \in Critical : ReportFailure(o, d)
    PROVE  AlertInv'
<1>1. CASE MonitorObserves
    <2>1. PICK d \in Dependencies, event \in AlertEvents \cup {"none"} :
              Alerting(Monitor, d, event) /\ UNCHANGED <<alerts, alertRows, alertLock>>
        BY <1>1 DEF MonitorObserves, AlertFor, AlertEvents
    <2> QED BY <2>1, AlertingInv DEF Observers, AlertKeys
<1>2. CASE SyncSloAlert
    <2>1. PICK s \in Slos, event \in AlertEvents \cup {"none"} :
              Alerting(Monitor, s, event) /\ UNCHANGED <<alerts, alertRows, alertLock>>
        BY <1>2 DEF SyncSloAlert, AlertForSlo, AlertEvents
    <2> QED BY <2>1, AlertingInv DEF Observers, AlertKeys
<1>3. ASSUME NEW o \in Reporters, NEW d \in Critical, ReportFailure(o, d) PROVE AlertInv'
    <2>1. PICK event \in AlertEvents \cup {"none"} :
              Alerting(o, d, event) /\ UNCHANGED <<alerts, alertRows, alertLock>>
        BY <1>3 DEF ReportFailure, AlertFor, AlertEvents
    <2> QED BY <2>1, AlertingInv DEF Observers, AlertKeys, Dependencies
<1> QED BY <1>1, <1>2, <1>3

LEMMA AlertStepInv == ASSUME AlertInv, [OperationsNext]_operationsVars PROVE AlertInv'
<1>1. CASE EnvironmentChanges \/ Probe \/ EvaluateSlos \/ EvaluateSlosFails \/ UNCHANGED operationsVars
    <2>1. UNCHANGED <<observer, activeAlerts, sequences, alertRows, alertLock>>
        BY <1>1 DEF EnvironmentChanges, Probe, EvaluateSlos, EvaluateSlosFails, operationsVars, alerts
    <2> QED BY <2>1 DEF AlertInv, ObserverSound, ActiveSound
<1> QED BY <1>1, ObservingInv, LockAlertsInv, SaveAlertInv, AlertRaisesInv, CrashInv
        DEF OperationsNext, AlertStep

\* The events of an alert alternate in its rows, for any number of tasks that
\* decide before they hold _alert_lock, lost answers and restarts
\* (operations/service.py _record_alert and observe_dependency).
THEOREM AlertsAlternate == OperationsSpec => []AlertLifecycle
<1>1. OperationsInit => AlertInv
    <2> SUFFICES ASSUME OperationsInit PROVE AlertInv
        OBVIOUS
    <2>1. (\A k \in AlertKeys : KeySound(alertRows[k], sequences[k])) /\ ActiveSound
        BY DEF OperationsInit, KeySound, ActiveSound
    <2>2. observer \in [Observers -> ObserverRecord] /\ \A o \in Observers : ObserverSound(o)
        BY IdleFact DEF OperationsInit, ObserverSound
    <2> QED BY <2>1, <2>2 DEF OperationsInit, AlertInv
<1>2. AlertInv => AlertLifecycle
    BY DEF AlertInv, KeySound, AlertLifecycle, Turn
<1> QED BY <1>1, <1>2, AlertStepInv, PTL DEF OperationsSpec

-----------------------------------------------------------------------------
(* Operations: how a halt ends *)

Verdict == BOOLEAN \cup SloStatuses
Answer == (AlertKeys \cup {"slos"}) \X Verdict

\* What is left of a round names a dependency at most once, and says whether it
\* is healthy.
RoundSound(round) ==
    /\ round \in Seq(Answer)
    /\ \A i \in 1..Len(round) : round[i][1] \in Dependencies => round[i][2] \in BOOLEAN
    /\ \A i, j \in 1..Len(round) :
          round[i][1] \in Dependencies /\ round[i][1] = round[j][1] => i = j
Awaits(round, d) == \E i \in 1..Len(round) : round[i][1] = d

\* Successes in a row that fresh probes account for: one more if the answer of
\* the round that was under way has been used.
Accounted(d) ==
    \/ successes[d] <= freshProbes
    \/ successes[d] <= freshProbes + 1 /\ ~Awaits(answers, d)

\* A halt is latched, and some critical dependency, the last seen to fail, has
\* no more successes than fresh probes account for.
HaltInv ==
    /\ up \in [Dependencies -> BOOLEAN] /\ objective \in [Slos -> Windows]
    /\ healthy \in [Dependencies -> BOOLEAN]
    /\ successes \in [Dependencies -> 0..RecoverySuccesses]
    /\ latched \in BOOLEAN /\ freshProbes \in 0..RecoverySuccesses
    /\ RoundSound(answers)
    /\ (\E c \in Critical : ~healthy[c]) => latched
    /\ latched => \E c \in Critical : Accounted(c)

LEMMA HaltIsLatched == ASSUME HaltInv PROVE latched <=> ~DecisionsAllowed
<1>1. latched \in BOOLEAN
    BY DEF HaltInv
<1>2. (\E c \in Critical : ~healthy[c]) => latched
    BY DEF HaltInv
<1> QED BY <1>1, <1>2 DEF DecisionsAllowed, Mode

\* RecoveryCoordinator.observe
LEMMA ObserveFacts ==
    ASSUME HaltInv, NEW d \in Dependencies, NEW ok \in BOOLEAN, Observe(d, ok)
    PROVE  /\ healthy' \in [Dependencies -> BOOLEAN]
           /\ successes' \in [Dependencies -> 0..RecoverySuccesses]
           /\ latched' \in BOOLEAN
           /\ healthy'[d] = ok /\ \A c \in Dependencies : c # d => healthy'[c] = healthy[c]
           /\ ~ok => successes'[d] = 0
           /\ successes'[d] <= successes[d] + 1
           /\ \A c \in Dependencies : c # d => successes'[c] = successes[c]
           /\ latched' => latched \/ (~ok /\ d \in Critical)
           /\ ~latched' =>
                 \/ ~latched /\ ~(~ok /\ d \in Critical)
                 \/ \A c \in Critical : healthy'[c] /\ successes'[c] >= RecoverySuccesses
<1> DEFINE s == [successes EXCEPT ![d] = IF ok THEN Least(@ + 1, RecoverySuccesses) ELSE 0]
           h == [healthy EXCEPT ![d] = ok]
           confirmed == \A c \in Critical : h[c] /\ s[c] >= RecoverySuccesses
<1>1. /\ healthy' = h /\ successes' = s
      /\ latched' = ((latched \/ (~ok /\ d \in Critical)) /\ ~confirmed)
    BY DEF Observe
<1>2. h \in [Dependencies -> BOOLEAN] /\ h[d] = ok
      /\ \A c \in Dependencies : c # d => h[c] = healthy[c]
    BY DEF HaltInv
<1>3. PICK n \in 0..RecoverySuccesses : n = successes[d]
    BY DEF HaltInv
<1>4. PICK m \in 0..RecoverySuccesses : m = (IF ok THEN Least(n + 1, RecoverySuccesses) ELSE 0)
                                         /\ m <= n + 1 /\ (~ok => m = 0)
    BY OperationsAssumption DEF Least
<1>5. s = [successes EXCEPT ![d] = m]
    BY <1>3, <1>4
<1>6. s \in [Dependencies -> 0..RecoverySuccesses] /\ s[d] = m
      /\ \A c \in Dependencies : c # d => s[c] = successes[c]
    BY <1>5 DEF HaltInv
<1> HIDE DEF s, h
<1>7. latched \in BOOLEAN
    BY DEF HaltInv
<1>8. latched' \in BOOLEAN /\ (latched' => latched \/ (~ok /\ d \in Critical))
    BY <1>1, <1>7
<1>9. ~latched' => \/ ~latched /\ ~(~ok /\ d \in Critical)
                   \/ confirmed
    BY <1>1, <1>7
<1> QED BY <1>1, <1>2, <1>3, <1>4, <1>6, <1>8, <1>9

\* An observation that fails starts the account again; one that succeeds is
\* covered by the probe it came from.
LEMMA ObserveHalt ==
    ASSUME HaltInv, NEW d \in Dependencies, NEW ok \in BOOLEAN, Observe(d, ok),
           freshProbes' = IF ~ok /\ d \in Critical THEN 0 ELSE freshProbes,
           \A c \in Dependencies : Awaits(answers', c) => Awaits(answers, c),
           ok => Awaits(answers, d) /\ ~Awaits(answers', d)
    PROVE  /\ (\E c \in Critical : ~healthy'[c]) => latched'
           /\ latched' => \E c \in Critical : Accounted(c)'
           /\ latched /\ ~latched' => freshProbes + 1 >= RecoverySuccesses
<1> USE ObserveFacts
<1>1. /\ freshProbes \in 0..RecoverySuccesses /\ RecoverySuccesses \in Nat
      /\ Critical \subseteq Dependencies
      /\ successes \in [Dependencies -> 0..RecoverySuccesses]
      /\ latched \in BOOLEAN
    BY OperationsAssumption DEF HaltInv, Dependencies
<1>2. CASE ~ok /\ d \in Critical
    <2>1. latched' /\ successes'[d] = 0 /\ freshProbes' = 0
        BY <1>2
    <2> QED BY <1>2, <2>1 DEF Accounted
<1>3. CASE ~(~ok /\ d \in Critical)
    <2>1. freshProbes' = freshProbes
        BY <1>3
    <2>2. (\E c \in Critical : ~healthy'[c]) => latched'
        BY <1>1, <1>3 DEF HaltInv
    <2>3. ASSUME NEW c \in Critical, Accounted(c) PROVE Accounted(c)'
        <3>1. CASE c # d
            BY <1>1, <2>1, <2>3, <3>1 DEF Accounted
        <3>2. CASE c = d
            <4>1. ok /\ Awaits(answers, d) /\ ~Awaits(answers', d)
                BY <1>3, <3>2
            <4>2. successes[d] <= freshProbes
                BY <2>3, <3>2, <4>1 DEF Accounted
            <4>3. successes[d] \in Nat /\ successes'[d] \in Nat /\ freshProbes \in Nat
                BY <1>1
            <4>4. successes'[d] <= successes[d] + 1
                OBVIOUS
            <4>5. successes'[d] <= freshProbes + 1
                BY ONLY <4>2, <4>3, <4>4
            <4> QED BY <2>1, <3>2, <4>1, <4>5 DEF Accounted
        <3> QED BY <3>1, <3>2
    <2>4. latched => \E c \in Critical : Accounted(c)'
        BY <2>3 DEF HaltInv
    <2>5. ASSUME latched, ~latched' PROVE freshProbes + 1 >= RecoverySuccesses
        <3>1. PICK c \in Critical : Accounted(c)'
            BY <2>4, <2>5
        <3>2. successes'[c] >= RecoverySuccesses /\ successes'[c] \in Nat
            BY <1>1, <1>3, <2>5
        <3> QED BY <1>1, <2>1, <3>1, <3>2 DEF Accounted
    <2> QED BY <1>3, <2>2, <2>4, <2>5
<1> QED BY <1>2, <1>3

\* The next answer is used up.
LEMMA NextAnswer ==
    ASSUME RoundSound(answers), answers # <<>>, Head(answers)[1] \in Dependencies,
           answers' = IF Len(answers) = 1 THEN Evaluations ELSE Tail(answers)
    PROVE  /\ RoundSound(answers')
           /\ Head(answers)[2] \in BOOLEAN /\ Awaits(answers, Head(answers)[1])
           /\ ~Awaits(answers', Head(answers)[1])
           /\ \A c \in Dependencies : Awaits(answers', c) => Awaits(answers, c)
<1>1. answers \in Seq(Answer) /\ Len(answers) \in Nat \ {0} /\ Head(answers) = answers[1]
    BY DEF RoundSound
<1>2. Head(answers)[2] \in BOOLEAN /\ Awaits(answers, Head(answers)[1])
    BY <1>1 DEF RoundSound, Awaits
<1>3. CASE Len(answers) = 1
    <2>1. PICK e \in Answer : e = <<"slos", TRUE>>
        BY DEF Answer, Verdict
    <2>2. answers' = <<e>> /\ e[1] = "slos"
        BY <1>3, <2>1 DEF Evaluations
    <2>3. answers' \in Seq(Answer) /\ Len(answers') = 1 /\ answers'[1][1] = "slos"
        BY <2>2, OneEntry
    <2>4. \A c \in Dependencies : ~Awaits(answers', c)
        BY <2>3, OperationsAssumption DEF Awaits
    <2>5. RoundSound(answers')
        BY <2>3, OperationsAssumption DEF RoundSound
    <2> QED BY <1>2, <2>4, <2>5
<1>4. CASE Len(answers) # 1
    <2>1. /\ answers' \in Seq(Answer) /\ Len(answers') = Len(answers) - 1
          /\ \A i \in 1..Len(answers') : answers'[i] = answers[i + 1] /\ i + 1 \in 1..Len(answers)
        BY <1>1, <1>4
    <2>2. RoundSound(answers')
        BY <1>1, <2>1 DEF RoundSound
    <2>3. \A c \in Dependencies : Awaits(answers', c) => Awaits(answers, c)
        BY <2>1 DEF Awaits
    <2>4. ~Awaits(answers', Head(answers)[1])
        <3> SUFFICES ASSUME NEW i \in 1..Len(answers'), answers'[i][1] = answers[1][1] PROVE FALSE
            BY <1>1 DEF Awaits
        <3>1. answers[i + 1][1] = answers[1][1] /\ i + 1 \in 1..Len(answers) /\ 1 \in 1..Len(answers)
            BY <1>1, <2>1
        <3>2. i + 1 = 1
            BY <1>1, <3>1 DEF RoundSound
        <3> QED BY <3>2
    <2> QED BY <1>2, <2>2, <2>3, <2>4
<1> QED BY <1>3, <1>4

\* One step: the invariant, and what ends a halt.
HaltStep ==
    /\ HaltInv'
    /\ latched /\ ~latched' => freshProbes + 1 >= RecoverySuccesses \/ CrashOperations

LEMMA MonitorObservesHalt == ASSUME HaltInv, MonitorObserves PROVE HaltStep
<1>1. PICK d \in Dependencies, ok \in BOOLEAN : d = Head(answers)[1] /\ ok = Head(answers)[2]
    BY NextAnswer DEF MonitorObserves, HaltInv
<1>2. /\ answers # <<>> /\ Observe(d, ok) /\ UNCHANGED <<up, objective>>
      /\ answers' = IF Len(answers) = 1 THEN Evaluations ELSE Tail(answers)
      /\ freshProbes' = IF ~ok /\ d \in Critical THEN 0 ELSE freshProbes
    BY <1>1 DEF MonitorObserves, world
<1>3. /\ RoundSound(answers') /\ Awaits(answers, d) /\ ~Awaits(answers', d)
      /\ \A c \in Dependencies : Awaits(answers', c) => Awaits(answers, c)
    BY <1>1, <1>2, NextAnswer DEF HaltInv
<1>4. freshProbes' \in 0..RecoverySuccesses
    BY <1>2, OperationsAssumption DEF HaltInv
<1> QED BY <1>2, <1>3, <1>4, ObserveFacts, ObserveHalt DEF HaltStep, HaltInv

LEMMA ReportHalt ==
    ASSUME HaltInv, NEW o \in Reporters, NEW d \in Critical, ReportFailure(o, d)
    PROVE  HaltStep
<1>1. /\ d \in Dependencies /\ Observe(d, FALSE) /\ UNCHANGED <<up, objective, answers>>
      /\ freshProbes' = 0
    BY DEF ReportFailure, world, Dependencies
<1>2. freshProbes' \in 0..RecoverySuccesses
    BY <1>1, OperationsAssumption
<1> QED BY <1>1, <1>2, ObserveFacts, ObserveHalt DEF HaltStep, HaltInv

\* A round begins when nothing is awaited, and counts as a fresh probe.
LEMMA ProbeHalt == ASSUME HaltInv, Probe PROVE HaltStep
<1>1. /\ answers = <<>> /\ UNCHANGED <<up, objective, healthy, successes, latched>>
      /\ answers' = [i \in DOMAIN ProbeOrder |-> <<ProbeOrder[i], up[ProbeOrder[i]]>>]
      /\ freshProbes' = Least(freshProbes + 1, RecoverySuccesses)
    BY DEF Probe, world, recovery
<1>2. ProbeOrder \in Seq(Dependencies) /\ DOMAIN ProbeOrder = 1..Len(ProbeOrder)
      /\ Len(ProbeOrder) \in Nat
    BY OperationsAssumption
<1>3. \A i \in 1..Len(ProbeOrder) : <<ProbeOrder[i], up[ProbeOrder[i]]>> \in Answer
    BY <1>2 DEF HaltInv, Answer, Verdict, AlertKeys
<1>4. answers' \in Seq(Answer) /\ Len(answers') = Len(ProbeOrder)
      /\ \A i \in 1..Len(ProbeOrder) : answers'[i] = <<ProbeOrder[i], up[ProbeOrder[i]]>>
    BY <1>1, <1>2, <1>3, IsASeq
<1>5. RoundSound(answers')
    <2>1. \A i \in 1..Len(answers') : answers'[i][1] = ProbeOrder[i] /\ answers'[i][2] = up[ProbeOrder[i]]
        BY <1>4
    <2>2. \A i \in 1..Len(answers') : answers'[i][2] \in BOOLEAN
        BY <1>2, <1>4, <2>1 DEF HaltInv
    <2>3. ASSUME NEW i \in 1..Len(answers'), NEW j \in 1..Len(answers'),
                 answers'[i][1] = answers'[j][1]
          PROVE  i = j
        <3>1. ProbeOrder[i] = ProbeOrder[j] /\ i \in DOMAIN ProbeOrder /\ j \in DOMAIN ProbeOrder
            BY <1>2, <1>4, <2>1, <2>3
        <3> QED BY <3>1, OperationsAssumption
    <2> QED BY <1>4, <2>2, <2>3 DEF RoundSound
<1>6. freshProbes' \in 0..RecoverySuccesses
    BY <1>1, OperationsAssumption DEF HaltInv, Least
<1>7. ASSUME NEW c \in Critical, Accounted(c) PROVE Accounted(c)'
    <2>1. successes[c] <= freshProbes + 1 /\ successes[c] \in 0..RecoverySuccesses
        BY <1>7, OperationsAssumption DEF Accounted, HaltInv, Dependencies
    <2>2. successes'[c] <= freshProbes'
        BY <1>1, <2>1, OperationsAssumption DEF HaltInv, Least
    <2> QED BY <2>2 DEF Accounted
<1> QED BY <1>1, <1>5, <1>6, <1>7 DEF HaltStep, HaltInv

\* Steps that neither observe nor probe: a round may be dropped or turn to the
\* objectives.
LEMMA QuietHalt ==
    ASSUME HaltInv, UNCHANGED <<healthy, successes, latched, freshProbes>>,
           up' \in [Dependencies -> BOOLEAN], objective' \in [Slos -> Windows],
           RoundSound(answers'), \A c \in Dependencies : Awaits(answers', c) => Awaits(answers, c)
    PROVE  HaltStep
<1>1. \A c \in Critical : Accounted(c) => Accounted(c)'
    BY DEF Accounted, Dependencies
<1> QED BY <1>1 DEF HaltStep, HaltInv

LEMMA NoAnswers == RoundSound(<<>>) /\ \A c \in Dependencies : ~Awaits(<<>>, c)
BY DEF RoundSound, Awaits

LEMMA DroppedRound ==
    ASSUME HaltInv, UNCHANGED <<healthy, successes, latched, freshProbes, up, objective>>,
           answers' = answers \/ answers' = <<>>
    PROVE  HaltStep
BY QuietHalt, NoAnswers DEF HaltInv

LEMMA StatusIsVerdict ==
    ASSUME HaltInv, NEW s \in Slos
    PROVE  SloStatus(s) \in Verdict
<1>1. objective[s][1] \in Nat /\ objective[s][2] \in Nat
    BY OperationsAssumption DEF HaltInv
<1>2. \A m, n \in Nat : RateStatus(m, n) \in SloStatuses /\ LatencyStatus(m, n) \in SloStatuses
    BY OperationsAssumption DEF RateStatus, LatencyStatus, SloStatuses
<1> QED BY <1>1, <1>2 DEF SloStatus, Verdict

LEMMA EvaluateHalt == ASSUME HaltInv, EvaluateSlos \/ SyncSloAlert PROVE HaltStep
<1>1. UNCHANGED <<healthy, successes, latched, freshProbes, up, objective>>
    BY DEF EvaluateSlos, SyncSloAlert, world, recovery, operationsHistory
<1>2. Slos \cap Dependencies = {} /\ SloOrder \in Seq(Slos)
    BY OperationsAssumption
<1>3. CASE EvaluateSlos
    <2>1. answers' = [i \in 1..Len(SloOrder) |-> <<SloOrder[i], SloStatus(SloOrder[i])>>]
          /\ Len(SloOrder) \in Nat
        BY <1>2, <1>3 DEF EvaluateSlos
    <2>2. \A i \in 1..Len(SloOrder) : SloOrder[i] \in Slos
                                      /\ <<SloOrder[i], SloStatus(SloOrder[i])>> \in Answer
        BY <1>2, StatusIsVerdict DEF Answer, AlertKeys
    <2>3. answers' \in Seq(Answer) /\ Len(answers') = Len(SloOrder)
          /\ \A i \in 1..Len(SloOrder) : answers'[i][1] \in Slos
        BY <2>1, <2>2, IsASeq
    <2>4. RoundSound(answers') /\ \A c \in Dependencies : ~Awaits(answers', c)
        BY <1>2, <2>3 DEF RoundSound, Awaits
    <2> QED BY <1>1, <2>4, QuietHalt DEF HaltInv
<1>4. CASE SyncSloAlert
    <2>1. answers \in Seq(Answer) /\ answers # <<>> /\ answers' = Tail(answers)
        BY <1>4 DEF SyncSloAlert, HaltInv, RoundSound
    <2>2. /\ answers' \in Seq(Answer) /\ Len(answers') = Len(answers) - 1 /\ Len(answers) \in Nat
          /\ \A i \in 1..Len(answers') : answers'[i] = answers[i + 1] /\ i + 1 \in 1..Len(answers)
        BY <2>1
    <2>3. RoundSound(answers')
        <3>1. ASSUME NEW i \in 1..Len(answers'), NEW j \in 1..Len(answers'),
                     answers'[i][1] \in Dependencies, answers'[i][1] = answers'[j][1]
              PROVE  i + 1 = j + 1
            <4>1. /\ answers'[i] = answers[i + 1] /\ i + 1 \in 1..Len(answers)
                  /\ answers'[j] = answers[j + 1] /\ j + 1 \in 1..Len(answers)
                BY <2>2
            <4>2. answers[i + 1][1] \in Dependencies /\ answers[i + 1][1] = answers[j + 1][1]
                BY <3>1, <4>1
            <4> QED BY <4>1, <4>2 DEF RoundSound, HaltInv
        <3>2. \A i, j \in 1..Len(answers') : i + 1 = j + 1 => i = j
            BY <2>2
        <3>3. \A i \in 1..Len(answers') : answers'[i][1] \in Dependencies => answers'[i][2] \in BOOLEAN
            BY <2>2 DEF RoundSound, HaltInv
        <3> QED BY <2>2, <3>1, <3>2, <3>3 DEF RoundSound
    <2>4. \A c \in Dependencies : Awaits(answers', c) => Awaits(answers, c)
        BY <2>2 DEF Awaits
    <2> QED BY <1>1, <2>3, <2>4, QuietHalt DEF HaltInv
<1> QED BY <1>3, <1>4

LEMMA CrashHalt == ASSUME HaltInv, CrashOperations PROVE HaltStep
<1>1. /\ healthy' = [d \in Dependencies |-> TRUE] /\ successes' = [d \in Dependencies |-> 0]
      /\ latched' = FALSE /\ answers' = <<>> /\ UNCHANGED <<up, objective, freshProbes>>
    BY DEF CrashOperations, world
<1>2. successes' \in [Dependencies -> 0..RecoverySuccesses]
    BY <1>1, OperationsAssumption
<1>3. /\ healthy' \in [Dependencies -> BOOLEAN] /\ latched' \in BOOLEAN /\ ~latched'
      /\ ~\E c \in Critical : ~healthy'[c]
    BY <1>1 DEF Dependencies
<1> QED BY <1>1, <1>2, <1>3, NoAnswers DEF HaltStep, HaltInv

LEMMA HaltSteps == ASSUME HaltInv, [OperationsNext]_operationsVars PROVE HaltStep
<1>1. CASE EnvironmentChanges
    <2>1. UNCHANGED <<healthy, successes, latched, freshProbes, answers>>
        BY <1>1 DEF EnvironmentChanges, recovery
    <2>2. up' \in [Dependencies -> BOOLEAN] /\ objective' \in [Slos -> Windows]
        BY <1>1 DEF EnvironmentChanges, HaltInv
    <2> QED BY <2>1, <2>2, QuietHalt DEF HaltInv
<1>2. CASE EvaluateSlosFails \/ UNCHANGED operationsVars
    <2>1. UNCHANGED <<healthy, successes, latched, freshProbes, up, objective>>
        BY <1>2 DEF EvaluateSlosFails, operationsVars, world, recovery, operationsHistory
    <2>2. answers' = answers \/ answers' = <<>>
        BY <1>2 DEF EvaluateSlosFails, operationsVars
    <2> QED BY <2>1, <2>2, DroppedRound
<1>3. ASSUME NEW o \in Observers, AlertStep(o) \/ SaveAlertFails(o) PROVE HaltStep
    <2>1. UNCHANGED <<healthy, successes, latched, freshProbes, up, objective>>
        BY <1>3 DEF AlertStep, LockAlerts, SaveAlert, SaveConflicts, SaveAlertFails, world, recovery,
                    operationsHistory
    <2>2. answers' = answers \/ answers' = <<>>
        BY <1>3 DEF AlertStep, LockAlerts, SaveAlert, SaveConflicts, SaveAlertFails, AlertRaises
    <2> QED BY <2>1, <2>2, DroppedRound
<1> QED BY <1>1, <1>2, <1>3, MonitorObservesHalt, ReportHalt, ProbeHalt, EvaluateHalt, CrashHalt
        DEF OperationsNext

\* Decisions come back only after a restart or after enough probes begun after
\* the last failure, one of the successes being that of the round under way, for
\* any dependencies and reporters (operations/resilience.py observe and mode,
\* operations/service.py run_monitor).
THEOREM HaltsNeedFreshProbes == OperationsSpec => HaltNeedsFreshProbes
<1>1. OperationsInit => HaltInv
    <2> SUFFICES ASSUME OperationsInit PROVE HaltInv
        OBVIOUS
    <2>1. successes \in [Dependencies -> 0..RecoverySuccesses] /\ freshProbes \in 0..RecoverySuccesses
        BY OperationsAssumption DEF OperationsInit
    <2>2. /\ healthy \in [Dependencies -> BOOLEAN] /\ up \in [Dependencies -> BOOLEAN]
          /\ latched \in BOOLEAN /\ ~latched /\ ~\E c \in Critical : ~healthy[c]
        BY DEF OperationsInit, Dependencies
    <2>3. objective \in [Slos -> Windows] /\ RoundSound(answers)
        BY NoAnswers, OperationsAssumption DEF OperationsInit
    <2> QED BY <2>1, <2>2, <2>3 DEF HaltInv
<1>2. HaltInv /\ [OperationsNext]_operationsVars => HaltInv'
    BY HaltSteps DEF HaltStep
<1>3. HaltInv /\ HaltInv' /\ [OperationsNext]_operationsVars
        => [~DecisionsAllowed /\ DecisionsAllowed' =>
              \/ freshProbes + 1 >= RecoverySuccesses
              \/ CrashOperations]_operationsVars
    <2> SUFFICES ASSUME HaltInv, HaltInv', [OperationsNext]_operationsVars,
                        ~DecisionsAllowed, DecisionsAllowed'
                 PROVE  freshProbes + 1 >= RecoverySuccesses \/ CrashOperations
        OBVIOUS
    <2>1. latched
        BY HaltIsLatched
    <2>2. ~latched'
        <3>1. (latched <=> ~DecisionsAllowed)'
            BY HaltIsLatched, PTL
        <3> QED BY <3>1
    <2> QED BY <2>1, <2>2, HaltSteps DEF HaltStep
<1> QED BY <1>1, <1>2, <1>3, PTL DEF OperationsSpec, HaltNeedsFreshProbes
=============================================================================
