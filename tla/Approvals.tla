------------------------------ MODULE Approvals ------------------------------
(***************************************************************************)
(* Single-use order approvals: the durable order_approvals table, the      *)
(* copies RiskManager keeps in memory, and the kill switch that revokes    *)
(* both.  Composes KillSwitch.                                             *)
(*                                                                         *)
(*   risk/manager.py  check (its idempotency cache), _finalize,            *)
(*                    consume_oms_approval                                 *)
(*   repository.py    save_central_risk_evaluation,                        *)
(*                    load_central_risk_evaluation_by_key,                 *)
(*                    create_oms_order (its approval half)                 *)
(*                                                                         *)
(* The amounts, limits and portfolio of an evaluation are abstracted: an   *)
(* evaluation that reaches _finalize here is an APPROVED or REDUCED one.   *)
(* An approval_id is a hash of the request, so an approval names both the  *)
(* request (its idempotency key) and the capability minted for it.         *)
(***************************************************************************)
EXTENDS KillSwitch

CONSTANTS
    ApprovalIds,          \* deterministic approval_ids
    None                  \* "no approval"

ASSUME ApprovalsAssumption == None \notin ApprovalIds

VARIABLES
    approval,   \* order_approvals.status, "NONE" before the insert
    lapsed,     \* approvals whose expires_at has passed
    held,       \* RiskManager._approvals that are ACTIVE in memory
    cached,     \* RiskManager._checks_by_key: requests already answered
    evaluating, \* the approval check() is persisting
    consuming   \* the approval consume_oms_approval() is committing

approvalVars == <<approval, lapsed, held, cached, evaluating, consuming>>
vars == <<switchVars, approvalVars>>

ApprovalStatus == {"NONE", "ACTIVE", "CONSUMED", "REVOKED"}

Init ==
    /\ SwitchInit
    /\ approval = [a \in ApprovalIds |-> "NONE"]
    /\ lapsed = {}
    /\ held = [p \in Procs |-> {}]
    /\ cached = [p \in Procs |-> {}]
    /\ evaluating = [p \in Procs |-> None]
    /\ consuming = [p \in Procs |-> None]

-----------------------------------------------------------------------------
(* The kill switch's steps that reach the approvals                         *)

(* Mutant: the trigger expires approvals, a status nobody reads.            *)
ExpireActive ==
    approval' = [a \in ApprovalIds |->
                    IF approval[a] = "ACTIVE" THEN "EXPIRED" ELSE approval[a]]

(* The UPDATE ... WHERE status = 'ACTIVE' inside set_risk_control.          *)
RevokeActive ==
    approval' = [a \in ApprovalIds |->
                    IF approval[a] = "ACTIVE" THEN "REVOKED" ELSE approval[a]]

TriggerAndRevoke(p, t) ==
    /\ TriggerCommit(p, t)
    /\ IF control'.active # control.active
       THEN RevokeActive ELSE UNCHANGED approval
    /\ UNCHANGED <<lapsed, held, cached, evaluating, consuming>>

(* The finally block's loop over the approvals in memory.                   *)
ApplyAndRevoke(p, t) ==
    /\ TriggerApply(p, t)
    /\ held' = [held EXCEPT ![p] = {}]
    /\ UNCHANGED <<approval, lapsed, cached, evaluating, consuming>>

CrashApprovals(p) ==
    /\ Crash(p)
    /\ held' = [held EXCEPT ![p] = {}]
    /\ cached' = [cached EXCEPT ![p] = {}]
    /\ evaluating' = [evaluating EXCEPT ![p] = None]
    /\ consuming' = [consuming EXCEPT ![p] = None]
    /\ UNCHANGED <<approval, lapsed>>

-----------------------------------------------------------------------------
(* Minting and consuming                                                    *)

(* check() up to the awaits of _finalize: the orchestrator's can_operate    *)
(* gate and check's own kill-switch gate have passed, and the durable       *)
(* lookup by idempotency key found nothing.                                 *)
Evaluate(p, a) ==
    /\ up[p] = "up"
    /\ evaluating[p] = None
    /\ can_operate(p) /\ ~memControl[p].active
    /\ a \notin cached[p]
    /\ approval[a] = "NONE"
    /\ evaluating' = [evaluating EXCEPT ![p] = a]
    /\ UNCHANGED <<switchVars, approval, lapsed, held, cached, consuming>>

(* Mutant: the insert is an upsert that writes ACTIVE again.                *)
SaveEvaluationUpsert(p) ==
    LET a == evaluating[p] IN
    /\ a # None
    /\ evaluating' = [evaluating EXCEPT ![p] = None]
    /\ cached' = [cached EXCEPT ![p] = @ \cup {a}]
    /\ \/ /\ approval' = [approval EXCEPT ![a] = "ACTIVE"]
          /\ \/ held' = [held EXCEPT ![p] = @ \cup {a}]
             \/ PersistenceFails /\ UNCHANGED held
       \/ PersistenceFails /\ UNCHANGED <<approval, held>>
    /\ UNCHANGED <<switchVars, lapsed, consuming>>

(* Mutant: the approval is handed out before it is known to be stored.      *)
SaveEvaluationHoldsFirst(p) ==
    LET a == evaluating[p] IN
    /\ a # None
    /\ evaluating' = [evaluating EXCEPT ![p] = None]
    /\ cached' = [cached EXCEPT ![p] = @ \cup {a}]
    /\ held' = [held EXCEPT ![p] = @ \cup {a}]
    /\ \/ approval' = [approval EXCEPT ![a] = IF @ = "NONE" THEN "ACTIVE" ELSE @]
       \/ PersistenceFails /\ UNCHANGED approval
    /\ UNCHANGED <<switchVars, lapsed, consuming>>

(* save_central_risk_evaluation and the end of _finalize.  The transaction  *)
(* does not read the control row.  An evaluation another process has saved  *)
(* meanwhile is accepted as this one.  A failure withholds the approval in  *)
(* memory even when the insert was committed.                               *)
SaveEvaluation(p) ==
    LET a == evaluating[p] IN
    /\ a # None
    /\ evaluating' = [evaluating EXCEPT ![p] = None]
    /\ cached' = [cached EXCEPT ![p] = @ \cup {a}]
    /\ \/ /\ approval' = [approval EXCEPT ![a] = IF @ = "NONE" THEN "ACTIVE" ELSE @]
          /\ \/ held' = [held EXCEPT ![p] = @ \cup {a}]
             \/ PersistenceFails /\ UNCHANGED held
       \/ PersistenceFails /\ UNCHANGED <<approval, held>>
    /\ UNCHANGED <<switchVars, lapsed, consuming>>

(* check() for a key this process has not answered but whose evaluation is  *)
(* durable: the stored approval, with its status, is put back into memory.  *)
Recall(p, a) ==
    /\ up[p] = "up"
    /\ evaluating[p] = None
    /\ a \notin cached[p]
    /\ approval[a] # "NONE"
    /\ cached' = [cached EXCEPT ![p] = @ \cup {a}]
    /\ held' = [held EXCEPT ![p] = IF approval[a] = "ACTIVE" THEN @ \cup {a} ELSE @]
    /\ UNCHANGED <<switchVars, approval, lapsed, evaluating, consuming>>

(* The approval's expires_at passes.                                        *)
Lapse(a) ==
    /\ approval[a] # "NONE"
    /\ a \notin lapsed
    /\ lapsed' = lapsed \cup {a}
    /\ UNCHANGED <<switchVars, approval, held, cached, evaluating, consuming>>

(* consume_oms_approval up to its transaction: the in-memory checks.        *)
BeginConsume(p, a) ==
    /\ up[p] = "up"
    /\ consuming[p] = None
    /\ a \in held[p]
    /\ IF a \in lapsed
       THEN /\ held' = [held EXCEPT ![p] = @ \ {a}]     \* EXPIRED in memory
            /\ UNCHANGED consuming
       ELSE /\ ~Killed(p)
            /\ consuming' = [consuming EXCEPT ![p] = a]
            /\ UNCHANGED held
    /\ UNCHANGED <<switchVars, approval, lapsed, cached, evaluating>>

(* The approval half of create_oms_order's transaction.  It re-reads the    *)
(* control row, the approval's status and its expiry under row locks.       *)
MayConsume(a) == ~control.active /\ approval[a] = "ACTIVE" /\ a \notin lapsed

ConsumeCommit(p) ==
    LET a == consuming[p] IN
    /\ a # None
    /\ MayConsume(a)
    /\ approval' = [approval EXCEPT ![a] = "CONSUMED"]
    /\ \/ held' = [held EXCEPT ![p] = @ \ {a}]
       \/ PersistenceFails /\ UNCHANGED held            \* the answer is lost
    /\ consuming' = [consuming EXCEPT ![p] = None]
    /\ UNCHANGED <<switchVars, lapsed, cached, evaluating>>

(* Another process has consumed the approval: create_oms_order finds the    *)
(* order before it looks at approval or switch, and returns it.             *)
ConsumeExisting(p) ==
    LET a == consuming[p] IN
    /\ a # None
    /\ approval[a] = "CONSUMED"
    /\ held' = [held EXCEPT ![p] = @ \ {a}]
    /\ consuming' = [consuming EXCEPT ![p] = None]
    /\ UNCHANGED <<switchVars, approval, lapsed, cached, evaluating>>

(* The transaction raises (switch, status, expiry, a changed portfolio or a *)
(* database error) and is rolled back, an EXPIRED it assigned included.     *)
ConsumeRejected(p) ==
    /\ consuming[p] # None
    /\ consuming' = [consuming EXCEPT ![p] = None]
    /\ UNCHANGED <<switchVars, approval, lapsed, held, cached, evaluating>>

-----------------------------------------------------------------------------
Next ==
    \/ SwitchStep /\ UNCHANGED approvalVars
    \/ \E p \in Procs :
          \/ Boot(p) /\ UNCHANGED approvalVars
          \/ CrashApprovals(p)
          \/ SaveEvaluation(p) \/ ConsumeCommit(p)
          \/ ConsumeExisting(p) \/ ConsumeRejected(p)
          \/ \E t \in Tasks : TriggerAndRevoke(p, t) \/ ApplyAndRevoke(p, t)
          \/ \E a \in ApprovalIds :
                Evaluate(p, a) \/ Recall(p, a) \/ BeginConsume(p, a)
    \/ \E a \in ApprovalIds : Lapse(a)

(* The database answers, and a coroutine whose await returned runs on.      *)
Fairness ==
    \A p \in Procs :
        /\ \A t \in Tasks : /\ WF_vars(TriggerAndRevoke(p, t))
                            /\ WF_vars(ApplyAndRevoke(p, t))
        /\ WF_vars(ResetCommit(p) /\ UNCHANGED approvalVars)
        /\ WF_vars(ResetApply(p) /\ UNCHANGED approvalVars)

Spec == Init /\ [][Next]_vars /\ Fairness

-----------------------------------------------------------------------------
(* Every variable holds rows, copies and calls of its kind.                 *)
TypeOK ==
    /\ SwitchTypeOK
    /\ approval \in [ApprovalIds -> ApprovalStatus]
    /\ lapsed \subseteq ApprovalIds
    /\ held \in [Procs -> SUBSET ApprovalIds]
    /\ cached \in [Procs -> SUBSET ApprovalIds]
    /\ evaluating \in [Procs -> ApprovalIds \cup {None}]
    /\ consuming \in [Procs -> ApprovalIds \cup {None}]

(* A revision of the control row means the same thing everywhere: a copy of *)
(* RiskManager.control_state that carries the row's revision carries its    *)
(* flag too, and no copy is ahead of the row.  Copies are written after the *)
(* commit they report has returned, by several processes, across restarts.  *)
CopiesAgreeByRevision ==
    \A p \in Procs :
        /\ memControl[p].revision <= control.revision
        /\ memControl[p].revision = control.revision => memControl[p] = control

(* A process that believes the switch is on has halted its state machine:   *)
(* initialize, trigger and reset keep the flag that consume_oms_approval    *)
(* reads and the one can_operate reads together, also between their awaits. *)
BeliefHalts == \A p \in Procs : memControl[p].active => smKill[p]

(* A CONSUMED or REVOKED approval keeps that status for ever: a slow        *)
(* evaluation, a replayed request, a second process holding the same        *)
(* approval, a restart and a reset of the switch never bring it back        *)
(* (guard_order_approval_transition; "single-use capability").              *)
ApprovalIsFinal ==
    [][\A a \in ApprovalIds :
          approval[a] \in {"CONSUMED", "REVOKED"} => approval'[a] = approval[a]]_vars

(* An approval a process would spend is durable: _finalize hands nothing    *)
(* out whose evaluation may have failed to persist, so consumption always   *)
(* finds the row it must check.                                             *)
HeldIsDurable ==
    \A p \in Procs : \A a \in held[p] : approval[a] # "NONE"

(* A trigger always halts its process, also when the transaction fails or   *)
(* finds the switch already on (docs/month-6: "Local state still enters     *)
(* fail-safe mode if durable persistence raises").                          *)
TriggerHalts ==
    \A p \in Procs, t \in Tasks :
        call[p][t].pc = "trigger" ~> smKill[p] \/ up[p] = "down"

(* No approval is usable while the switch is on (docs/month-6: the trigger  *)
(* "revokes active approvals").  An evaluation in flight is saved without a *)
(* look at the control row, after the trigger has revoked.                  *)
SwitchRevokesApprovals ==
    control.active => \A a \in ApprovalIds : approval[a] # "ACTIVE"
=============================================================================
