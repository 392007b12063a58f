--------------------------- MODULE ApprovalsProofs ---------------------------
(***************************************************************************)
(* Theorems about Approvals, for any number of processes, approvals,       *)
(* crashes and revisions, with or without failing transactions.            *)
(*                                                                         *)
(* Inv adds to SwitchInv the types of the approvals and HeldIsDurable,     *)
(* which is inductive on its own: no step takes a row away.                *)
(***************************************************************************)
EXTENDS Approvals, KillSwitchProofs

ApprovalTypeOK ==
    /\ approval \in [ApprovalIds -> ApprovalStatus]
    /\ lapsed \subseteq ApprovalIds
    /\ held \in [Procs -> SUBSET ApprovalIds]
    /\ cached \in [Procs -> SUBSET ApprovalIds]
    /\ evaluating \in [Procs -> ApprovalIds \cup {None}]
    /\ consuming \in [Procs -> ApprovalIds \cup {None}]

Inv == SwitchInv /\ ApprovalTypeOK /\ HeldIsDurable

(* What a step does to the durable statuses: rows appear ACTIVE and leave   *)
(* ACTIVE once.                                                             *)
StatusMoves ==
    \A a \in ApprovalIds :
        \/ approval'[a] = approval[a]
        \/ approval[a] = "NONE" /\ approval'[a] = "ACTIVE"
        \/ approval[a] = "ACTIVE" /\ approval'[a] \in {"CONSUMED", "REVOKED"}

(* Inv holds initially.                                                     *)
LEMMA InitInv == Init => Inv
BY SwitchInitInv DEF Init, Inv, ApprovalTypeOK, HeldIsDurable, ApprovalStatus

(* The approval half of every step, given the type of the statuses: what    *)
(* ApprovalTypeOK, HeldIsDurable and StatusMoves need.                      *)
LEMMA ApprovalStep ==
    ASSUME Inv, [Next]_vars
    PROVE  ApprovalTypeOK' /\ HeldIsDurable' /\ StatusMoves
<1> USE DEF Inv, ApprovalTypeOK, HeldIsDurable, StatusMoves
<1>0. CASE UNCHANGED approvalVars
  BY <1>0 DEF approvalVars
<1>1. ASSUME NEW p \in Procs, NEW t \in Tasks, TriggerAndRevoke(p, t)
      PROVE  ApprovalTypeOK' /\ HeldIsDurable' /\ StatusMoves
  BY <1>1 DEF TriggerAndRevoke, RevokeActive, ApprovalStatus
<1>2. ASSUME NEW p \in Procs, NEW t \in Tasks, ApplyAndRevoke(p, t)
      PROVE  ApprovalTypeOK' /\ HeldIsDurable' /\ StatusMoves
  BY <1>2 DEF ApplyAndRevoke
<1>3. ASSUME NEW p \in Procs, CrashApprovals(p)
      PROVE  ApprovalTypeOK' /\ HeldIsDurable' /\ StatusMoves
  BY <1>3 DEF CrashApprovals
<1>4. ASSUME NEW p \in Procs, NEW a \in ApprovalIds, Evaluate(p, a)
      PROVE  ApprovalTypeOK' /\ HeldIsDurable' /\ StatusMoves
  BY <1>4 DEF Evaluate
<1>5. ASSUME NEW p \in Procs, SaveEvaluation(p)
      PROVE  ApprovalTypeOK' /\ HeldIsDurable' /\ StatusMoves
  BY <1>5, ApprovalsAssumption DEF SaveEvaluation, ApprovalStatus
<1>6. ASSUME NEW p \in Procs, NEW a \in ApprovalIds, Recall(p, a)
      PROVE  ApprovalTypeOK' /\ HeldIsDurable' /\ StatusMoves
  BY <1>6 DEF Recall
<1>7. ASSUME NEW p \in Procs, NEW a \in ApprovalIds, BeginConsume(p, a)
      PROVE  ApprovalTypeOK' /\ HeldIsDurable' /\ StatusMoves
  BY <1>7 DEF BeginConsume
<1>8. ASSUME NEW p \in Procs, ConsumeCommit(p)
      PROVE  ApprovalTypeOK' /\ HeldIsDurable' /\ StatusMoves
  BY <1>8, ApprovalsAssumption DEF ConsumeCommit, MayConsume, ApprovalStatus
<1>9. ASSUME NEW p \in Procs, ConsumeExisting(p) \/ ConsumeRejected(p)
      PROVE  ApprovalTypeOK' /\ HeldIsDurable' /\ StatusMoves
  BY <1>9 DEF ConsumeExisting, ConsumeRejected
<1>10. ASSUME NEW a \in ApprovalIds, Lapse(a)
       PROVE  ApprovalTypeOK' /\ HeldIsDurable' /\ StatusMoves
  BY <1>10 DEF Lapse
<1> QED
  BY <1>0, <1>1, <1>2, <1>3, <1>4, <1>5, <1>6, <1>7, <1>8, <1>9, <1>10 DEF Next, vars

(* The switch half of every step.                                           *)
LEMMA SwitchHalf ==
    ASSUME Inv, [Next]_vars
    PROVE  SwitchInv'
<1> USE DEF Inv
<1>1. ASSUME NEW p \in Procs, NEW t \in Tasks, TriggerAndRevoke(p, t) \/ ApplyAndRevoke(p, t)
      PROVE  SwitchInv'
  BY <1>1, TriggerCommitInv, TriggerApplyInv DEF TriggerAndRevoke, ApplyAndRevoke
<1>2. ASSUME NEW p \in Procs, Boot(p) \/ CrashApprovals(p)
      PROVE  SwitchInv'
  BY <1>2, BootInv, CrashInv DEF CrashApprovals
<1>3. CASE SwitchStep
  BY <1>3, SwitchStepInv
<1>4. CASE UNCHANGED switchVars
  BY <1>4, SwitchStutterInv
<1> QED
  BY <1>1, <1>2, <1>3, <1>4
     DEF Next, vars, Evaluate, SaveEvaluation, Recall, BeginConsume, ConsumeCommit,
         ConsumeExisting, ConsumeRejected, Lapse

(* Inv is an invariant of the specification.                                *)
LEMMA Invariance == Spec => []Inv
<1>1. Inv /\ [Next]_vars => Inv'
  BY ApprovalStep, SwitchHalf DEF Inv
<1> QED BY InitInv, <1>1, PTL DEF Spec

(* Every variable keeps its type.                                           *)
THEOREM TypeCorrect == Spec => []TypeOK
<1>1. Inv => TypeOK
  BY DEF Inv, SwitchInv, ApprovalTypeOK, TypeOK
<1> QED BY Invariance, <1>1, PTL

(* In every process, at all times, a copy of control_state with the row's   *)
(* revision is the row, and no copy is ahead of it.                         *)
THEOREM CopiesAgreeAlways == Spec => []CopiesAgreeByRevision
<1>1. Inv => CopiesAgreeByRevision
  BY DEF Inv, SwitchInv, CopiesAgree, Agrees, CopiesAgreeByRevision
<1> QED BY Invariance, <1>1, PTL

(* A process whose control_state is active has halted its state machine.    *)
THEOREM BeliefAlwaysHalts == Spec => []BeliefHalts
<1>1. Inv => BeliefHalts
  BY DEF Inv, SwitchInv, Halts, BeliefHalts
<1> QED BY Invariance, <1>1, PTL

(* Whatever a process holds for spending has a durable row.                 *)
THEOREM HeldAlwaysDurable == Spec => []HeldIsDurable
<1>1. Inv => HeldIsDurable
  BY DEF Inv
<1> QED BY Invariance, <1>1, PTL

(* Consumption and revocation are final, whatever processes, crashes,       *)
(* failures and resets do.                                                  *)
THEOREM ApprovalsAreFinal == Spec => ApprovalIsFinal
<1>1. Inv /\ [Next]_vars =>
        [\A a \in ApprovalIds :
            approval[a] \in {"CONSUMED", "REVOKED"} => approval'[a] = approval[a]]_vars
  BY ApprovalStep DEF StatusMoves
<1> QED BY Invariance, <1>1, PTL DEF Spec, ApprovalIsFinal
=============================================================================
