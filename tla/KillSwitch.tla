----------------------------- MODULE KillSwitch -----------------------------
(***************************************************************************)
(* The central kill switch: the durable singleton row and the copies every *)
(* backend process keeps of it in memory.                                  *)
(*                                                                         *)
(*   risk/manager.py        RiskManager.initialize, trigger_kill_switch,   *)
(*                          reset_kill_switch, kill_switch_active          *)
(*   repository.py          load_risk_control_state, set_risk_control      *)
(*   core/state_machine.py  SystemStateMachine                             *)
(*   main.py                the boot sequence                              *)
(*                                                                         *)
(* A database transaction is one step; the code between two awaits of a    *)
(* coroutine is one step.  A call that awaits a transaction is therefore   *)
(* split in two: the commit, and the continuation that updates memory.     *)
(* set_risk_control also revokes the ACTIVE approvals: the modules that    *)
(* compose this one conjoin what TriggerCommit does to their tables.       *)
(***************************************************************************)
EXTENDS Integers

CONSTANTS
    Procs,            \* backend processes sharing one database
    MaxRevision,      \* bound: revisions of the control row
    MaxCrashes,       \* bound: process crashes
    Operators,        \* processes whose operator routes are used
    OperatorTargets,  \* states somebody calls transition() to after boot
    PersistenceFails  \* may a transaction fail, or its answer be lost?

ASSUME KillSwitchAssumption ==
    /\ MaxRevision \in Nat \ {0}
    /\ MaxCrashes \in Nat
    /\ Operators \subseteq Procs
    /\ PersistenceFails \in BOOLEAN

VARIABLES
    control,    \* the singleton risk_control_state row
    up,         \* "down", "restored" (risk state loaded) or "up" (serving)
    smState,    \* SystemStateMachine._state
    smKill,     \* SystemStateMachine._kill_switch_active (and RiskState's flag)
    memControl, \* RiskManager.control_state
    call,       \* trigger_kill_switch / reset_kill_switch calls in progress
    crashes     \* crashes so far

switchVars == <<control, up, smState, smKill, memControl, call, crashes>>

-----------------------------------------------------------------------------
(* The callers of trigger_kill_switch: the HTTP routes ("ops"), the OMS    *)
(* worker and the reconciliation worker.                                   *)
Tasks == {"ops", "worker", "recon"}

SystemStates ==
    {"OFFLINE", "INITIALIZING", "PAPER", "DEGRADED", "ERROR", "MAINTENANCE"}

OPERATIONAL_STATES == {"PAPER", "DEGRADED"}

ALLOWED_TRANSITIONS ==
    [OFFLINE      |-> {"INITIALIZING"},
     INITIALIZING |-> {"PAPER", "ERROR"},
     PAPER        |-> {"DEGRADED", "ERROR", "OFFLINE"},
     DEGRADED     |-> {"PAPER", "ERROR"},
     ERROR        |-> {"MAINTENANCE"},
     MAINTENANCE  |-> {"OFFLINE"}]

ControlRow == [active: BOOLEAN, revision: 0..MaxRevision]

Call == [pc: {"idle", "trigger", "apply", "failed", "reset", "cleared"},
         rev: 0..MaxRevision]

IdleCall == [pc |-> "idle", rev |-> 0]

(* RiskManager.kill_switch_active.  RiskState's own flag is assigned        *)
(* together with the state machine's in every step, so one variable serves. *)
Killed(p) == memControl[p].active \/ smKill[p]

(* SystemStateMachine.can_operate *)
can_operate(p) == smState[p] \in OPERATIONAL_STATES /\ ~smKill[p]

SwitchInit ==
    /\ control = [active |-> FALSE, revision |-> 0]
    /\ up = [p \in Procs |-> "down"]
    /\ smState = [p \in Procs |-> "OFFLINE"]
    /\ smKill = [p \in Procs |-> FALSE]
    /\ memControl = [p \in Procs |-> [active |-> FALSE, revision |-> 0]]
    /\ call = [p \in Procs |-> [t \in Tasks |-> IdleCall]]
    /\ crashes = 0

-----------------------------------------------------------------------------
(* Boot and crash                                                           *)

(* Mutant: initialize keeps the row but does not halt the state machine.    *)
RestoreWithoutHalt(p) ==
    /\ up[p] = "down"
    /\ up' = [up EXCEPT ![p] = "restored"]
    /\ memControl' = [memControl EXCEPT ![p] = control]
    /\ UNCHANGED <<control, smState, smKill, call, crashes>>

(* RiskManager.initialize: load the row; an active one halts the machine,   *)
(* which is still OFFLINE and so keeps its state.                           *)
Restore(p) ==
    /\ up[p] = "down"
    /\ up' = [up EXCEPT ![p] = "restored"]
    /\ memControl' = [memControl EXCEPT ![p] = control]
    /\ smKill' = [smKill EXCEPT ![p] = control.active]
    /\ UNCHANGED <<control, smState, call, crashes>>

(* lifespan: OFFLINE -> INITIALIZING -> ERROR or PAPER.  The choice reads   *)
(* the copy Restore made, not the row.                                      *)
Boot(p) ==
    /\ up[p] = "restored"
    /\ up' = [up EXCEPT ![p] = "up"]
    /\ smState' = [smState EXCEPT
                    ![p] = IF memControl[p].active THEN "ERROR" ELSE "PAPER"]
    /\ UNCHANGED <<control, smKill, memControl, call, crashes>>

(* A crash loses everything the process kept in memory, calls in progress   *)
(* included; what they had committed stays.                                 *)
Crash(p) ==
    /\ up[p] # "down"
    /\ crashes < MaxCrashes
    /\ crashes' = crashes + 1
    /\ up' = [up EXCEPT ![p] = "down"]
    /\ smState' = [smState EXCEPT ![p] = "OFFLINE"]
    /\ smKill' = [smKill EXCEPT ![p] = FALSE]
    /\ memControl' = [memControl EXCEPT ![p] = [active |-> FALSE, revision |-> 0]]
    /\ call' = [call EXCEPT ![p] = [t \in Tasks |-> IdleCall]]
    /\ UNCHANGED control

(* SystemStateMachine.transition called by an operator or a recovery        *)
(* procedure.  It looks at the transition table only, not at the switch.    *)
Transition(p, s) ==
    /\ s \in OperatorTargets
    /\ up[p] = "up"
    /\ s \in ALLOWED_TRANSITIONS[smState[p]]
    /\ smState' = [smState EXCEPT ![p] = s]
    /\ UNCHANGED <<control, up, smKill, memControl, call, crashes>>

-----------------------------------------------------------------------------
(* trigger_kill_switch                                                      *)

(* Mutant: the row is flipped without counting a revision.                  *)
FlippedUncounted(active) == [active |-> active, revision |-> control.revision]

(* What set_risk_control writes into the row.                               *)
Flipped(active) == [active |-> active, revision |-> control.revision + 1]

StartTrigger(p, t) ==
    call' = [call EXCEPT ![p][t] = [pc |-> "trigger", rev |-> 0]]

(* POST /risk/kill-switch: no precondition, the switch may be on already.   *)
OpsTrigger(p) ==
    /\ p \in Operators /\ up[p] = "up"
    /\ call[p]["ops"].pc = "idle"
    /\ StartTrigger(p, "ops")
    /\ UNCHANGED <<control, up, smState, smKill, memControl, crashes>>

(* set_risk_control(active=True): flip the row, count the revision and      *)
(* revoke every ACTIVE approval, or raise because the row is active already.*)
TriggerCommit(p, t) ==
    /\ call[p][t].pc = "trigger"
    /\ \/ /\ ~control.active
          /\ control' = Flipped(TRUE)
          /\ \/ call' = [call EXCEPT ![p][t] =
                            [pc |-> "apply", rev |-> control'.revision]]
             \/ /\ PersistenceFails           \* committed, the answer is lost
                /\ call' = [call EXCEPT ![p][t] = [pc |-> "failed", rev |-> 0]]
       \/ /\ control.active \/ PersistenceFails
          /\ call' = [call EXCEPT ![p][t] = [pc |-> "failed", rev |-> 0]]
          /\ UNCHANGED control
    /\ UNCHANGED <<up, smState, smKill, memControl, crashes>>

(* Mutant: no finally block, a trigger that raised halts nothing.           *)
TriggerApplyNoFinally(p, t) ==
    /\ call[p][t].pc \in {"apply", "failed"}
    /\ LET done == call[p][t].pc = "apply" IN
       /\ memControl' =
            IF done
            THEN [memControl EXCEPT ![p] = [active |-> TRUE, revision |-> call[p][t].rev]]
            ELSE memControl
       /\ smKill' = [smKill EXCEPT ![p] = @ \/ done]
       /\ smState' = [smState EXCEPT
                       ![p] = IF done /\ @ \in OPERATIONAL_STATES THEN "ERROR" ELSE @]
    /\ call' = [call EXCEPT ![p][t] = IdleCall]
    /\ UNCHANGED <<control, up, crashes>>

(* The rest of trigger_kill_switch: control_state when the commit returned, *)
(* and in either case the finally block: halt the state machine and revoke  *)
(* the approvals ACTIVE in memory.                                          *)
TriggerApply(p, t) ==
    /\ call[p][t].pc \in {"apply", "failed"}
    /\ memControl' =
         IF call[p][t].pc = "apply"
         THEN [memControl EXCEPT ![p] = [active |-> TRUE, revision |-> call[p][t].rev]]
         ELSE memControl
    /\ smKill' = [smKill EXCEPT ![p] = TRUE]
    /\ smState' = [smState EXCEPT
                    ![p] = IF @ \in OPERATIONAL_STATES THEN "ERROR" ELSE @]
    /\ call' = [call EXCEPT ![p][t] = IdleCall]
    /\ UNCHANGED <<control, up, crashes>>

-----------------------------------------------------------------------------
(* reset_kill_switch                                                        *)

OpsReset(p) ==
    /\ p \in Operators /\ up[p] = "up"
    /\ call[p]["ops"].pc = "idle"
    /\ smState[p] = "MAINTENANCE"
    /\ call' = [call EXCEPT ![p]["ops"] = [pc |-> "reset", rev |-> 0]]
    /\ UNCHANGED <<control, up, smState, smKill, memControl, crashes>>

(* set_risk_control(active=False): clear the row, or raise because it is    *)
(* clear already.  MaxRevision leaves room for one more trigger.            *)
ResetCommit(p) ==
    /\ call[p]["ops"].pc = "reset"
    /\ \/ /\ control.active
          /\ control.revision + 1 < MaxRevision
          /\ control' = Flipped(FALSE)
          /\ \/ call' = [call EXCEPT ![p]["ops"] =
                            [pc |-> "cleared", rev |-> control'.revision]]
             \/ /\ PersistenceFails           \* committed, the answer is lost
                /\ call' = [call EXCEPT ![p]["ops"] = IdleCall]
       \/ /\ ~control.active \/ PersistenceFails \/ control.revision + 1 >= MaxRevision
          /\ call' = [call EXCEPT ![p]["ops"] = IdleCall]
          /\ UNCHANGED control
    /\ UNCHANGED <<up, smState, smKill, memControl, crashes>>

(* The continuation: control_state is replaced first, then the state        *)
(* machine clears its flag only if it is still in MAINTENANCE.              *)
ResetApply(p) ==
    /\ call[p]["ops"].pc = "cleared"
    /\ memControl' = [memControl EXCEPT
                        ![p] = [active |-> FALSE, revision |-> call[p]["ops"].rev]]
    /\ smKill' = [smKill EXCEPT ![p] = @ /\ smState[p] # "MAINTENANCE"]
    /\ call' = [call EXCEPT ![p]["ops"] = IdleCall]
    /\ UNCHANGED <<control, up, smState, crashes>>

-----------------------------------------------------------------------------
(* What a composing module takes with its own variables unchanged; Boot,   *)
(* Crash and TriggerCommit change them there.                              *)
SwitchStep ==
    \E p \in Procs :
        \/ Restore(p)
        \/ OpsTrigger(p) \/ OpsReset(p) \/ ResetCommit(p) \/ ResetApply(p)
        \/ \E s \in SystemStates : Transition(p, s)

SwitchNext ==
    \/ SwitchStep
    \/ \E p \in Procs :
          \/ Boot(p) \/ Crash(p)
          \/ \E t \in Tasks : TriggerCommit(p, t) \/ TriggerApply(p, t)

SwitchTypeOK ==
    /\ control \in ControlRow
    /\ up \in [Procs -> {"down", "restored", "up"}]
    /\ smState \in [Procs -> SystemStates]
    /\ smKill \in [Procs -> BOOLEAN]
    /\ memControl \in [Procs -> ControlRow]
    /\ call \in [Procs -> [Tasks -> Call]]
    /\ crashes \in 0..MaxCrashes
=============================================================================
