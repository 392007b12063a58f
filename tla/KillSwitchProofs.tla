--------------------------- MODULE KillSwitchProofs ---------------------------
(***************************************************************************)
(* What every step of the kill switch preserves, for the modules that      *)
(* compose it.  SwitchInv is the inductive invariant: types, the room that *)
(* ResetCommit leaves for one more trigger, the agreement of copies with   *)
(* the row by revision, and "a process that believes the switch is on has  *)
(* halted".                                                                *)
(***************************************************************************)
EXTENDS KillSwitch, TLAPS

(* ResetCommit leaves a revision for the next trigger.                      *)
RoomToTrigger == ~control.active => control.revision < MaxRevision

(* The row the migration inserted is off; every trigger counts a revision.  *)
RevisionZeroIsOff == control.revision = 0 => ~control.active

(* The pc of a call says which way its commit flipped the row.              *)
Reported(c) ==
    IF c.pc = "apply" THEN [active |-> TRUE, revision |-> c.rev]
                      ELSE [active |-> FALSE, revision |-> c.rev]

(* What a copy, or an answer still on its way to one, says of the row.      *)
Agrees(copy) ==
    /\ copy.revision <= control.revision
    /\ copy.revision = control.revision => copy = control

CopiesAgree ==
    /\ \A p \in Procs : Agrees(memControl[p])
    /\ \A p \in Procs, t \in Tasks :
          call[p][t].pc \in {"apply", "cleared"} => Agrees(Reported(call[p][t]))

Halts == \A p \in Procs : memControl[p].active => smKill[p]

SwitchInv ==
    SwitchTypeOK /\ RoomToTrigger /\ RevisionZeroIsOff /\ CopiesAgree /\ Halts

(* The initial states satisfy the invariant.                                *)
LEMMA SwitchInitInv == SwitchInit => SwitchInv
BY KillSwitchAssumption
   DEF SwitchInit, SwitchInv, SwitchTypeOK, RoomToTrigger, RevisionZeroIsOff, CopiesAgree, Halts, Agrees,
       Reported, ControlRow, SystemStates, Call, IdleCall, Tasks

(* Restarting a process: Restore copies the row, flag and all.              *)
LEMMA RestoreInv ==
    ASSUME NEW p \in Procs, SwitchInv, Restore(p)
    PROVE  SwitchInv'
<1>1. SwitchTypeOK'
  BY DEF Restore, SwitchInv, SwitchTypeOK, ControlRow
<1>2. CopiesAgree' /\ Halts' /\ RoomToTrigger' /\ RevisionZeroIsOff'
  BY DEF Restore, SwitchInv, SwitchTypeOK, RoomToTrigger, RevisionZeroIsOff, CopiesAgree, Halts, Agrees, Reported,
         ControlRow
<1> QED BY <1>1, <1>2 DEF SwitchInv

(* Serving: Boot reads the copy, not the row.                               *)
LEMMA BootInv ==
    ASSUME NEW p \in Procs, SwitchInv, Boot(p)
    PROVE  SwitchInv'
<1>1. SwitchTypeOK'
  BY DEF Boot, SwitchInv, SwitchTypeOK, SystemStates
<1>2. CopiesAgree' /\ Halts' /\ RoomToTrigger' /\ RevisionZeroIsOff'
  BY DEF Boot, SwitchInv, RoomToTrigger, RevisionZeroIsOff, CopiesAgree, Halts, Agrees, Reported
<1> QED BY <1>1, <1>2 DEF SwitchInv

(* A crash forgets copies and calls; a fresh copy is behind or equal.       *)
LEMMA CrashInv ==
    ASSUME NEW p \in Procs, SwitchInv, Crash(p)
    PROVE  SwitchInv'
<1>1. SwitchTypeOK'
  BY KillSwitchAssumption
     DEF Crash, SwitchInv, SwitchTypeOK, SystemStates, ControlRow, Call, IdleCall
<1>2. CopiesAgree'
  BY KillSwitchAssumption
     DEF Crash, SwitchInv, SwitchTypeOK, CopiesAgree, Agrees, Reported, ControlRow, Call,
         IdleCall, RevisionZeroIsOff
<1>3. Halts' /\ RoomToTrigger' /\ RevisionZeroIsOff'
  BY DEF Crash, SwitchInv, SwitchTypeOK, Halts, RoomToTrigger, RevisionZeroIsOff
<1> QED BY <1>1, <1>2, <1>3 DEF SwitchInv

(* A transition of the state machine moves smState only.                    *)
LEMMA TransitionInv ==
    ASSUME NEW p \in Procs, NEW s \in SystemStates, SwitchInv, Transition(p, s)
    PROVE  SwitchInv'
<1>1. SwitchTypeOK'
  BY DEF Transition, SwitchInv, SwitchTypeOK
<1>2. CopiesAgree' /\ Halts' /\ RoomToTrigger' /\ RevisionZeroIsOff'
  BY DEF Transition, SwitchInv, RoomToTrigger, RevisionZeroIsOff, CopiesAgree, Halts, Agrees,
         Reported
<1> QED BY <1>1, <1>2 DEF SwitchInv

(* A trigger starts, from a route or from a task that failed closed.        *)
LEMMA StartTriggerInv ==
    ASSUME NEW p \in Procs, NEW t \in Tasks, SwitchInv, StartTrigger(p, t),
           UNCHANGED <<control, up, smState, smKill, memControl, crashes>>
    PROVE  SwitchInv'
<1>1. SwitchTypeOK'
  BY KillSwitchAssumption DEF StartTrigger, SwitchInv, SwitchTypeOK, Call
<1>2. CopiesAgree' /\ Halts' /\ RoomToTrigger' /\ RevisionZeroIsOff'
  BY DEF StartTrigger, SwitchInv, SwitchTypeOK, RoomToTrigger, RevisionZeroIsOff, CopiesAgree,
         Halts, Agrees, Reported
<1> QED BY <1>1, <1>2 DEF SwitchInv

(* The commit of a trigger: it flips the row, or finds it on, or fails.     *)
LEMMA TriggerCommitInv ==
    ASSUME NEW p \in Procs, NEW t \in Tasks, SwitchInv, TriggerCommit(p, t)
    PROVE  SwitchInv'
<1>u. UNCHANGED <<up, smState, smKill, memControl, crashes>>
  BY DEF TriggerCommit
<1>a. ASSUME ~control.active,
             control' = [active |-> TRUE, revision |-> control.revision + 1],
             NEW c, c \in {[pc |-> "apply", rev |-> control.revision + 1],
                           [pc |-> "failed", rev |-> 0]},
             call' = [call EXCEPT ![p][t] = c]
      PROVE  SwitchInv'
  <2>0. /\ control \in ControlRow /\ control.revision + 1 \in 0..MaxRevision
        /\ control' = [active |-> TRUE, revision |-> control.revision + 1]
    BY <1>a, KillSwitchAssumption DEF SwitchInv, SwitchTypeOK, RoomToTrigger, ControlRow
  <2>c. c \in Call /\ c.pc # "cleared" /\ (c.pc = "apply" => c.rev = control.revision + 1)
    BY <1>a, <2>0, KillSwitchAssumption DEF Call
  <2>1. SwitchTypeOK'
    <3>1. call' \in [Procs -> [Tasks -> Call]]
      BY <1>a, <2>c DEF SwitchInv, SwitchTypeOK
    <3> QED BY <1>u, <2>0, <3>1 DEF SwitchInv, SwitchTypeOK, ControlRow
  <2>2. RoomToTrigger' /\ RevisionZeroIsOff' /\ Halts'
    BY <1>u, <2>0 DEF SwitchInv, ControlRow, RoomToTrigger, RevisionZeroIsOff, Halts
  <2>3. ASSUME NEW q \in Procs PROVE Agrees(memControl[q])'
    BY <1>u, <2>0 DEF SwitchInv, SwitchTypeOK, ControlRow, CopiesAgree, Agrees
  <2>4. ASSUME NEW q \in Procs, NEW u \in Tasks, call'[q][u].pc \in {"apply", "cleared"}
        PROVE  Agrees(Reported(call[q][u]))'
    <3>1. CASE q = p /\ u = t
      <4>1. call'[q][u] = c
        BY <1>a, <3>1 DEF SwitchInv, SwitchTypeOK
      <4>2. c.pc = "apply" /\ c.rev = control.revision + 1
        BY <2>c, <2>4, <4>1
      <4>3. Reported(call[q][u])' = control'
        BY <2>0, <4>1, <4>2 DEF Reported
      <4> QED BY <2>0, <4>3 DEF Agrees, ControlRow
    <3>2. CASE ~(q = p /\ u = t)
      <4>1. call'[q][u] = call[q][u]
        BY <1>a, <3>2 DEF SwitchInv, SwitchTypeOK
      <4>2. call[q][u].rev \in Nat /\ call[q][u].rev <= control.revision
        BY <2>4, <4>1 DEF SwitchInv, SwitchTypeOK, Call, CopiesAgree, Agrees, Reported
      <4> QED BY <2>0, <4>1, <4>2 DEF Agrees, Reported, ControlRow
    <3> QED BY <3>1, <3>2
  <2> QED BY <2>1, <2>2, <2>3, <2>4 DEF SwitchInv, CopiesAgree
<1>b. ASSUME control' = control, call' = [call EXCEPT ![p][t] = [pc |-> "failed", rev |-> 0]]
      PROVE  SwitchInv'
  BY <1>b, KillSwitchAssumption
     DEF TriggerCommit, SwitchInv, SwitchTypeOK, RoomToTrigger, RevisionZeroIsOff, CopiesAgree,
         Halts, Agrees, Reported, Call
<1>1. CASE ~control.active /\ control' = Flipped(TRUE)
  <2>1. control'.revision = control.revision + 1
    BY <1>1 DEF Flipped
  <2>2. \/ call' = [call EXCEPT ![p][t] = [pc |-> "apply", rev |-> control.revision + 1]]
        \/ call' = [call EXCEPT ![p][t] = [pc |-> "failed", rev |-> 0]]
    BY <2>1 DEF TriggerCommit
  <2> QED BY <1>1, <1>a, <2>2 DEF Flipped
<1> QED BY <1>1, <1>b DEF TriggerCommit

(* The rest of a trigger: the copy, then the halt.                          *)
LEMMA TriggerApplyInv ==
    ASSUME NEW p \in Procs, NEW t \in Tasks, SwitchInv, TriggerApply(p, t)
    PROVE  SwitchInv'
<1>1. SwitchTypeOK'
  BY KillSwitchAssumption
     DEF TriggerApply, SwitchInv, SwitchTypeOK, ControlRow, Call, IdleCall, SystemStates
<1>2. CopiesAgree'
  BY KillSwitchAssumption
     DEF TriggerApply, SwitchInv, SwitchTypeOK, ControlRow, Call, IdleCall, CopiesAgree, Agrees,
         Reported
<1>3. Halts' /\ RoomToTrigger' /\ RevisionZeroIsOff'
  BY DEF TriggerApply, SwitchInv, SwitchTypeOK, ControlRow, Halts, RoomToTrigger, RevisionZeroIsOff
<1> QED BY <1>1, <1>2, <1>3 DEF SwitchInv

(* A reset starts.                                                          *)
LEMMA OpsResetInv ==
    ASSUME NEW p \in Procs, SwitchInv, OpsReset(p)
    PROVE  SwitchInv'
<1>0. "ops" \in Tasks
  BY DEF Tasks
<1>1. SwitchTypeOK'
  BY <1>0, KillSwitchAssumption DEF OpsReset, SwitchInv, SwitchTypeOK, Call
<1>2. CopiesAgree' /\ Halts' /\ RoomToTrigger' /\ RevisionZeroIsOff'
  BY <1>0 DEF OpsReset, SwitchInv, SwitchTypeOK, RoomToTrigger, RevisionZeroIsOff, CopiesAgree,
              Halts, Agrees, Reported
<1> QED BY <1>1, <1>2 DEF SwitchInv

(* The commit of a reset: it flips the row, or is refused.                  *)
LEMMA ResetCommitInv ==
    ASSUME NEW p \in Procs, SwitchInv, ResetCommit(p)
    PROVE  SwitchInv'
<1>o. "ops" \in Tasks
  BY DEF Tasks
<1>u. UNCHANGED <<up, smState, smKill, memControl, crashes>>
  BY DEF ResetCommit
<1>a. ASSUME NEW c \in {IdleCall, [pc |-> "cleared", rev |-> control.revision + 1]},
             control.revision + 1 < MaxRevision,
             control' = [active |-> FALSE, revision |-> control.revision + 1],
             call' = [call EXCEPT ![p]["ops"] = c]
      PROVE  SwitchInv'
  <2>0. control \in ControlRow /\ control.revision + 1 \in 0..MaxRevision
    BY <1>a, KillSwitchAssumption DEF SwitchInv, SwitchTypeOK, ControlRow
  <2>1. SwitchTypeOK'
    <3>1. c \in Call
      BY <1>a, <2>0, KillSwitchAssumption DEF IdleCall, Call
    <3>2. call' \in [Procs -> [Tasks -> Call]]
      BY <1>a, <1>o, <3>1 DEF SwitchInv, SwitchTypeOK
    <3> QED BY <3>2, <1>a, <1>u, <2>0 DEF SwitchInv, SwitchTypeOK, ControlRow
  <2>2. RoomToTrigger' /\ RevisionZeroIsOff' /\ Halts'
    BY <1>a, <1>u, <2>0 DEF SwitchInv, ControlRow, RoomToTrigger, RevisionZeroIsOff, Halts
  <2>3. ASSUME NEW q \in Procs PROVE Agrees(memControl[q])'
    BY <1>a, <1>u, <2>0 DEF SwitchInv, SwitchTypeOK, ControlRow, CopiesAgree, Agrees
  <2>4. ASSUME NEW q \in Procs, NEW u \in Tasks, call'[q][u].pc \in {"apply", "cleared"}
        PROVE  Agrees(Reported(call[q][u]))'
    <3>1. CASE q = p /\ u = "ops"
      <4>1. call'[q][u] = [pc |-> "cleared", rev |-> control.revision + 1]
        BY <1>a, <1>o, <2>4, <3>1 DEF SwitchInv, SwitchTypeOK, IdleCall
      <4>2. Reported(call'[q][u]) = [active |-> FALSE, revision |-> control.revision + 1]
        BY <4>1 DEF Reported
      <4>3. Reported(call[q][u])' = control'
        BY <1>a, <4>2 DEF Reported
      <4> QED BY <1>a, <2>0, <4>3 DEF Agrees, ControlRow
    <3>2. CASE ~(q = p /\ u = "ops")
      <4>1. call'[q][u] = call[q][u]
        BY <1>a, <3>2 DEF SwitchInv, SwitchTypeOK
      <4>2. call[q][u].rev \in Nat /\ call[q][u].rev <= control.revision
        BY <2>4, <4>1 DEF SwitchInv, SwitchTypeOK, Call, CopiesAgree, Agrees, Reported
      <4> QED BY <1>a, <2>0, <4>1, <4>2 DEF Agrees, Reported, ControlRow
    <3> QED BY <3>1, <3>2
  <2> QED BY <2>1, <2>2, <2>3, <2>4 DEF SwitchInv, CopiesAgree
<1>b. ASSUME control' = control, call' = [call EXCEPT ![p]["ops"] = IdleCall]
      PROVE  SwitchInv'
  BY <1>b, <1>o, <1>u, KillSwitchAssumption
     DEF SwitchInv, SwitchTypeOK, RoomToTrigger, RevisionZeroIsOff, CopiesAgree,
         Halts, Agrees, Reported, Call, IdleCall
<1>1. CASE control.revision + 1 < MaxRevision /\ control' = Flipped(FALSE)
  <2>1. control'.revision = control.revision + 1
    BY <1>1 DEF Flipped
  <2>2. \/ call' = [call EXCEPT ![p]["ops"] = [pc |-> "cleared", rev |-> control.revision + 1]]
        \/ call' = [call EXCEPT ![p]["ops"] = IdleCall]
        \/ control' = control /\ call' = [call EXCEPT ![p]["ops"] = IdleCall]
    BY <2>1 DEF ResetCommit
  <2> QED BY <1>1, <1>a, <1>b, <2>2 DEF Flipped
<1> QED BY <1>1, <1>b DEF ResetCommit

(* The rest of a reset: the copy is replaced, the flag perhaps cleared.     *)
LEMMA ResetApplyInv ==
    ASSUME NEW p \in Procs, SwitchInv, ResetApply(p)
    PROVE  SwitchInv'
<1>o. "ops" \in Tasks
  BY DEF Tasks
<1>1. SwitchTypeOK'
  BY <1>o, KillSwitchAssumption
     DEF ResetApply, SwitchInv, SwitchTypeOK, ControlRow, Call, IdleCall
<1>2. CopiesAgree'
  BY <1>o, KillSwitchAssumption
     DEF ResetApply, SwitchInv, SwitchTypeOK, ControlRow, Call, IdleCall, CopiesAgree, Agrees,
         Reported
<1>3. Halts' /\ RoomToTrigger' /\ RevisionZeroIsOff'
  BY DEF ResetApply, SwitchInv, SwitchTypeOK, ControlRow, Halts, RoomToTrigger, RevisionZeroIsOff
<1> QED BY <1>1, <1>2, <1>3 DEF SwitchInv

(* The steps a composing module takes with its own variables unchanged.     *)
LEMMA SwitchStepInv == SwitchInv /\ SwitchStep => SwitchInv'
<1> SUFFICES ASSUME SwitchInv, NEW p \in Procs,
                    \/ Restore(p)
                    \/ OpsTrigger(p) \/ OpsReset(p) \/ ResetCommit(p) \/ ResetApply(p)
                    \/ \E s \in SystemStates : Transition(p, s)
             PROVE  SwitchInv'
  BY DEF SwitchStep
<1>1. CASE OpsTrigger(p)
  BY <1>1, StartTriggerInv DEF OpsTrigger, Tasks
<1> QED BY <1>1, RestoreInv, OpsResetInv, ResetCommitInv, ResetApplyInv, TransitionInv

(* A step that leaves the switch alone.                                     *)
LEMMA SwitchStutterInv == SwitchInv /\ UNCHANGED switchVars => SwitchInv'
BY DEF switchVars, SwitchInv, SwitchTypeOK, RoomToTrigger, RevisionZeroIsOff, CopiesAgree, Halts,
       Agrees, Reported
=============================================================================
