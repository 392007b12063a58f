----------------------------- MODULE MCApprovals -----------------------------
(***************************************************************************)
(* Approvals for TLC.  Bounds and instances are in approvals*.cfg.         *)
(***************************************************************************)
EXTENDS Approvals
=============================================================================
