-------------------------------- MODULE MCOMS --------------------------------
(***************************************************************************)
(* OMS for TLC.  Bounds and instances are in oms*.cfg.                     *)
(***************************************************************************)
EXTENDS OMS
=============================================================================
