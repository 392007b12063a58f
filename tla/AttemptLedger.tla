---------------------------- MODULE AttemptLedger ----------------------------
(***************************************************************************)
(* What the agent runtime promises about the evidence of its jobs: the     *)
(* attempts of a job are recorded one after the other and never rewritten, *)
(* a job closes with its first good result or at the latest with its last  *)
(* allowed attempt, and nothing is recorded for a closed job.  Leases,     *)
(* workers, crashes and locks do not appear.                               *)
(***************************************************************************)
EXTENDS Naturals, Sequences

CONSTANTS LedgerJobs, LedgerLimit

VARIABLES log, closed

ledgerVars == <<log, closed>>

LedgerInit == log = [j \in LedgerJobs |-> <<>>] /\ closed = {}

Record(j, result) ==
    /\ j \notin closed
    /\ log' = [log EXCEPT ![j] = Append(@, result)]
    /\ \/ closed' = closed \cup {j}
       \/ /\ result = "bad" /\ Len(log[j]) + 1 < LedgerLimit
          /\ UNCHANGED closed

LedgerNext == \E j \in LedgerJobs, result \in {"good", "bad"} : Record(j, result)

LedgerSpec == LedgerInit /\ [][LedgerNext]_ledgerVars
=============================================================================
