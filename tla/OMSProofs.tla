------------------------------ MODULE OMSProofs ------------------------------
(***************************************************************************)
(* Theorems about OMS, for any number of processes, orders, workers,       *)
(* crashes and lots, either exchange, with or without failing transactions.*)
(*                                                                         *)
(* AtMostOneSubmission is not inductive: that no second request leaves     *)
(* rests on who may be about to send one.  SubmitOnce says that the single *)
(* attempt of a SUBMIT command is spent when it is leased, that only the   *)
(* worker of that lease can be between claim and dispatch, and that it has *)
(* not sent yet.  A lease that expires changes none of this.               *)
(*                                                                         *)
(* What a row says of the venue rests on Truth: every outcome, answer,     *)
(* snapshot and row that still matters is borne out by the venue's order,  *)
(* and an order that is over stays as it is.                               *)
(***************************************************************************)
EXTENDS OMS, KillSwitchProofs

OMSTypeOK ==
    /\ orders \in [Orders -> OrderRow]
    /\ cmds \in [Orders -> [CommandTypes -> CommandRow]]
    /\ adapter \in [Procs -> BOOLEAN]
    /\ creating \in [Procs -> Orders \cup {None}]
    /\ worker \in [Procs -> WorkerState]
    /\ cancel \in [Procs -> CancelState]
    /\ recon \in [Procs -> ReconState]
    /\ wire \in [Orders -> [CommandTypes -> WireState]]
    /\ venue \in [Orders -> VenueRow]
    /\ sent \in [Orders -> Nat]

(* An acknowledgement names the status of an order that exists.             *)
AckNamesStatus(out) == out.kind = "ACK" => out.status # "NONE"

Shape ==
    /\ \A p \in Procs : /\ worker[p].pc \in {"claimed", "waiting", "finish"} => worker[p].o \in Orders
                        /\ worker[p].pc = "finish" => AckNamesStatus(worker[p].out)
                        /\ cancel[p].pc = "write" => cancel[p].o \in Orders
    /\ \A o \in Orders : /\ venue[o].status \in VenueLive => venue[o].filled < Qty
                         /\ \A k \in CommandTypes : AckNamesStatus(wire[o][k].out)

(* Worker p is between the claim and the dispatch of o's SUBMIT command.    *)
AboutToSubmit(p, o) ==
    worker[p].pc = "claimed" /\ worker[p].o = o /\ worker[p].k = "SUBMIT"

SubmitOnce ==
    \A o \in Orders :
        /\ orders[o].status = "NONE" => cmds[o]["SUBMIT"].status = "NONE"
        /\ cmds[o]["SUBMIT"].status \in {"NONE", "PENDING"} <=> cmds[o]["SUBMIT"].attempts = 0
        /\ cmds[o]["SUBMIT"].attempts = 0 => sent[o] = 0
        /\ sent[o] <= 1
        /\ \A p \in Procs : AboutToSubmit(p, o) => cmds[o]["SUBMIT"].attempts = 1 /\ sent[o] = 0
        /\ \A p, q \in Procs : AboutToSubmit(p, o) /\ AboutToSubmit(q, o) => p = q

Inv == SwitchInv /\ OMSTypeOK /\ Shape /\ SubmitOnce

(* Facts about rows and outcomes used below.                                *)
LEMMA RowFacts ==
    /\ VenueStatuses \subseteq OrderStatuses
    /\ NoRow \in OrderRow /\ NoVenue \in VenueRow /\ NoCommand \in CommandRow
    /\ NoOutcome \in Outcome /\ IdleWire \in WireState
    /\ IdleWorker \in WorkerState /\ IdleCancel \in CancelState /\ IdleRecon \in ReconState
    /\ AckNamesStatus(NoOutcome)
BY OMSAssumption
   DEF VenueStatuses, OrderStatuses, TERMINAL_OMS_STATUSES, NoRow, OrderRow, NoVenue, VenueRow,
       NoCommand, CommandRow, NoOutcome, Outcome, IdleWire, WireState, IdleWorker, WorkerState,
       IdleCancel, CancelState, IdleRecon, ReconState, CommandTypes, AckNamesStatus

(* Updating one command, or one request, of one order.                      *)
LEMMA NestedUpdate ==
    ASSUME NEW S, NEW f \in [Orders -> [CommandTypes -> S]],
           NEW o, NEW k, NEW v \in S
    PROVE  /\ [f EXCEPT ![o][k] = v] \in [Orders -> [CommandTypes -> S]]
           /\ \A x \in Orders : \A y \in CommandTypes :
                 [f EXCEPT ![o][k] = v][x][y] = IF x = o /\ y = k THEN v ELSE f[x][y]
<1> DEFINE g == [f EXCEPT ![o] = [f[o] EXCEPT ![k] = v]]
<1>1. CASE o \in Orders
  <2>1. [f[o] EXCEPT ![k] = v] \in [CommandTypes -> S]
    BY <1>1
  <2> QED BY <1>1, <2>1
<1>2. CASE o \notin Orders
  BY <1>2
<1> QED BY <1>1, <1>2

(* Changing the flag or the status of a command keeps it a command.         *)
LEMMA CommandFacts ==
    ASSUME NEW c \in CommandRow
    PROVE  /\ [c EXCEPT !.expired = TRUE] \in CommandRow
           /\ [c EXCEPT !.status = "DEAD_LETTER", !.expired = FALSE] \in CommandRow
           /\ [c EXCEPT !.status = "COMPLETED", !.expired = FALSE] \in CommandRow
BY DEF CommandRow

(* A boot chooses an adapter and touches no row.                            *)
LEMMA BootTypes ==
    ASSUME Inv, NEW p \in Procs, BootOMS(p)
    PROVE  OMSTypeOK' /\ Shape'
<1>1. PICK b \in BOOLEAN : adapter' = [adapter EXCEPT ![p] = b]
  BY DEF BootOMS
<1> QED BY <1>1 DEF Inv, BootOMS, OMSTypeOK, Shape

(* create_oms_order writes a well-typed order and its SUBMIT command.       *)
LEMMA CreateTypes ==
    ASSUME Inv, NEW p \in Procs, CreateOrder(p)
    PROVE  OMSTypeOK' /\ Shape'
<1>0. /\ [status |-> "PENDING_SUBMISSION", ver |-> 1, vid |-> FALSE, filled |-> 0] \in OrderRow
      /\ [status |-> "PENDING", attempts |-> 0, expired |-> FALSE] \in CommandRow
      /\ "SUBMIT" \in CommandTypes
  BY OMSAssumption
     DEF OrderRow, OrderStatuses, TERMINAL_OMS_STATUSES, CommandRow, CommandTypes
<1>1. orders' \in [Orders -> OrderRow]
  BY <1>0 DEF Inv, CreateOrder, dbVars, OMSTypeOK
<1>2. cmds' \in [Orders -> [CommandTypes -> CommandRow]]
  <2> DEFINE row == [status |-> "PENDING", attempts |-> 0, expired |-> FALSE]
  <2>1. CASE cmds' = [cmds EXCEPT ![creating[p]]["SUBMIT"] = row]
    <3> HIDE DEF row
    <3>1. row \in CommandRow
      BY <1>0 DEF row
    <3> QED BY <2>1, <3>1, NestedUpdate DEF Inv, OMSTypeOK
  <2> QED BY <2>1 DEF Inv, CreateOrder, dbVars, OMSTypeOK
<1> QED BY <1>1, <1>2 DEF Inv, CreateOrder, OMSTypeOK, Shape

(* A new order starts with an unspent SUBMIT command and nothing sent.      *)
LEMMA CreateOnce ==
    ASSUME Inv, NEW p \in Procs, CreateOrder(p)
    PROVE  SubmitOnce'
<1>1. UNCHANGED <<worker, sent>>
  BY DEF CreateOrder
<1>2. CASE UNCHANGED dbVars
  BY <1>1, <1>2 DEF Inv, dbVars, SubmitOnce, AboutToSubmit
<1>3. CASE ~UNCHANGED dbVars
  <2> DEFINE o == creating[p]
  <2>1. /\ o \in Orders /\ orders[o].status = "NONE"
        /\ orders' = [orders EXCEPT
              ![o] = [status |-> "PENDING_SUBMISSION", ver |-> 1, vid |-> FALSE, filled |-> 0]]
        /\ cmds' = [cmds EXCEPT
              ![o]["SUBMIT"] = [status |-> "PENDING", attempts |-> 0, expired |-> FALSE]]
    BY <1>3 DEF CreateOrder, Inv, OMSTypeOK
  <2>2. cmds[o]["SUBMIT"].status = "NONE" /\ cmds[o]["SUBMIT"].attempts = 0
    BY <2>1 DEF Inv, SubmitOnce
  <2>3. /\ orders'[o].status = "PENDING_SUBMISSION"
        /\ cmds'[o]["SUBMIT"].status = "PENDING" /\ cmds'[o]["SUBMIT"].attempts = 0
        /\ \A x \in Orders \ {o} : orders'[x] = orders[x] /\ cmds'[x] = cmds[x]
    BY <2>1 DEF Inv, OMSTypeOK, CommandTypes
  <2> HIDE DEF o
  <2> QED BY <1>1, <2>1, <2>2, <2>3 DEF Inv, SubmitOnce, AboutToSubmit
<1> QED BY <1>2, <1>3

(* A later version of an order in some status, with or without an           *)
(* acknowledged fill, is an order.                                          *)
LEMMA RowUpdates ==
    ASSUME NEW r \in OrderRow, NEW n \in Nat
    PROVE  /\ [r EXCEPT !.ver = @ + n] \in OrderRow
           /\ \A s \in OrderStatuses : [r EXCEPT !.status = s] \in OrderRow
           /\ [r EXCEPT !.status = "UNKNOWN", !.ver = @ + n] \in OrderRow
           /\ [r EXCEPT !.status = "CANCEL_PENDING", !.ver = @ + n] \in OrderRow
           /\ \A s \in OrderStatuses, f \in 0..Qty :
                 [r EXCEPT !.status = s, !.vid = TRUE, !.filled = f] \in OrderRow
<1>1. "UNKNOWN" \in OrderStatuses /\ "CANCEL_PENDING" \in OrderStatuses
  BY DEF OrderStatuses
<1>2. ASSUME NEW m \in Nat PROVE [r EXCEPT !.ver = m] \in OrderRow
  BY DEF OrderRow
<1>3. r.ver \in Nat /\ r.ver + n \in Nat
  BY DEF OrderRow
<1>4. ASSUME NEW s \in OrderStatuses PROVE [r EXCEPT !.status = s] \in OrderRow
  BY DEF OrderRow
<1>5. ASSUME NEW s \in OrderStatuses, NEW m \in Nat
      PROVE  [r EXCEPT !.status = s, !.ver = m] \in OrderRow
  BY DEF OrderRow
<1>6. ASSUME NEW s \in OrderStatuses, NEW f \in 0..Qty
      PROVE  [r EXCEPT !.status = s, !.vid = TRUE, !.filled = f] \in OrderRow
  BY DEF OrderRow
<1>7. [r EXCEPT !.ver = @ + n] = [r EXCEPT !.ver = r.ver + n]
  BY DEF OrderRow
<1>8. ASSUME NEW s
      PROVE  [r EXCEPT !.status = s, !.ver = @ + n] = [r EXCEPT !.status = s, !.ver = r.ver + n]
  BY DEF OrderRow
<1> QED BY <1>1, <1>2, <1>3, <1>4, <1>5, <1>6, <1>7, <1>8

(* What the sweep of claim_execution_command leaves of orders and commands. *)
LEMMA SweptFacts ==
    ASSUME Inv
    PROVE  /\ SweptOrders \in [Orders -> OrderRow]
           /\ SweptCommands \in [Orders -> [CommandTypes -> CommandRow]]
           /\ \A o \in Orders : SweptOrders[o].status = "NONE" => orders[o].status = "NONE"
           /\ \A o \in Orders, k \in CommandTypes :
                 /\ SweptCommands[o][k].attempts = cmds[o][k].attempts
                 /\ SweptCommands[o][k].status \in {"NONE", "PENDING"}
                       <=> cmds[o][k].status \in {"NONE", "PENDING"}
                 /\ SweptCommands[o][k].status = "NONE" <=> cmds[o][k].status = "NONE"
<1>1. ASSUME NEW o \in Orders
      PROVE  SweptOrders[o] \in OrderRow /\ (SweptOrders[o].status = "NONE" => orders[o].status = "NONE")
  <2>1. orders[o] \in OrderRow
    BY DEF Inv, OMSTypeOK
  <2>2. ASSUME NEW n \in Nat
        PROVE  [orders[o] EXCEPT !.status = "UNKNOWN", !.ver = @ + n] \in OrderRow
    BY <2>1, RowUpdates
  <2>3. \/ SweptOrders[o] = orders[o]
        \/ SweptOrders[o] = [orders[o] EXCEPT !.status = "UNKNOWN", !.ver = @ + 1]
        \/ SweptOrders[o] = [orders[o] EXCEPT !.status = "UNKNOWN", !.ver = @ + 2]
    BY DEF SweptOrders
  <2>4. SweptOrders[o] \in OrderRow
    BY <2>1, <2>2, <2>3
  <2> QED BY <2>1, <2>3, <2>4 DEF OrderRow
<1>2. ASSUME NEW o \in Orders, NEW k \in CommandTypes
      PROVE  /\ SweptCommands[o][k] \in CommandRow
             /\ SweptCommands[o][k].attempts = cmds[o][k].attempts
             /\ SweptCommands[o][k].status \in {"NONE", "PENDING"}
                   <=> cmds[o][k].status \in {"NONE", "PENDING"}
             /\ SweptCommands[o][k].status = "NONE" <=> cmds[o][k].status = "NONE"
  <2>1. cmds[o][k] \in CommandRow
    BY DEF Inv, OMSTypeOK
  <2>2. SweptCommands[o][k] =
          IF Stale(o, k) THEN [cmds[o][k] EXCEPT !.status = "DEAD_LETTER", !.expired = FALSE]
                         ELSE cmds[o][k]
    BY DEF SweptCommands
  <2>3. SweptCommands[o][k] \in CommandRow
    BY <2>1, <2>2, CommandFacts
  <2> QED BY <2>1, <2>2, <2>3 DEF CommandRow, Stale
<1>3. SweptOrders = [o \in Orders |-> SweptOrders[o]]
  BY DEF SweptOrders
<1>4. SweptCommands = [o \in Orders |-> [k \in CommandTypes |-> SweptCommands[o][k]]]
  BY DEF SweptCommands
<1>5. SweptOrders \in [Orders -> OrderRow]
  BY <1>1, <1>3
<1>6. SweptCommands \in [Orders -> [CommandTypes -> CommandRow]]
  BY <1>2, <1>4
<1> QED BY <1>1, <1>2, <1>5, <1>6

(* Steps that leave the OMS alone.                                          *)
LEMMA OMSStutter ==
    ASSUME Inv, UNCHANGED omsVars
    PROVE  OMSTypeOK' /\ Shape' /\ SubmitOnce'
BY DEF omsVars, Inv, OMSTypeOK, Shape, SubmitOnce, AboutToSubmit

(* Claiming: what both branches of Claim do.                                *)
LEMMA ClaimStep ==
    ASSUME Inv, NEW p \in Procs, Claim(p) \/ ClaimFails(p)
    PROVE  OMSTypeOK' /\ Shape' /\ SubmitOnce'
<1>0. CASE UNCHANGED omsVars
  BY <1>0, OMSStutter
<1>u. UNCHANGED <<adapter, creating, cancel, recon, wire, venue, sent>>
  BY DEF Claim, ClaimFails
<1>a. ASSUME NEW o \in Orders, NEW k \in CommandTypes, Leased(o, k), orders' = SweptOrders,
             \/ worker' = worker
             \/ worker' = [worker EXCEPT
                  ![p] = [pc |-> "claimed", o |-> o, k |-> k,
                          copy |-> SweptOrders[o], out |-> NoOutcome]]
      PROVE  OMSTypeOK' /\ Shape' /\ SubmitOnce'
  <2> DEFINE row == [status |-> "LEASED", attempts |-> 1, expired |-> FALSE]
             job == [pc |-> "claimed", o |-> o, k |-> k, copy |-> SweptOrders[o], out |-> NoOutcome]
  <2>1. cmds[o][k].attempts = 0
    <3>1. cmds[o][k] \in CommandRow
      BY DEF Inv, OMSTypeOK
    <3> QED BY <1>a, <3>1 DEF CommandRow, Leased
  <2>2. row \in CommandRow
    BY DEF CommandRow
  <2>3. job \in WorkerState
    BY SweptFacts, RowFacts DEF WorkerState
  <2>4. cmds' = [SweptCommands EXCEPT ![o][k] = row] /\ cmds[o][k].status = "PENDING"
    BY <1>a, <2>1 DEF Leased
  <2>5. worker' = worker \/ worker' = [worker EXCEPT ![p] = job]
    BY <1>a
  <2>6. job.pc = "claimed" /\ job.o = o /\ job.k = k
    OBVIOUS
  <2>7. row.status = "LEASED" /\ row.attempts = 1
    OBVIOUS
  <2> HIDE DEF row, job
  <2>8. /\ cmds' \in [Orders -> [CommandTypes -> CommandRow]]
        /\ \A x \in Orders : \A y \in CommandTypes :
              cmds'[x][y] = IF x = o /\ y = k THEN row ELSE SweptCommands[x][y]
    BY <2>2, <2>4, SweptFacts, NestedUpdate
  <2>9. worker' \in [Procs -> WorkerState]
    BY <2>3, <2>5 DEF Inv, OMSTypeOK
  <2>10. (worker'[p] = worker[p] \/ worker'[p] = job) /\ \A q \in Procs \ {p} : worker'[q] = worker[q]
    BY <2>5 DEF Inv, OMSTypeOK
  <2>11. OMSTypeOK'
    BY <1>a, <1>u, <2>8, <2>9, SweptFacts DEF Inv, OMSTypeOK
  <2>12. Shape'
    BY <1>u, <2>6, <2>10 DEF Inv, Shape
  <2>13. ASSUME NEW x \in Orders, NEW q \in Procs, AboutToSubmit(q, x)'
         PROVE  \/ q = p /\ x = o /\ k = "SUBMIT"
                \/ AboutToSubmit(q, x)
    BY <2>6, <2>10, <2>13 DEF AboutToSubmit
  <2>14. "SUBMIT" \in CommandTypes
    BY DEF CommandTypes
  <2>15. SubmitOnce'
    <3> SUFFICES ASSUME NEW x \in Orders
                 PROVE  /\ orders'[x].status = "NONE" => cmds'[x]["SUBMIT"].status = "NONE"
                        /\ cmds'[x]["SUBMIT"].status \in {"NONE", "PENDING"}
                             <=> cmds'[x]["SUBMIT"].attempts = 0
                        /\ cmds'[x]["SUBMIT"].attempts = 0 => sent'[x] = 0
                        /\ sent'[x] <= 1
                        /\ \A q \in Procs : AboutToSubmit(q, x)' =>
                              cmds'[x]["SUBMIT"].attempts = 1 /\ sent'[x] = 0
                        /\ \A q, r \in Procs : AboutToSubmit(q, x)' /\ AboutToSubmit(r, x)' => q = r
      BY DEF SubmitOnce
    <3>1. CASE x = o /\ k = "SUBMIT"
      <4>1. /\ sent[x] = 0
            /\ \A q \in Procs : ~AboutToSubmit(q, x)
            /\ orders[x].status # "NONE"
        BY <2>1, <2>4, <3>1 DEF Inv, SubmitOnce
      <4> QED BY <1>a, <1>u, <2>7, <2>8, <2>13, <2>14, <3>1, <4>1, SweptFacts
    <3>2. CASE ~(x = o /\ k = "SUBMIT")
      <4>1. cmds'[x]["SUBMIT"] = SweptCommands[x]["SUBMIT"]
        BY <2>8, <2>14, <3>2
      <4> QED BY <1>a, <1>u, <2>13, <2>14, <3>2, <4>1, SweptFacts DEF Inv, SubmitOnce
    <3> QED BY <3>1, <3>2
  <2> QED BY <2>11, <2>12, <2>15
<1>b. ASSUME cmds' = SweptCommands, orders' = SweptOrders, worker' = worker
      PROVE  OMSTypeOK' /\ Shape' /\ SubmitOnce'
  <2>1. OMSTypeOK' /\ Shape'
    BY <1>b, <1>u, SweptFacts DEF Inv, OMSTypeOK, Shape
  <2>2. "SUBMIT" \in CommandTypes
    BY DEF CommandTypes
  <2>3. SubmitOnce'
    BY <1>b, <1>u, <2>2, SweptFacts DEF Inv, SubmitOnce, AboutToSubmit
  <2> QED BY <2>1, <2>3
<1> QED BY <1>0, <1>a, <1>b DEF Claim, ClaimFails, NothingToLease, omsVars

(* The states a worker's job goes through.                                  *)
LEMMA JobFacts ==
    ASSUME NEW w \in WorkerState
    PROVE  /\ w.out \in Outcome /\ w.copy \in OrderRow /\ w.k \in CommandTypes
           /\ w.copy.filled \in 0..Qty
           /\ [w EXCEPT !.pc = "waiting"] \in WorkerState
           /\ \A out \in Outcome : [w EXCEPT !.pc = "finish", !.out = out] \in WorkerState
BY DEF WorkerState, OrderRow

(* What dispatch_once makes of an answer is again an outcome.               *)
LEMMA OutcomeFacts ==
    /\ \A out \in Outcome :
          /\ \A kind \in {"IDENTITY", "AMBIGUOUS", "QUARANTINE", "NO_ADAPTER"} :
                [out EXCEPT !.kind = kind] \in Outcome /\ AckNamesStatus([out EXCEPT !.kind = kind])
    /\ \A f \in 0..Qty :
          /\ [NoOutcome EXCEPT !.filled = f] \in Outcome
          /\ AckNamesStatus([NoOutcome EXCEPT !.filled = f])
BY DEF Outcome, NoOutcome, AckNamesStatus, OrderStatuses

(* A step that changes neither rows nor history, and lets no worker become  *)
(* ready to submit.                                                         *)
LEMMA OnceKept ==
    ASSUME Inv, UNCHANGED <<orders, cmds, sent>>,
           \A q \in Procs, o \in Orders : AboutToSubmit(q, o)' => AboutToSubmit(q, o)
    PROVE  SubmitOnce'
BY DEF Inv, SubmitOnce

(* dispatch_once settles the command without a venue call, or hears from    *)
(* the venue, or gives up waiting: the job moves to "finish".               *)
LEMMA SettleStep ==
    ASSUME Inv, NEW p \in Procs, NEW out \in Outcome, AckNamesStatus(out),
           worker[p].pc \in {"claimed", "waiting"},
           worker' = [worker EXCEPT ![p] = [worker[p] EXCEPT !.pc = "finish", !.out = out]],
           \/ wire' = wire
           \/ \E o \in Orders, k \in CommandTypes : wire' = [wire EXCEPT ![o][k] = IdleWire],
           UNCHANGED <<orders, cmds, adapter, creating, cancel, recon, venue, sent>>
    PROVE  OMSTypeOK' /\ Shape' /\ SubmitOnce'
<1> DEFINE job == [worker[p] EXCEPT !.pc = "finish", !.out = out]
<1>0. worker[p] \in WorkerState
  BY DEF Inv, OMSTypeOK
<1>1. job \in WorkerState /\ job.pc = "finish" /\ job.out = out /\ job.o = worker[p].o
  BY <1>0, JobFacts DEF WorkerState
<1>2. worker' = [worker EXCEPT ![p] = job]
  OBVIOUS
<1> HIDE DEF job
<1>3. worker' \in [Procs -> WorkerState]
  BY <1>1, <1>2 DEF Inv, OMSTypeOK
<1>4. worker'[p] = job /\ \A q \in Procs \ {p} : worker'[q] = worker[q]
  BY <1>2 DEF Inv, OMSTypeOK
<1>5. /\ wire' \in [Orders -> [CommandTypes -> WireState]]
      /\ \A o \in Orders, k \in CommandTypes : AckNamesStatus(wire'[o][k].out)
  <2>1. IdleWire.out = NoOutcome
    BY DEF IdleWire
  <2>2. CASE wire' = wire
    BY <2>2 DEF Inv, OMSTypeOK, Shape
  <2>3. ASSUME NEW o \in Orders, NEW k \in CommandTypes, wire' = [wire EXCEPT ![o][k] = IdleWire]
        PROVE  <1>5!1 /\ <1>5!2
    <3>1. wire \in [Orders -> [CommandTypes -> WireState]] /\ IdleWire \in WireState
      BY RowFacts DEF Inv, OMSTypeOK
    <3>2. /\ wire' \in [Orders -> [CommandTypes -> WireState]]
          /\ \A x \in Orders : \A y \in CommandTypes :
                wire'[x][y] = IF x = o /\ y = k THEN IdleWire ELSE wire[x][y]
      BY <2>3, <3>1, NestedUpdate
    <3> QED BY <2>1, <3>2, RowFacts DEF Inv, Shape
  <2> QED BY <2>2, <2>3
<1>6. OMSTypeOK'
  BY <1>3, <1>5 DEF Inv, OMSTypeOK
<1>7. worker[p].o \in Orders
  BY DEF Inv, Shape
<1>8. Shape'
  BY <1>1, <1>4, <1>5, <1>7 DEF Inv, Shape, AckNamesStatus
<1>9. SubmitOnce'
  <2>1. \A q \in Procs, o \in Orders : AboutToSubmit(q, o)' => AboutToSubmit(q, o)
    BY <1>1, <1>4 DEF AboutToSubmit
  <2> QED BY <2>1, OnceKept
<1> QED BY <1>6, <1>8, <1>9

(* Dispatch either settles the command or hands the request to the          *)
(* transport, which only the worker of the single attempt can do.           *)
LEMMA DispatchStep ==
    ASSUME Inv, NEW p \in Procs, Dispatch(p)
    PROVE  OMSTypeOK' /\ Shape' /\ SubmitOnce'
<1>0. /\ worker[p] \in WorkerState /\ worker[p].pc = "claimed" /\ worker[p].o \in Orders
      /\ UNCHANGED <<orders, cmds, adapter, creating, cancel, recon, venue>>
  BY DEF Inv, OMSTypeOK, Shape, Dispatch
<1>1. ASSUME NEW kind \in {"NO_ADAPTER", "QUARANTINE"},
             worker' = [worker EXCEPT ![p].pc = "finish", ![p].out.kind = kind],
             UNCHANGED <<wire, sent>>
      PROVE  OMSTypeOK' /\ Shape' /\ SubmitOnce'
  <2>1. worker' = [worker EXCEPT ![p] =
             [worker[p] EXCEPT !.pc = "finish", !.out = [worker[p].out EXCEPT !.kind = kind]]]
    BY <1>0, <1>1 DEF Inv, OMSTypeOK, WorkerState
  <2> QED BY <1>0, <1>1, <2>1, JobFacts, OutcomeFacts, SettleStep
<1>2. ASSUME worker' = [worker EXCEPT ![p].pc = "waiting"],
             wire' = [wire EXCEPT ![worker[p].o][worker[p].k] =
                [pc |-> "request", out |-> [NoOutcome EXCEPT !.filled = worker[p].copy.filled]]],
             sent' = IF worker[p].k = "SUBMIT" THEN [sent EXCEPT ![worker[p].o] = @ + 1] ELSE sent
      PROVE  OMSTypeOK' /\ Shape' /\ SubmitOnce'
  <2> DEFINE job == [worker[p] EXCEPT !.pc = "waiting"]
             out == [NoOutcome EXCEPT !.filled = worker[p].copy.filled]
             req == [pc |-> "request", out |-> out]
  <2>1. job \in WorkerState /\ job.pc = "waiting" /\ job.o = worker[p].o
    BY <1>0, JobFacts DEF WorkerState
  <2>2. worker' = [worker EXCEPT ![p] = job]
    BY <1>2
  <2>3. out \in Outcome /\ AckNamesStatus(out)
    BY <1>0, JobFacts, OutcomeFacts
  <2>4. req \in WireState /\ req.out = out
    BY <2>3 DEF WireState
  <2>5. wire' = [wire EXCEPT ![worker[p].o][worker[p].k] = req]
    BY <1>2
  <2> HIDE DEF job, out, req
  <2>6. worker'[p] = job /\ \A q \in Procs \ {p} : worker'[q] = worker[q]
    BY <2>2 DEF Inv, OMSTypeOK
  <2>7. worker' \in [Procs -> WorkerState]
    BY <2>1, <2>2 DEF Inv, OMSTypeOK
  <2>8. /\ wire' \in [Orders -> [CommandTypes -> WireState]]
        /\ \A x \in Orders : \A y \in CommandTypes : AckNamesStatus(wire'[x][y].out)
    <3>1. wire \in [Orders -> [CommandTypes -> WireState]]
      BY DEF Inv, OMSTypeOK
    <3>0. PICK o \in Orders, k \in CommandTypes : o = worker[p].o /\ k = worker[p].k
      BY <1>0, JobFacts
    <3>3. wire' = [wire EXCEPT ![o][k] = req]
      BY <2>5, <3>0
    <3>2. /\ wire' \in [Orders -> [CommandTypes -> WireState]]
          /\ \A x \in Orders : \A y \in CommandTypes :
                wire'[x][y] = IF x = o /\ y = k THEN req ELSE wire[x][y]
      BY <2>4, <3>1, <3>3, NestedUpdate
    <3> QED BY <2>3, <2>4, <3>2 DEF Inv, Shape
  <2>9. sent' \in [Orders -> Nat]
    BY <1>0, <1>2 DEF Inv, OMSTypeOK
  <2>10. OMSTypeOK' /\ Shape'
    BY <1>0, <2>1, <2>6, <2>7, <2>8, <2>9 DEF Inv, OMSTypeOK, Shape
  <2>11. \A q \in Procs, x \in Orders : AboutToSubmit(q, x)' => q # p /\ AboutToSubmit(q, x)
    BY <2>1, <2>6 DEF AboutToSubmit
  <2>12. CASE worker[p].k # "SUBMIT"
    <3>1. UNCHANGED <<orders, cmds, sent>>
      BY <1>0, <1>2, <2>12
    <3> QED BY <2>10, <2>11, <3>1, OnceKept
  <2>13. CASE worker[p].k = "SUBMIT"
    <3>0. PICK o \in Orders : o = worker[p].o
      BY <1>0
    <3>1. AboutToSubmit(p, o)
      BY <1>0, <2>13, <3>0 DEF AboutToSubmit
    <3>2. sent[o] = 0 /\ cmds[o]["SUBMIT"].attempts = 1 /\ \A q \in Procs : ~AboutToSubmit(q, o)'
      BY <1>0, <2>11, <3>1 DEF Inv, SubmitOnce
    <3>3. sent'[o] = 1 /\ \A x \in Orders \ {o} : sent'[x] = sent[x]
      BY <1>2, <2>13, <3>0, <3>2 DEF Inv, OMSTypeOK
    <3> QED BY <1>0, <2>10, <2>11, <3>2, <3>3 DEF Inv, SubmitOnce
  <2> QED BY <2>10, <2>12, <2>13
<1> QED BY <1>1, <1>2 DEF Dispatch

(* The venue answers.                                                       *)
LEMMA AnswerStep ==
    ASSUME Inv, NEW p \in Procs, Answer(p)
    PROVE  OMSTypeOK' /\ Shape' /\ SubmitOnce'
<1>0. /\ worker[p] \in WorkerState /\ worker[p].pc = "waiting" /\ worker[p].o \in Orders
      /\ UNCHANGED <<orders, cmds, adapter, creating, cancel, recon, venue, sent>>
  BY DEF Inv, OMSTypeOK, Shape, Answer
<1>1. PICK o \in Orders, k \in CommandTypes : o = worker[p].o /\ k = worker[p].k
  BY <1>0, JobFacts
<1>2. wire[o][k].out \in Outcome /\ AckNamesStatus(wire[o][k].out)
  <2>1. wire[o][k] \in WireState
    BY DEF Inv, OMSTypeOK
  <2> QED BY <2>1 DEF Inv, Shape, WireState
<1>3. wire' = [wire EXCEPT ![o][k] = IdleWire]
  BY <1>1 DEF Answer
<1>4. CASE worker' = [worker EXCEPT ![p].pc = "finish", ![p].out = wire[o][k].out]
  <2>1. worker' = [worker EXCEPT ![p] =
             [worker[p] EXCEPT !.pc = "finish", !.out = wire[o][k].out]]
    BY <1>4 DEF Inv, OMSTypeOK
  <2> QED BY <1>0, <1>2, <1>3, <2>1, SettleStep
<1>5. CASE worker' = [worker EXCEPT ![p].pc = "finish", ![p].out.kind = "IDENTITY"]
  <2>1. worker' = [worker EXCEPT ![p] =
             [worker[p] EXCEPT !.pc = "finish", !.out = [worker[p].out EXCEPT !.kind = "IDENTITY"]]]
    BY <1>0, <1>5 DEF Inv, OMSTypeOK, WorkerState
  <2> QED BY <1>0, <1>3, <2>1, JobFacts, OutcomeFacts, SettleStep
<1> QED BY <1>1, <1>4, <1>5 DEF Answer

(* The worker gives up waiting.                                             *)
LEMMA TimeoutStep ==
    ASSUME Inv, NEW p \in Procs, Timeout(p)
    PROVE  OMSTypeOK' /\ Shape' /\ SubmitOnce'
<1>0. /\ worker[p] \in WorkerState /\ worker[p].pc = "waiting" /\ worker[p].o \in Orders
      /\ UNCHANGED <<orders, cmds, adapter, creating, cancel, recon, venue, sent>>
      /\ worker' = [worker EXCEPT ![p].pc = "finish", ![p].out.kind = "AMBIGUOUS"]
  BY DEF Inv, OMSTypeOK, Shape, Timeout
<1>1. PICK o \in Orders, k \in CommandTypes : o = worker[p].o /\ k = worker[p].k
  BY <1>0, JobFacts
<1>2. wire' = wire \/ wire' = [wire EXCEPT ![o][k] = IdleWire]
  BY <1>1 DEF Timeout
<1>3. worker' = [worker EXCEPT ![p] =
           [worker[p] EXCEPT !.pc = "finish", !.out = [worker[p].out EXCEPT !.kind = "AMBIGUOUS"]]]
  BY <1>0 DEF Inv, OMSTypeOK, WorkerState
<1> QED BY <1>0, <1>2, <1>3, JobFacts, OutcomeFacts, SettleStep

(* A worker that stops working on its job.                                  *)
LEMMA WorkerIdles ==
    ASSUME Inv, NEW p \in Procs, NEW job \in WorkerState, job.pc \in {"idle", "after"},
           worker' = [worker EXCEPT ![p] = job]
    PROVE  /\ worker' \in [Procs -> WorkerState]
           /\ \A q \in Procs :
                 /\ worker'[q].pc \in {"claimed", "waiting", "finish"} => worker'[q].o \in Orders
                 /\ worker'[q].pc = "finish" => AckNamesStatus(worker'[q].out)
           /\ \A q \in Procs, o \in Orders : AboutToSubmit(q, o)' => AboutToSubmit(q, o)
<1>1. worker' \in [Procs -> WorkerState]
  BY DEF Inv, OMSTypeOK
<1>2. worker'[p] = job /\ \A q \in Procs \ {p} : worker'[q] = worker[q]
  BY DEF Inv, OMSTypeOK
<1> QED BY <1>1, <1>2 DEF Inv, Shape, AboutToSubmit

(* What dispatch_once writes back exists and is an order.                   *)
LEMMA UpdatedFacts ==
    ASSUME NEW w \in WorkerState, AckNamesStatus(w.out)
    PROVE  Updated(w) \in OrderRow /\ Updated(w).status # "NONE"
<1>0. w.out \in Outcome /\ w.copy \in OrderRow
  BY JobFacts
<1> DEFINE row == [w.copy EXCEPT !.ver = @ + 1]
<1>1. row \in OrderRow
  BY <1>0, RowUpdates
<1>2. {"QUARANTINED", "REJECTED", "UNKNOWN"} \subseteq OrderStatuses
  BY DEF OrderStatuses, TERMINAL_OMS_STATUSES
<1>3. \/ Updated(w) = [row EXCEPT !.status = w.out.status, !.vid = TRUE, !.filled = w.out.filled]
         /\ w.out.kind = "ACK"
      \/ \E s \in {"QUARANTINED", "REJECTED", "UNKNOWN"} : Updated(w) = [row EXCEPT !.status = s]
  BY DEF Updated
<1> HIDE DEF row
<1>4. CASE w.out.kind = "ACK" /\
           Updated(w) = [row EXCEPT !.status = w.out.status, !.vid = TRUE, !.filled = w.out.filled]
  <2>1. w.out.status \in OrderStatuses /\ w.out.filled \in 0..Qty /\ w.out.status # "NONE"
    BY <1>0, <1>4 DEF Outcome, AckNamesStatus
  <2>2. [row EXCEPT !.status = w.out.status, !.vid = TRUE, !.filled = w.out.filled] \in OrderRow
    BY <1>1, <2>1, RowUpdates
  <2> QED BY <1>1, <1>4, <2>1, <2>2 DEF OrderRow
<1>5. ASSUME NEW s \in {"QUARANTINED", "REJECTED", "UNKNOWN"}, Updated(w) = [row EXCEPT !.status = s]
      PROVE  Updated(w) \in OrderRow /\ Updated(w).status # "NONE"
  <2>1. [row EXCEPT !.status = s] \in OrderRow
    BY <1>1, <1>2, RowUpdates
  <2> QED BY <1>1, <1>5, <2>1 DEF OrderRow
<1> QED BY <1>3, <1>4, <1>5

(* finish_execution_command completes the command and writes its order.     *)
LEMMA FinishStep ==
    ASSUME Inv, NEW p \in Procs, Finish(p)
    PROVE  OMSTypeOK' /\ Shape' /\ SubmitOnce'
<1>0. /\ worker[p] \in WorkerState /\ worker[p].pc = "finish" /\ worker[p].o \in Orders
      /\ AckNamesStatus(worker[p].out)
      /\ UNCHANGED <<adapter, creating, cancel, recon, wire, venue, sent>>
  BY DEF Inv, OMSTypeOK, Shape, Finish
<1>1. PICK o \in Orders, k \in CommandTypes : o = worker[p].o /\ k = worker[p].k
  BY <1>0, JobFacts
<1> DEFINE job == [IdleWorker EXCEPT !.pc = "after",
                      !.out = [NoOutcome EXCEPT !.kind = worker[p].out.kind]]
           done == [cmds[o][k] EXCEPT !.status = "COMPLETED", !.expired = FALSE]
<1>2. job \in WorkerState /\ job.pc = "after"
  <2>1. worker[p].out \in Outcome
    BY <1>0, JobFacts
  <2>2. [NoOutcome EXCEPT !.kind = worker[p].out.kind] \in Outcome
    BY <2>1, RowFacts DEF Outcome
  <2> QED BY <2>2, RowFacts DEF WorkerState
<1>3. /\ worker' = [worker EXCEPT ![p] = job]
      /\ orders' = [orders EXCEPT ![o] = Updated(worker[p])]
      /\ cmds[o][k].status = "LEASED"
  BY <1>1 DEF Finish, MayFinish
<1>4. cmds[o][k] \in CommandRow
  BY DEF Inv, OMSTypeOK
<1>5. cmds' = [cmds EXCEPT ![o][k] = done]
  BY <1>1, <1>4 DEF Finish, CommandRow, Inv, OMSTypeOK
<1>6. done \in CommandRow /\ done.status = "COMPLETED" /\ done.attempts = cmds[o][k].attempts
  BY <1>4, CommandFacts DEF CommandRow
<1> HIDE DEF job, done
<1>7. /\ cmds' \in [Orders -> [CommandTypes -> CommandRow]]
      /\ \A x \in Orders : \A y \in CommandTypes :
            cmds'[x][y] = IF x = o /\ y = k THEN done ELSE cmds[x][y]
  <2>1. cmds \in [Orders -> [CommandTypes -> CommandRow]]
    BY DEF Inv, OMSTypeOK
  <2> QED BY <1>5, <1>6, <2>1, NestedUpdate
<1>8. /\ orders' \in [Orders -> OrderRow]
      /\ orders'[o].status # "NONE" /\ \A x \in Orders \ {o} : orders'[x] = orders[x]
  BY <1>0, <1>3, UpdatedFacts DEF Inv, OMSTypeOK
<1>9. OMSTypeOK' /\ Shape'
  BY <1>0, <1>2, <1>3, <1>7, <1>8, WorkerIdles DEF Inv, OMSTypeOK, Shape
<1>10. \A q \in Procs, x \in Orders : AboutToSubmit(q, x)' => AboutToSubmit(q, x)
  BY <1>2, <1>3, WorkerIdles
<1>11. "SUBMIT" \in CommandTypes
  BY DEF CommandTypes
<1>12. \A x \in Orders : /\ cmds'[x]["SUBMIT"].attempts = cmds[x]["SUBMIT"].attempts
                         /\ cmds'[x]["SUBMIT"].status \in {"NONE", "PENDING"}
                              <=> cmds[x]["SUBMIT"].status \in {"NONE", "PENDING"}
                         /\ cmds[x]["SUBMIT"].status = "NONE" => cmds'[x]["SUBMIT"].status = "NONE"
  BY <1>3, <1>6, <1>7, <1>11
<1>13. SubmitOnce'
  BY <1>0, <1>8, <1>10, <1>12 DEF Inv, SubmitOnce
<1> QED BY <1>9, <1>13

(* queue_cancel_command moves an existing order and adds its CANCEL.        *)
LEMMA QueueCancelStep ==
    ASSUME Inv, NEW p \in Procs, QueueCancel(p)
    PROVE  OMSTypeOK' /\ Shape' /\ SubmitOnce'
<1>0. /\ UNCHANGED <<adapter, creating, worker, recon, wire, venue, sent>>
      /\ cancel' = [cancel EXCEPT ![p] = IdleCancel]
  BY DEF QueueCancel
<1>1. PICK o \in Orders : o = cancel[p].o
  BY DEF QueueCancel, Inv, Shape
<1>2. /\ cancel' \in [Procs -> CancelState]
      /\ \A q \in Procs : cancel'[q].pc = "write" => cancel'[q].o \in Orders
  BY <1>0, RowFacts DEF Inv, OMSTypeOK, Shape, IdleCancel
<1>3. CASE UNCHANGED dbVars
  BY <1>0, <1>2, <1>3 DEF dbVars, Inv, OMSTypeOK, Shape, SubmitOnce, AboutToSubmit
<1>4. CASE ~UNCHANGED dbVars
  <2> DEFINE row == [status |-> "PENDING", attempts |-> 0, expired |-> FALSE]
             new == [orders[o] EXCEPT !.status = "CANCEL_PENDING", !.ver = @ + 1]
  <2>1. orders[o] \in OrderRow
    BY DEF Inv, OMSTypeOK
  <2>2. orders' = [orders EXCEPT ![o] = new] /\ cmds' = [cmds EXCEPT ![o]["CANCEL"] = row]
    BY <1>1, <1>4, <2>1 DEF QueueCancel, OrderRow, Inv, OMSTypeOK
  <2>3. new \in OrderRow /\ new.status = "CANCEL_PENDING"
    BY <2>1, RowUpdates DEF OrderRow
  <2>4. row \in CommandRow
    BY DEF CommandRow
  <2> HIDE DEF row, new
  <2>5. /\ cmds' \in [Orders -> [CommandTypes -> CommandRow]]
        /\ \A x \in Orders : \A y \in CommandTypes :
              cmds'[x][y] = IF x = o /\ y = "CANCEL" THEN row ELSE cmds[x][y]
    <3>1. cmds \in [Orders -> [CommandTypes -> CommandRow]]
      BY DEF Inv, OMSTypeOK
    <3> QED BY <2>2, <2>4, <3>1, NestedUpdate
  <2>6. /\ orders' \in [Orders -> OrderRow]
        /\ orders'[o].status # "NONE" /\ \A x \in Orders \ {o} : orders'[x] = orders[x]
    BY <2>2, <2>3 DEF Inv, OMSTypeOK
  <2>7. \A x \in Orders : cmds'[x]["SUBMIT"] = cmds[x]["SUBMIT"]
    BY <2>5 DEF CommandTypes
  <2>8. OMSTypeOK' /\ Shape'
    BY <1>0, <1>2, <2>5, <2>6 DEF Inv, OMSTypeOK, Shape
  <2>9. SubmitOnce'
    BY <1>0, <2>6, <2>7 DEF Inv, SubmitOnce, AboutToSubmit
  <2> QED BY <2>8, <2>9
<1> QED BY <1>3, <1>4

(* The steps of reconciliation that keep what it has read.                  *)
LEMMA ReconReadStep ==
    ASSUME Inv, NEW p \in Procs, ReconRead(p)
    PROVE  OMSTypeOK' /\ Shape' /\ SubmitOnce'
<1> DEFINE run == [recon[p] EXCEPT !.pc = "fetch", !.local = orders]
<1>1. recon[p] \in ReconState /\ orders \in [Orders -> OrderRow]
  BY DEF Inv, OMSTypeOK
<1>2. run \in ReconState
  BY <1>1 DEF ReconState
<1>3. recon' = [recon EXCEPT ![p] = run]
  BY DEF ReconRead, Inv, OMSTypeOK
<1> HIDE DEF run
<1>4. recon' \in [Procs -> ReconState]
  BY <1>2, <1>3 DEF Inv, OMSTypeOK
<1> QED BY <1>4 DEF ReconRead, Inv, OMSTypeOK, Shape, SubmitOnce, AboutToSubmit

(* fetch_state copies the venue into the reconciliation run.                *)
LEMMA ReconFetchStep ==
    ASSUME Inv, NEW p \in Procs, ReconFetch(p)
    PROVE  OMSTypeOK' /\ Shape' /\ SubmitOnce'
<1> DEFINE run == [recon[p] EXCEPT !.pc = "details", !.snap = venue]
<1>1. recon[p] \in ReconState /\ venue \in [Orders -> VenueRow]
  BY DEF Inv, OMSTypeOK
<1>2. run \in ReconState
  BY <1>1 DEF ReconState
<1>3. recon' = [recon EXCEPT ![p] = run]
  BY DEF ReconFetch, Inv, OMSTypeOK
<1> HIDE DEF run
<1>4. recon' \in [Procs -> ReconState]
  BY <1>2, <1>3 DEF Inv, OMSTypeOK
<1> QED BY <1>4 DEF ReconFetch, Inv, OMSTypeOK, Shape, SubmitOnce, AboutToSubmit

(* The later reads of fetch_state add an alarm to the run.                  *)
LEMMA ReconDetailsStep ==
    ASSUME Inv, NEW p \in Procs, ReconDetails(p)
    PROVE  OMSTypeOK' /\ Shape' /\ SubmitOnce'
<1>1. PICK b \in BOOLEAN :
        recon' = [recon EXCEPT ![p].pc = "persist", ![p].critical = b]
  BY Zenon DEF ReconDetails
<1> DEFINE run == [recon[p] EXCEPT !.pc = "persist", !.critical = b]
<1>2. recon[p] \in ReconState
  BY DEF Inv, OMSTypeOK
<1>3. run \in ReconState
  BY <1>2 DEF ReconState
<1>4. recon' = [recon EXCEPT ![p] = run]
  BY <1>1 DEF Inv, OMSTypeOK
<1> HIDE DEF run
<1>5. recon' \in [Procs -> ReconState]
  BY <1>3, <1>4 DEF Inv, OMSTypeOK
<1> QED BY <1>5 DEF ReconDetails, Inv, OMSTypeOK, Shape, SubmitOnce, AboutToSubmit

(* persist_reconciliation corrects orders that exist at the venue.          *)
LEMMA ReconPersistStep ==
    ASSUME Inv, NEW p \in Procs, ReconPersist(p)
    PROVE  OMSTypeOK' /\ Shape' /\ SubmitOnce'
<1> DEFINE r == recon[p]
           run == [IdleRecon EXCEPT !.pc = "after", !.critical = r.critical \/ Critical(r)]
<1>1. r \in ReconState
  BY DEF Inv, OMSTypeOK
<1>2. r.critical \in BOOLEAN
      /\ r.local \in [Orders -> OrderRow] /\ r.snap \in [Orders -> VenueRow]
  BY <1>1 DEF ReconState
<1>3. Critical(r) \in BOOLEAN
  BY DEF Critical
<1>4. run \in ReconState
  BY <1>2, <1>3, RowFacts DEF ReconState
<1>5. /\ recon' = [recon EXCEPT ![p] = run]
      /\ orders' = [o \in Orders |-> IF Drifted(r, o) THEN Corrected(r, o) ELSE orders[o]]
      /\ UNCHANGED <<cmds, adapter, creating, worker, cancel, wire, venue, sent>>
  BY DEF ReconPersist
<1>6. ASSUME NEW o \in Orders, Drifted(r, o)
      PROVE  Corrected(r, o) \in OrderRow /\ Corrected(r, o).status # "NONE"
  <2>1. r.snap[o] \in VenueRow /\ r.local[o] \in OrderRow
    BY <1>2
  <2>2. /\ r.snap[o].status \in OrderStatuses /\ r.snap[o].filled \in 0..Qty
        /\ r.local[o].ver + 1 \in Nat /\ r.snap[o].status # "NONE"
    BY <1>6, <2>1, RowFacts DEF VenueRow, OrderRow, Drifted
  <2> QED BY <2>2 DEF Corrected, OrderRow
<1> HIDE DEF r, run
<1>7. orders' \in [Orders -> OrderRow]
  BY <1>5, <1>6 DEF Inv, OMSTypeOK
<1>8. \A o \in Orders : orders'[o].status = "NONE" => orders[o].status = "NONE"
  BY <1>5, <1>6
<1>9. recon' \in [Procs -> ReconState]
  BY <1>4, <1>5 DEF Inv, OMSTypeOK
<1>10. OMSTypeOK' /\ Shape'
  BY <1>5, <1>7, <1>9 DEF Inv, OMSTypeOK, Shape
<1>11. SubmitOnce'
  BY <1>5, <1>8 DEF Inv, SubmitOnce, AboutToSubmit
<1> QED BY <1>10, <1>11

(* A step of the venue or the network: its book and one request change.     *)
LEMMA VenueChange ==
    ASSUME Inv, NEW o \in Orders, NEW k \in CommandTypes, NEW row \in VenueRow,
           NEW msg \in WireState, AckNamesStatus(msg.out),
           row.status \in VenueLive => row.filled < Qty,
           venue' = [venue EXCEPT ![o] = row],
           wire' = wire \/ wire' = [wire EXCEPT ![o][k] = msg],
           UNCHANGED <<orders, cmds, adapter, creating, worker, cancel, recon, sent>>
    PROVE  OMSTypeOK' /\ Shape' /\ SubmitOnce'
<1>1. /\ venue' \in [Orders -> VenueRow]
      /\ venue'[o] = row /\ \A x \in Orders \ {o} : venue'[x] = venue[x]
  BY DEF Inv, OMSTypeOK
<1>2. /\ wire' \in [Orders -> [CommandTypes -> WireState]]
      /\ \A x \in Orders : \A y \in CommandTypes : wire'[x][y] \in {msg, wire[x][y]}
  <2>1. wire \in [Orders -> [CommandTypes -> WireState]]
    BY DEF Inv, OMSTypeOK
  <2>2. CASE wire' = wire
    BY <2>1, <2>2
  <2>3. CASE wire' = [wire EXCEPT ![o][k] = msg]
    <3>1. /\ wire' \in [Orders -> [CommandTypes -> WireState]]
          /\ \A x \in Orders : \A y \in CommandTypes :
                wire'[x][y] = IF x = o /\ y = k THEN msg ELSE wire[x][y]
      BY <2>1, <2>3, NestedUpdate
    <3> QED BY <3>1
  <2> QED BY <2>2, <2>3
<1>3. OMSTypeOK'
  BY <1>1, <1>2 DEF Inv, OMSTypeOK
<1>4. \A x \in Orders : \A y \in CommandTypes : AckNamesStatus(wire'[x][y].out)
  BY <1>2 DEF Inv, Shape
<1>5. Shape'
  BY <1>1, <1>4 DEF Inv, Shape
<1>6. SubmitOnce'
  BY DEF Inv, SubmitOnce, AboutToSubmit
<1> QED BY <1>3, <1>5, <1>6

(* The replies of the venue are well formed.                                *)
LEMMA ReplyFacts ==
    ASSUME Inv, NEW o \in Orders, NEW k \in CommandTypes, NEW out \in Outcome,
           AckNamesStatus(out), Reply(o, k, out)
    PROVE  \E msg \in WireState : AckNamesStatus(msg.out) /\ wire' = [wire EXCEPT ![o][k] = msg]
<1> DEFINE msg == IF Awaited(o, k) THEN [pc |-> "reply", out |-> out] ELSE IdleWire
<1>1. [pc |-> "reply", out |-> out] \in WireState
  BY DEF WireState
<1>2. msg \in WireState /\ AckNamesStatus(msg.out)
  BY <1>1, RowFacts DEF IdleWire
<1>3. wire' = [wire EXCEPT ![o][k] = msg]
  BY DEF Reply
<1> HIDE DEF msg
<1> QED BY <1>2, <1>3

(* The acknowledgement of a venue order is an outcome naming its status.    *)
LEMMA AckedFacts ==
    ASSUME NEW s \in OrderStatuses \ {"NONE"}, NEW f \in 0..Qty
    PROVE  /\ Acked([status |-> s, filled |-> f]) \in Outcome
           /\ AckNamesStatus(Acked([status |-> s, filled |-> f]))
BY DEF Acked, Outcome, AckNamesStatus

(* A rejection is an outcome that names no status.                          *)
LEMMA RejectFacts ==
    /\ [kind |-> "REJECT", status |-> "NONE", filled |-> 0] \in Outcome
    /\ AckNamesStatus([kind |-> "REJECT", status |-> "NONE", filled |-> 0])
BY OMSAssumption DEF Outcome, AckNamesStatus, OrderStatuses

(* An order just placed is a venue row; one that lives is not filled.       *)
LEMMA PlacedFacts ==
    ASSUME NEW row \in PlacedRows
    PROVE  /\ row \in VenueRow /\ (row.status \in VenueLive => row.filled < Qty)
           /\ row.status \in {"SUBMITTED", "PARTIALLY_FILLED", "FILLED", "EXPIRED"}
           /\ row.status \in OrderStatuses \ {"NONE"} /\ row.filled \in 0..Qty
           /\ row = [status |-> row.status, filled |-> row.filled]
<1> DEFINE Placed ==
      /\ row \in VenueRow /\ (row.status \in VenueLive => row.filled < Qty)
      /\ row.status \in {"SUBMITTED", "PARTIALLY_FILLED", "FILLED", "EXPIRED"}
<1>1. Qty \in Nat \ {0}
  BY OMSAssumption
<1>2. CASE row \in {[status |-> "SUBMITTED", filled |-> 0], [status |-> "FILLED", filled |-> Qty]}
  <2>1. Placed
    BY <1>1, <1>2 DEF VenueRow, VenueStatuses, VenueLive
  <2> QED BY <2>1 DEF VenueRow, OrderStatuses, TERMINAL_OMS_STATUSES
<1>3. CASE row \in [status: {"PARTIALLY_FILLED"}, filled: 1..Qty-1]
  <2>1. Placed
    BY <1>1, <1>3 DEF VenueRow, VenueStatuses, VenueLive
  <2> QED BY <2>1 DEF VenueRow, OrderStatuses, TERMINAL_OMS_STATUSES
<1>4. CASE row \in [status: {"EXPIRED"}, filled: 0..Qty-1]
  <2>1. Placed
    BY <1>1, <1>4 DEF VenueRow, VenueStatuses, VenueLive
  <2> QED BY <2>1 DEF VenueRow, OrderStatuses, TERMINAL_OMS_STATUSES
<1> QED BY <1>2, <1>3, <1>4 DEF PlacedRows

(* The venue accepting or refusing an order keeps the invariant.            *)
LEMMA VenueSubmitStep ==
    ASSUME Inv, NEW o \in Orders, VenueSubmit(o)
    PROVE  OMSTypeOK' /\ Shape' /\ SubmitOnce'
<1>0. /\ UNCHANGED <<orders, cmds, adapter, creating, worker, cancel, recon, sent>>
      /\ "SUBMIT" \in CommandTypes
      /\ venue[o] \in VenueRow /\ (venue[o].status \in VenueLive => venue[o].filled < Qty)
      /\ venue = [venue EXCEPT ![o] = venue[o]]
  BY DEF VenueSubmit, CommandTypes, Inv, OMSTypeOK, Shape
<1>1. CASE venue' = venue /\ Reply(o, "SUBMIT", [kind |-> "REJECT", status |-> "NONE", filled |-> 0])
  <2>1. PICK msg \in WireState : AckNamesStatus(msg.out) /\ wire' = [wire EXCEPT ![o]["SUBMIT"] = msg]
    BY <1>0, <1>1, RejectFacts, ReplyFacts
  <2> QED BY <1>0, <1>1, <2>1, VenueChange
<1>2. ASSUME NEW row \in PlacedRows,
             venue' = [venue EXCEPT ![o] = row], Reply(o, "SUBMIT", Acked(row))
      PROVE  OMSTypeOK' /\ Shape' /\ SubmitOnce'
  <2>1. row \in VenueRow /\ (row.status \in VenueLive => row.filled < Qty)
    BY PlacedFacts
  <2>2. /\ row.status \in OrderStatuses \ {"NONE"} /\ row.filled \in 0..Qty
        /\ row = [status |-> row.status, filled |-> row.filled]
    BY PlacedFacts
  <2>3. Acked(row) \in Outcome /\ AckNamesStatus(Acked(row))
    BY <2>2, AckedFacts
  <2>4. PICK msg \in WireState : AckNamesStatus(msg.out) /\ wire' = [wire EXCEPT ![o]["SUBMIT"] = msg]
    BY <1>0, <1>2, <2>3, ReplyFacts
  <2> QED BY <1>0, <1>2, <2>1, <2>4, VenueChange
<1>3. [status |-> "SUBMITTED", filled |-> 0] \in PlacedRows
  BY DEF PlacedRows
<1> QED BY <1>1, <1>2, <1>3 DEF VenueSubmit

(* The venue answering a cancel keeps the invariant.                        *)
LEMMA VenueCancelStep ==
    ASSUME Inv, NEW o \in Orders, VenueCancel(o)
    PROVE  OMSTypeOK' /\ Shape' /\ SubmitOnce'
<1>0. /\ UNCHANGED <<orders, cmds, adapter, creating, worker, cancel, recon, sent>>
      /\ "CANCEL" \in CommandTypes
      /\ venue[o] \in VenueRow /\ (venue[o].status \in VenueLive => venue[o].filled < Qty)
      /\ venue = [venue EXCEPT ![o] = venue[o]]
      /\ {"CANCELED", "CANCEL_PENDING"} \subseteq OrderStatuses \ {"NONE"}
  BY DEF VenueCancel, CommandTypes, Inv, OMSTypeOK, Shape, OrderStatuses, TERMINAL_OMS_STATUSES
<1>1. ASSUME NEW row \in VenueRow, row.status \in VenueLive => row.filled < Qty,
             NEW out \in Outcome, AckNamesStatus(out),
             venue' = [venue EXCEPT ![o] = row], Reply(o, "CANCEL", out)
      PROVE  OMSTypeOK' /\ Shape' /\ SubmitOnce'
  <2>1. PICK msg \in WireState : AckNamesStatus(msg.out) /\ wire' = [wire EXCEPT ![o]["CANCEL"] = msg]
    BY <1>0, <1>1, ReplyFacts
  <2> QED BY <1>0, <1>1, <2>1, VenueChange
<1>2. CASE venue' = venue /\ Reply(o, "CANCEL", [kind |-> "REJECT", status |-> "NONE", filled |-> 0])
  BY <1>0, <1>1, <1>2, RejectFacts
<1>3. CASE /\ venue' = [venue EXCEPT ![o].status = "CANCELED"]
           /\ Reply(o, "CANCEL", Acked([status |-> "CANCELED", filled |-> venue[o].filled]))
  <2> DEFINE row == [venue[o] EXCEPT !.status = "CANCELED"]
  <2>1. row \in VenueRow /\ row.status \notin VenueLive /\ venue[o].filled \in 0..Qty
    BY <1>0 DEF VenueRow, VenueStatuses, VenueLive
  <2>2. venue' = [venue EXCEPT ![o] = row]
    BY <1>3
  <2> HIDE DEF row
  <2>3. /\ Acked([status |-> "CANCELED", filled |-> venue[o].filled]) \in Outcome
        /\ AckNamesStatus(Acked([status |-> "CANCELED", filled |-> venue[o].filled]))
    BY <1>0, <2>1, AckedFacts
  <2> QED BY <1>1, <1>3, <2>1, <2>2, <2>3
<1>4. CASE /\ venue' = venue
           /\ Reply(o, "CANCEL", Acked([status |-> "CANCEL_PENDING",
                                        filled |-> wire[o]["CANCEL"].out.filled]))
  <2>1. wire[o]["CANCEL"] \in WireState
    BY <1>0 DEF Inv, OMSTypeOK
  <2>2. wire[o]["CANCEL"].out.filled \in 0..Qty
    BY <2>1 DEF WireState, Outcome
  <2>3. /\ Acked([status |-> "CANCEL_PENDING", filled |-> wire[o]["CANCEL"].out.filled]) \in Outcome
        /\ AckNamesStatus(Acked([status |-> "CANCEL_PENDING",
                                 filled |-> wire[o]["CANCEL"].out.filled]))
    BY <1>0, <2>2, AckedFacts
  <2> QED BY <1>0, <1>1, <1>4, <2>3
<1> QED BY <1>2, <1>3, <1>4 DEF VenueCancel

(* The venue filling or closing an order keeps the invariant.               *)
LEMMA VenueOwnStep ==
    ASSUME Inv, NEW o \in Orders, VenueFill(o) \/ VenueClose(o)
    PROVE  OMSTypeOK' /\ Shape' /\ SubmitOnce'
<1>0. /\ UNCHANGED <<orders, cmds, adapter, creating, worker, cancel, recon, wire, sent>>
      /\ "SUBMIT" \in CommandTypes
      /\ venue[o] \in VenueRow /\ venue[o].filled < Qty
  BY DEF VenueFill, VenueClose, CommandTypes, Inv, OMSTypeOK, Shape
<1>1. ASSUME NEW row \in VenueRow, row.status \in VenueLive => row.filled < Qty,
             venue' = [venue EXCEPT ![o] = row]
      PROVE  OMSTypeOK' /\ Shape' /\ SubmitOnce'
  <2>1. IdleWire \in WireState /\ AckNamesStatus(IdleWire.out)
    BY RowFacts DEF IdleWire
  <2> QED BY <1>0, <1>1, <2>1, VenueChange
<1>2. CASE VenueFill(o)
  <2> DEFINE row == [status |-> IF venue[o].filled + 1 = Qty THEN "FILLED" ELSE "PARTIALLY_FILLED",
                     filled |-> venue[o].filled + 1]
  <2>1. row \in VenueRow /\ (row.status \in VenueLive => row.filled < Qty)
    BY <1>0, OMSAssumption DEF VenueRow, VenueStatuses, VenueLive
  <2>2. venue' = [venue EXCEPT ![o] = row]
    BY <1>2 DEF VenueFill, Inv, OMSTypeOK
  <2> HIDE DEF row
  <2> QED BY <1>1, <2>1, <2>2
<1>3. CASE VenueClose(o)
  <2>1. PICK s \in {"CANCELED", "EXPIRED", "REJECTED"} : venue' = [venue EXCEPT ![o].status = s]
    BY <1>3 DEF VenueClose
  <2> DEFINE row == [venue[o] EXCEPT !.status = s]
  <2>2. row \in VenueRow /\ row.status \notin VenueLive
    BY <1>0 DEF VenueRow, VenueStatuses, VenueLive
  <2>3. venue' = [venue EXCEPT ![o] = row]
    BY <2>1
  <2> HIDE DEF row
  <2> QED BY <1>1, <2>2, <2>3
<1> QED BY <1>2, <1>3

(* The steps that change only calls, jobs or runs, or lose a message.       *)
LEMMA QuietSteps ==
    ASSUME Inv, NEW p \in Procs,
           \/ CrashOMS(p) \/ FinishFails(p) \/ AfterFinish(p)
           \/ ReconUnavailable(p) \/ ReconFails(p) \/ AfterRecon(p)
           \/ \E o \in Orders : BeginCreate(p, o) \/ BeginCancel(p, o)
    PROVE  OMSTypeOK' /\ Shape' /\ SubmitOnce'
<1> USE RowFacts DEF Inv, OMSTypeOK, Shape
<1>w. IdleWorker.pc = "idle" /\ IdleCancel.pc = "idle" /\ IdleRecon.pc = "idle"
  BY DEF IdleWorker, IdleCancel, IdleRecon
<1>1. CASE CrashOMS(p)
  <2>1. worker' = [worker EXCEPT ![p] = IdleWorker] /\ UNCHANGED <<orders, cmds, sent>>
    BY <1>1 DEF CrashOMS
  <2>2. \A q \in Procs : cancel'[q].pc = "write" => cancel'[q].o \in Orders
    BY <1>1, <1>w DEF CrashOMS
  <2>3. OMSTypeOK'
    BY <1>1, <1>w DEF CrashOMS
  <2>4. Shape'
    BY <1>1, <1>w, <2>1, <2>2, WorkerIdles DEF CrashOMS
  <2>5. SubmitOnce'
    BY <1>w, <2>1, WorkerIdles, OnceKept
  <2> QED BY <2>3, <2>4, <2>5
<1>2. CASE FinishFails(p) \/ AfterFinish(p)
  <2>1. /\ worker' = [worker EXCEPT ![p] = IdleWorker]
        /\ UNCHANGED <<orders, cmds, adapter, creating, cancel, recon, wire, venue, sent>>
    BY <1>2 DEF FinishFails, AfterFinish
  <2>2. OMSTypeOK' /\ Shape'
    BY <1>w, <2>1, WorkerIdles
  <2>3. SubmitOnce'
    BY <1>w, <2>1, WorkerIdles, OnceKept
  <2> QED BY <2>2, <2>3
<1>3. CASE ReconUnavailable(p) \/ ReconFails(p) \/ AfterRecon(p)
  <2>1. /\ recon' = [recon EXCEPT ![p] = IdleRecon]
        /\ UNCHANGED <<orders, cmds, adapter, creating, worker, cancel, wire, venue, sent>>
    BY <1>3 DEF ReconUnavailable, ReconFails, AfterRecon
  <2> QED BY <2>1, OnceKept DEF AboutToSubmit
<1>4. ASSUME NEW o \in Orders, BeginCreate(p, o)
      PROVE  OMSTypeOK' /\ Shape' /\ SubmitOnce'
  BY <1>4, OnceKept DEF BeginCreate, AboutToSubmit
<1>5. ASSUME NEW o \in Orders, BeginCancel(p, o)
      PROVE  OMSTypeOK' /\ Shape' /\ SubmitOnce'
  <2> DEFINE c == [pc |-> "write", o |-> o, ver |-> orders[o].ver]
  <2>1. orders[o] \in OrderRow
    OBVIOUS
  <2>2. c \in CancelState
    BY <2>1 DEF CancelState, OrderRow
  <2>3. /\ cancel' = [cancel EXCEPT ![p] = c]
        /\ UNCHANGED <<orders, cmds, adapter, creating, worker, recon, wire, venue, sent>>
    BY <1>5 DEF BeginCancel
  <2>4. c.o \in Orders
    OBVIOUS
  <2> HIDE DEF c
  <2> QED BY <2>2, <2>3, <2>4, OnceKept DEF AboutToSubmit
<1> QED BY <1>1, <1>2, <1>3, <1>4, <1>5

(* A lease runs out, or a request is lost.                                  *)
LEMMA NetworkSteps ==
    ASSUME Inv, NEW o \in Orders, NEW k \in CommandTypes, ExpireLease(o, k) \/ LoseRequest(o, k)
    PROVE  OMSTypeOK' /\ Shape' /\ SubmitOnce'
<1>1. CASE ExpireLease(o, k)
  <2>1. cmds[o][k] \in CommandRow
    BY DEF Inv, OMSTypeOK
  <2> DEFINE row == [cmds[o][k] EXCEPT !.expired = TRUE]
  <2>2. /\ row \in CommandRow
        /\ row.status = cmds[o][k].status /\ row.attempts = cmds[o][k].attempts
    BY <2>1, CommandFacts DEF CommandRow
  <2>3. /\ cmds' = [cmds EXCEPT ![o][k] = row]
        /\ UNCHANGED <<orders, adapter, creating, worker, cancel, recon, wire, venue, sent>>
    BY <1>1 DEF ExpireLease
  <2> HIDE DEF row
  <2>4. /\ cmds' \in [Orders -> [CommandTypes -> CommandRow]]
        /\ \A x \in Orders : \A y \in CommandTypes :
              cmds'[x][y] = IF x = o /\ y = k THEN row ELSE cmds[x][y]
    <3>1. cmds \in [Orders -> [CommandTypes -> CommandRow]]
      BY DEF Inv, OMSTypeOK
    <3> QED BY <2>2, <2>3, <3>1, NestedUpdate
  <2>5. OMSTypeOK' /\ Shape'
    BY <2>3, <2>4 DEF Inv, OMSTypeOK, Shape
  <2>6. \A x \in Orders : /\ cmds'[x]["SUBMIT"].attempts = cmds[x]["SUBMIT"].attempts
                          /\ cmds'[x]["SUBMIT"].status = cmds[x]["SUBMIT"].status
    BY <2>2, <2>4 DEF CommandTypes
  <2>7. SubmitOnce'
    BY <2>3, <2>6 DEF Inv, SubmitOnce, AboutToSubmit
  <2> QED BY <2>5, <2>7
<1>2. CASE LoseRequest(o, k)
  <2>1. IdleWire \in WireState /\ AckNamesStatus(IdleWire.out)
    BY RowFacts DEF IdleWire
  <2>2. /\ venue[o] \in VenueRow /\ (venue[o].status \in VenueLive => venue[o].filled < Qty)
        /\ venue' = [venue EXCEPT ![o] = venue[o]]
    BY <1>2 DEF LoseRequest, Inv, OMSTypeOK, Shape
  <2>3. /\ wire' = [wire EXCEPT ![o][k] = IdleWire]
        /\ UNCHANGED <<orders, cmds, adapter, creating, worker, cancel, recon, sent>>
    BY <1>2 DEF LoseRequest
  <2> QED BY <2>1, <2>2, <2>3, VenueChange
<1> QED BY <1>1, <1>2

(* A restart selects an adapter.                                            *)
LEMMA BootStep ==
    ASSUME Inv, NEW p \in Procs, BootOMS(p)
    PROVE  OMSTypeOK' /\ Shape' /\ SubmitOnce'
<1>1. UNCHANGED <<orders, cmds, worker, sent>>
  BY DEF BootOMS
<1>2. SubmitOnce'
  BY <1>1, OnceKept DEF AboutToSubmit
<1> QED BY <1>2, BootTypes

(* Every step keeps the OMS half of the invariant.                          *)
LEMMA OMSHalf ==
    ASSUME Inv, [Next]_vars
    PROVE  OMSTypeOK' /\ Shape' /\ SubmitOnce'
<1>1. ASSUME NEW p \in Procs, ProcStep(p)
      PROVE  OMSTypeOK' /\ Shape' /\ SubmitOnce'
  BY <1>1, BootStep, QuietSteps, OMSStutter, CreateTypes, CreateOnce, ClaimStep, DispatchStep,
     AnswerStep, TimeoutStep, FinishStep, QueueCancelStep, ReconReadStep, ReconFetchStep,
     ReconDetailsStep, ReconPersistStep
     DEF ProcStep, WorkerStep
<1>2. ASSUME NEW o \in Orders, VenueStep(o)
      PROVE  OMSTypeOK' /\ Shape' /\ SubmitOnce'
  BY <1>2, VenueSubmitStep, VenueCancelStep, VenueOwnStep, NetworkSteps DEF VenueStep
<1> QED BY <1>1, <1>2, OMSStutter DEF Next, vars

(* A task that fails closed starts a trigger or leaves the switch alone.    *)
LEMMA FailClosedInv ==
    ASSUME SwitchInv, NEW p \in Procs, NEW t \in Tasks, NEW failed, FailClosed(p, t, failed)
    PROVE  SwitchInv'
BY StartTriggerInv, SwitchStutterInv DEF FailClosed, switchVars

(* Every step keeps the switch half of the invariant.                       *)
LEMMA SwitchHalf ==
    ASSUME Inv, [Next]_vars
    PROVE  SwitchInv'
<1> USE DEF Inv
<1>t. {"worker", "recon"} \subseteq Tasks
  BY DEF Tasks
<1>1. CASE SwitchStep
  BY <1>1, SwitchStepInv
<1>2. CASE UNCHANGED switchVars
  BY <1>2, SwitchStutterInv
<1>3. ASSUME NEW p \in Procs, BootOMS(p) \/ CrashOMS(p)
      PROVE  SwitchInv'
  BY <1>3, BootInv, CrashInv DEF BootOMS, CrashOMS
<1>4. ASSUME NEW p \in Procs, NEW t \in Tasks, TriggerCommit(p, t) \/ TriggerApply(p, t)
      PROVE  SwitchInv'
  BY <1>4, TriggerCommitInv, TriggerApplyInv
<1>5. ASSUME NEW p \in Procs, ClaimFails(p) \/ FinishFails(p) \/ AfterFinish(p)
      PROVE  SwitchInv'
  BY <1>t, <1>5, FailClosedInv DEF ClaimFails, FinishFails, AfterFinish
<1>6. ASSUME NEW p \in Procs, ReconUnavailable(p) \/ ReconFails(p) \/ AfterRecon(p)
      PROVE  SwitchInv'
  BY <1>t, <1>6, FailClosedInv DEF ReconUnavailable, ReconFails, AfterRecon
<1>7. ASSUME NEW p \in Procs,
             \/ CreateOrder(p) \/ Claim(p) \/ Dispatch(p) \/ Answer(p) \/ Timeout(p) \/ Finish(p)
             \/ QueueCancel(p) \/ ReconFetch(p) \/ ReconDetails(p) \/ ReconPersist(p)
             \/ \E o \in Orders : BeginCreate(p, o) \/ BeginCancel(p, o)
             \/ ReconRead(p)
      PROVE  UNCHANGED switchVars
  BY <1>7 DEF CreateOrder, Claim, Dispatch, Answer, Timeout, Finish, QueueCancel, ReconFetch,
              ReconDetails, ReconPersist, BeginCreate, BeginCancel, ReconRead
<1>8. ASSUME NEW o \in Orders, VenueStep(o)
      PROVE  UNCHANGED switchVars
  BY <1>8 DEF VenueStep, VenueSubmit, VenueCancel, VenueFill, VenueClose, LoseRequest, ExpireLease
<1>9. ASSUME NEW p \in Procs, ProcStep(p)
      PROVE  SwitchInv'
  BY <1>2, <1>3, <1>4, <1>5, <1>6, <1>7, <1>9 DEF ProcStep, WorkerStep
<1> QED BY <1>1, <1>2, <1>8, <1>9 DEF Next, vars

(* The initial states satisfy the invariant.                                *)
LEMMA InitInv == Init => Inv
<1> SUFFICES ASSUME Init PROVE Inv
  OBVIOUS
<1>1. SwitchInv
  BY SwitchInitInv DEF Init
<1>2. /\ cmds \in [Orders -> [CommandTypes -> CommandRow]]
      /\ wire \in [Orders -> [CommandTypes -> WireState]]
      /\ \A o \in Orders : cmds[o]["SUBMIT"] = NoCommand
      /\ \A o \in Orders : \A k \in CommandTypes : wire[o][k] = IdleWire
  BY RowFacts DEF Init, CommandTypes
<1>3. OMSTypeOK
  BY <1>2, RowFacts DEF Init, OMSTypeOK
<1>4. Shape
  BY <1>2, RowFacts, OMSAssumption
     DEF Init, Shape, IdleWorker, IdleCancel, IdleWire, NoVenue, VenueLive
<1>5. SubmitOnce
  <2>0. NoCommand.status = "NONE" /\ NoCommand.attempts = 0
    BY DEF NoCommand
  <2>1. \A o \in Orders : /\ cmds[o]["SUBMIT"].status = "NONE" /\ cmds[o]["SUBMIT"].attempts = 0
    BY <1>2, <2>0
  <2>3. \A o \in Orders : sent[o] = 0
    BY DEF Init
  <2>2. \A p \in Procs : worker[p].pc = "idle"
    BY DEF Init, IdleWorker
  <2> QED BY <2>1, <2>2, <2>3 DEF SubmitOnce, AboutToSubmit
<1> QED BY <1>1, <1>3, <1>4, <1>5 DEF Inv

(* Inv is an invariant of the specification.                                *)
LEMMA Invariance == Spec => []Inv
<1>1. Inv /\ [Next]_vars => Inv'
  BY OMSHalf, SwitchHalf DEF Inv
<1> QED BY InitInv, <1>1, PTL DEF Spec

(* Every variable of the OMS keeps its type; in particular no order is      *)
(* filled beyond its quantity and no command is attempted twice.            *)
THEOREM TypeCorrect == Spec => []TypeOK
<1>1. Inv => TypeOK
  BY DEF Inv, SwitchInv, OMSTypeOK, TypeOK
<1> QED BY Invariance, <1>1, PTL

(* At most one SUBMIT request per order ever leaves, for any number of      *)
(* workers and processes, whatever crashes and lease expiries do.           *)
THEOREM SubmissionsAreUnique == Spec => []AtMostOneSubmission
<1>1. Inv => AtMostOneSubmission
  BY DEF Inv, SubmitOnce, AtMostOneSubmission
<1> QED BY Invariance, <1>1, PTL

-----------------------------------------------------------------------------
(* Finality.  queue_cancel_command does not look at the order's status: it  *)
(* trusts the version queue_cancel read.  So a row at the version a cancel  *)
(* has read must still be one that can be canceled, and that rests on       *)
(* every write advancing the version of a row that is not terminal.         *)
Versions ==
    /\ \A o \in Orders : orders[o].status = "NONE" => orders[o].ver = 0
    /\ \A p \in Procs : cancel[p].pc = "write" =>
          /\ cancel[p].ver <= orders[cancel[p].o].ver
          /\ cancel[p].ver = orders[cancel[p].o].ver => ~Terminal(orders[cancel[p].o])

(* A step leaves a row alone or advances one that is not terminal.          *)
Advances(o) ==
    \/ orders'[o] = orders[o]
    \/ /\ orders'[o].ver > orders[o].ver
       /\ orders'[o].status # "NONE"
       /\ ~Terminal(orders[o])

(* "NONE" is not a terminal status.                                         *)
LEMMA NoneIsNotTerminal ==
    \A r \in OrderRow : r.status = "NONE" => ~Terminal(r)
BY DEF Terminal, TERMINAL_OMS_STATUSES

(* Every step leaves a row alone or advances one that is not terminal.      *)
LEMMA RowsAdvance ==
    ASSUME Inv, Versions, [Next]_vars
    PROVE  \A o \in Orders : Advances(o)
<1>0. CASE UNCHANGED orders
  BY <1>0 DEF Advances
<1>1. ASSUME NEW p \in Procs, CreateOrder(p)
      PROVE  \A o \in Orders : Advances(o)
  <2> SUFFICES ASSUME NEW o \in Orders, orders'[o] # orders[o]
               PROVE  Advances(o)
    BY DEF Advances
  <2>1. orders[o] \in OrderRow
    BY DEF Inv, OMSTypeOK
  <2>2. /\ orders[o].status = "NONE"
        /\ orders'[o] = [status |-> "PENDING_SUBMISSION", ver |-> 1, vid |-> FALSE, filled |-> 0]
    BY <1>1 DEF CreateOrder, dbVars, Inv, OMSTypeOK
  <2> QED BY <2>1, <2>2, NoneIsNotTerminal DEF Advances, Versions
<1>2. ASSUME NEW p \in Procs, Claim(p) \/ ClaimFails(p)
      PROVE  \A o \in Orders : Advances(o)
  <2> SUFFICES ASSUME NEW o \in Orders, orders'[o] # orders[o]
               PROVE  Advances(o)
    BY DEF Advances
  <2>1. orders[o] \in OrderRow
    BY DEF Inv, OMSTypeOK
  <2>2. /\ ~Terminal(orders[o])
        /\ \E n \in {1, 2} :
              orders'[o] = [orders[o] EXCEPT !.status = "UNKNOWN", !.ver = @ + n]
    BY <1>2 DEF Claim, ClaimFails, SweptOrders
  <2> QED BY <2>1, <2>2 DEF Advances, OrderRow
<1>3. ASSUME NEW p \in Procs, Finish(p)
      PROVE  \A o \in Orders : Advances(o)
  <2>0. PICK x \in Orders : x = worker[p].o
    BY <1>3 DEF Finish, Inv, Shape
  <2>1. /\ worker[p] \in WorkerState /\ AckNamesStatus(worker[p].out)
        /\ orders' = [orders EXCEPT ![x] = Updated(worker[p])]
        /\ Updated(worker[p]).ver = orders[x].ver + 1 /\ ~Terminal(orders[x])
    BY <1>3, <2>0 DEF Finish, MayFinish, GuardAllows, Inv, OMSTypeOK, Shape
  <2>2. Updated(worker[p]).status # "NONE"
    BY <2>1, UpdatedFacts
  <2>3. orders[x] \in OrderRow
    BY DEF Inv, OMSTypeOK
  <2>4. orders[x].ver \in Nat
    BY <2>3 DEF OrderRow
  <2>5. orders'[x] = Updated(worker[p]) /\ \A o \in Orders \ {x} : orders'[o] = orders[o]
    BY <2>1 DEF Inv, OMSTypeOK
  <2> QED BY <2>1, <2>2, <2>4, <2>5 DEF Advances
<1>4. ASSUME NEW p \in Procs, QueueCancel(p)
      PROVE  \A o \in Orders : Advances(o)
  <2>0. CASE UNCHANGED dbVars
    BY <2>0 DEF dbVars, Advances
  <2>1. CASE ~UNCHANGED dbVars
    <3>1. PICK o \in Orders : o = cancel[p].o
      BY <1>4 DEF QueueCancel, Inv, Shape
    <3>2. orders[o] \in OrderRow
      BY DEF Inv, OMSTypeOK
    <3>3. /\ cancel[p].pc = "write" /\ orders[o].ver = cancel[p].ver
          /\ orders' = [orders EXCEPT
                ![o] = [orders[o] EXCEPT !.status = "CANCEL_PENDING", !.ver = @ + 1]]
      BY <1>4, <2>1, <3>1, <3>2 DEF QueueCancel, OrderRow, Inv, OMSTypeOK
    <3>4. ~Terminal(orders[o])
      BY <3>1, <3>3 DEF Versions
    <3>5. /\ orders'[o] = [orders[o] EXCEPT !.status = "CANCEL_PENDING", !.ver = @ + 1]
          /\ \A x \in Orders \ {o} : orders'[x] = orders[x]
      BY <3>3 DEF Inv, OMSTypeOK
    <3>6. orders'[o].ver > orders[o].ver /\ orders'[o].status # "NONE"
      BY <3>2, <3>5 DEF OrderRow
    <3> QED BY <3>4, <3>5, <3>6 DEF Advances
  <2> QED BY <2>0, <2>1
<1>5. ASSUME NEW p \in Procs, ReconPersist(p)
      PROVE  \A o \in Orders : Advances(o)
  <2> SUFFICES ASSUME NEW o \in Orders, orders'[o] # orders[o]
               PROVE  Advances(o)
    BY DEF Advances
  <2>1. orders[o] \in OrderRow
    BY DEF Inv, OMSTypeOK
  <2>2. /\ Drifted(recon[p], o) /\ orders'[o] = Corrected(recon[p], o)
        /\ Corrected(recon[p], o).ver = orders[o].ver + 1 /\ ~Terminal(orders[o])
    BY <1>5 DEF ReconPersist, MayPersist, GuardAllows
  <2>3. Corrected(recon[p], o).status # "NONE"
    BY <2>2 DEF Drifted, Corrected
  <2> QED BY <2>1, <2>2, <2>3 DEF Advances, OrderRow
<1>6. ASSUME NEW p \in Procs, ProcStep(p)
      PROVE  \A o \in Orders : Advances(o)
  BY <1>0, <1>1, <1>2, <1>3, <1>4, <1>5, <1>6
     DEF ProcStep, WorkerStep, BootOMS, CrashOMS, omsVars, BeginCreate, Dispatch, Answer, Timeout, FinishFails,
         AfterFinish, BeginCancel, ReconRead, ReconFetch, ReconDetails, ReconUnavailable,
         ReconFails, AfterRecon
<1>7. ASSUME NEW o \in Orders, VenueStep(o)
      PROVE  UNCHANGED orders
  BY <1>7 DEF VenueStep, VenueSubmit, VenueCancel, VenueFill, VenueClose, LoseRequest, ExpireLease
<1> QED BY <1>0, <1>6, <1>7 DEF Next, vars, omsVars

(* A cancel in progress was idle, was read now, or is as it was.            *)
LEMMA CancelMoves ==
    ASSUME Inv, [Next]_vars, NEW q \in Procs
    PROVE  \/ cancel'[q] = cancel[q]
           \/ cancel'[q].pc = "idle"
           \/ \E o \in Orders : /\ cancel'[q] = [pc |-> "write", o |-> o, ver |-> orders[o].ver]
                                /\ orders[o].status \in Cancelable /\ UNCHANGED orders
<1> DEFINE Goal == \/ cancel'[q] = cancel[q]
                   \/ cancel'[q].pc = "idle"
                   \/ \E o \in Orders :
                         /\ cancel'[q] = [pc |-> "write", o |-> o, ver |-> orders[o].ver]
                         /\ orders[o].status \in Cancelable /\ UNCHANGED orders
<1>0. CASE UNCHANGED cancel
  BY <1>0
<1>1. ASSUME NEW p \in Procs, CrashOMS(p) \/ QueueCancel(p)
      PROVE  Goal
  <2>1. cancel' = [cancel EXCEPT ![p] = IdleCancel]
    BY <1>1 DEF CrashOMS, QueueCancel
  <2> QED BY <2>1 DEF Inv, OMSTypeOK, IdleCancel
<1>2. ASSUME NEW p \in Procs, NEW o \in Orders, BeginCancel(p, o)
      PROVE  Goal
  BY <1>2 DEF BeginCancel, Inv, OMSTypeOK
<1>3. ASSUME NEW p \in Procs, ProcStep(p)
      PROVE  Goal
  <2> HIDE DEF Goal
  <2>1. UNCHANGED cancel => Goal
    BY DEF Goal
  <2> QED
    BY <1>1, <1>2, <1>3, <2>1
       DEF ProcStep, WorkerStep, BootOMS, omsVars, CreateOrder, BeginCreate, Claim, ClaimFails, Dispatch, Answer,
           Timeout, Finish, FinishFails, AfterFinish, ReconRead, ReconFetch, ReconDetails, ReconUnavailable,
           ReconPersist, ReconFails, AfterRecon
<1>4. ASSUME NEW o \in Orders, VenueStep(o)
      PROVE  UNCHANGED cancel
  BY <1>4 DEF VenueStep, VenueSubmit, VenueCancel, VenueFill, VenueClose, LoseRequest, ExpireLease
<1> QED BY <1>0, <1>3, <1>4 DEF Next, vars, omsVars

(* Every step keeps Versions.                                               *)
LEMMA VersionsKept ==
    ASSUME Inv, Inv', Versions, [Next]_vars
    PROVE  Versions'
<1>1. ASSUME NEW o \in Orders, orders'[o].status = "NONE"
      PROVE  orders'[o].ver = 0
  BY <1>1, RowsAdvance DEF Advances, Versions
<1>2. ASSUME NEW q \in Procs, cancel'[q].pc = "write"
      PROVE  /\ cancel'[q].ver <= orders'[cancel'[q].o].ver
             /\ cancel'[q].ver = orders'[cancel'[q].o].ver => ~Terminal(orders'[cancel'[q].o])
  <2>1. CASE cancel'[q] = cancel[q]
    <3>1. PICK o \in Orders : o = cancel[q].o
      BY <1>2, <2>1 DEF Inv, Shape
    <3>2. orders[o] \in OrderRow /\ orders'[o] \in OrderRow /\ cancel[q] \in CancelState
      BY DEF Inv, OMSTypeOK
    <3>3. orders[o].ver \in Nat /\ orders'[o].ver \in Nat /\ cancel[q].ver \in Nat
      BY <3>2 DEF OrderRow, CancelState
    <3>4. /\ cancel[q].ver <= orders[o].ver
          /\ cancel[q].ver = orders[o].ver => ~Terminal(orders[o])
      BY <1>2, <2>1, <3>1 DEF Versions
    <3>5. Advances(o)
      BY RowsAdvance
    <3>6. CASE orders'[o] = orders[o]
      BY <2>1, <3>1, <3>4, <3>6 DEF Terminal
    <3>7. CASE orders'[o].ver > orders[o].ver
      BY <2>1, <3>1, <3>3, <3>4, <3>7
    <3> QED BY <3>5, <3>6, <3>7 DEF Advances
  <2>2. ASSUME NEW o \in Orders, cancel'[q] = [pc |-> "write", o |-> o, ver |-> orders[o].ver],
               orders[o].status \in Cancelable, UNCHANGED orders
        PROVE  /\ cancel'[q].ver <= orders'[cancel'[q].o].ver
               /\ cancel'[q].ver = orders'[cancel'[q].o].ver => ~Terminal(orders'[cancel'[q].o])
    <3>1. orders[o] \in OrderRow
      BY DEF Inv, OMSTypeOK
    <3> QED BY <2>2, <3>1 DEF OrderRow, Cancelable, Terminal, TERMINAL_OMS_STATUSES
  <2> QED BY <1>2, <2>1, <2>2, CancelMoves
<1> QED BY <1>1, <1>2 DEF Versions, Terminal

(* A terminal order row never changes again: not by a queued cancel, a      *)
(* swept lease, a late worker or a reconciliation that read it earlier.     *)
THEOREM TerminalRowsAreFinal == Spec => TerminalIsFinal
<1>1. Init => Versions
  BY DEF Init, Versions, NoRow, IdleCancel
<1>2. Inv /\ Inv' /\ Versions /\ [Next]_vars => Versions'
  BY VersionsKept
<1>3. Inv /\ Versions /\ [Next]_vars =>
        [\A o \in Orders : Terminal(orders[o]) => orders'[o] = orders[o]]_vars
  BY RowsAdvance DEF Advances
<1> QED BY Invariance, <1>1, <1>2, <1>3, PTL DEF Spec, TerminalIsFinal


-----------------------------------------------------------------------------
(* Rows and venue.  A row is written from an outcome or from a snapshot     *)
(* that is older than the write, so what must be preserved is what these    *)
(* say about the venue.  It is preserved because an order that is over at   *)
(* the venue stays as it is: its one submission is used up, not travelling  *)
(* and not live.                                                            *)
Over(o) ==
    /\ cmds[o]["SUBMIT"].attempts = 1
    /\ \A p \in Procs : ~AboutToSubmit(p, o)
    /\ wire[o]["SUBMIT"].pc # "request"
    /\ venue[o].status \notin VenueLive

(* The venue bears out a row of o with this status and fill.                *)
Backs(o, status, filled) ==
    /\ status \in TERMINAL_OMS_STATUSES => Over(o)
    /\ status \in {"FILLED", "CANCELED", "EXPIRED"} =>
          venue[o].status = status /\ venue[o].filled = filled
    /\ status = "REJECTED" => venue[o].status \in {"NONE", "REJECTED"}
    /\ status = "QUARANTINED" => sent[o] = 0
    /\ status \in VenueLive => venue[o].status # "NONE"

(* The status that dispatch_once writes for an outcome of a command.        *)
Written(k, out) ==
    CASE out.kind = "ACK" -> out.status
      [] out.kind = "QUARANTINE" -> "QUARANTINED"
      [] out.kind = "REJECT" /\ k = "SUBMIT" -> "REJECTED"
      [] OTHER -> "UNKNOWN"

Grounded(o, k, out) == Backs(o, Written(k, out), out.filled)

(* What a reconciliation run has read is borne out by the venue as it is    *)
(* now, and its two readings do not contradict each other.                  *)
ReconGrounded(r) ==
    \A o \in Orders :
        /\ r.pc \in {"fetch", "details", "persist"} =>
              /\ Terminal(r.local[o]) => Over(o)
              /\ r.local[o].status \in VenueLive => venue[o].status # "NONE"
        /\ r.pc \in {"details", "persist"} =>
              /\ Backs(o, r.snap[o].status, r.snap[o].filled)
              /\ Terminal(r.local[o]) => r.snap[o].status \notin VenueLive
              /\ r.local[o].status \in VenueLive => r.snap[o].status # "NONE"

(* Only what was sent travels or is known to the venue; rows, answers,      *)
(* outcomes about to be written and snapshots are borne out by the venue.   *)
Requested(o) ==
    /\ wire[o]["SUBMIT"].pc = "request" => sent[o] = 1 /\ venue[o].status = "NONE"
    /\ venue[o].status # "NONE" => sent[o] = 1

Truth ==
    /\ \A o \in Orders :
          /\ Requested(o)
          /\ Backs(o, orders[o].status, orders[o].filled)
          /\ \A k \in CommandTypes : wire[o][k].pc = "reply" => Grounded(o, k, wire[o][k].out)
    /\ \A p \in Procs :
          /\ worker[p].pc = "finish" => Grounded(worker[p].o, worker[p].k, worker[p].out)
          /\ ReconGrounded(recon[p])

(* What no step undoes.                                                     *)
Forward(o) ==
    /\ venue[o].status # "NONE" => venue'[o].status # "NONE"
    /\ Over(o) => Over(o)' /\ venue'[o] = venue[o] /\ sent'[o] = sent[o]

(* What bears out a row goes on doing so.                                   *)
LEMMA BacksForward ==
    ASSUME NEW o \in Orders, Forward(o)
    PROVE  \A s, f : Backs(o, s, f) => Backs(o, s, f)'
<1> SUFFICES ASSUME NEW s, NEW f, Backs(o, s, f) PROVE Backs(o, s, f)'
    OBVIOUS
<1>1. CASE s \in TERMINAL_OMS_STATUSES
    <2>1. Over(o)' /\ venue'[o] = venue[o] /\ sent'[o] = sent[o]
        BY <1>1 DEF Backs, Forward
    <2> HIDE DEF Over
    <2> QED BY <1>1, <2>1 DEF Backs, TERMINAL_OMS_STATUSES, VenueLive
<1>2. CASE s \notin TERMINAL_OMS_STATUSES
    BY <1>2 DEF Backs, TERMINAL_OMS_STATUSES, Forward
<1> QED BY <1>1, <1>2

(* Statuses that say nothing about the venue.                               *)
LEMMA SaysNothing ==
    ASSUME NEW o, NEW s \in {"NONE", "PENDING_SUBMISSION", "UNKNOWN", "CANCEL_PENDING"}, NEW f
    PROVE  Backs(o, s, f) /\ Backs(o, s, f)'
BY DEF Backs, TERMINAL_OMS_STATUSES, VenueLive

(* A fill matters only to an order that ended at the venue.                 *)
LEMMA FillAside ==
    ASSUME NEW o, NEW s \in {"QUARANTINED", "REJECTED", "UNKNOWN"}, NEW f, NEW g, Backs(o, s, f)
    PROVE  Backs(o, s, g)
BY DEF Backs

(* The cases of Written.                                                    *)
LEMMA WrittenFacts ==
    ASSUME NEW k, NEW out
    PROVE  /\ out.kind = "ACK" => Written(k, out) = out.status
           /\ out.kind = "QUARANTINE" => Written(k, out) = "QUARANTINED"
           /\ out.kind = "REJECT" => Written(k, out) \in {"REJECTED", "UNKNOWN"}
           /\ out.kind \notin {"ACK", "QUARANTINE", "REJECT"} => Written(k, out) = "UNKNOWN"
           /\ out.kind # "ACK" => Written(k, out) \in {"QUARANTINED", "REJECTED", "UNKNOWN"}
           /\ out.kind = "REJECT" /\ k = "SUBMIT" => Written(k, out) = "REJECTED"
           /\ out.kind = "REJECT" /\ k # "SUBMIT" => Written(k, out) = "UNKNOWN"
BY DEF Written

(* What a reconciliation run has read goes on being borne out.              *)
LEMMA ReconForward ==
    ASSUME \A o \in Orders : Forward(o), NEW r, ReconGrounded(r)
    PROVE  ReconGrounded(r)'
<1> SUFFICES ASSUME NEW o \in Orders
             PROVE  /\ r.pc \in {"fetch", "details", "persist"} =>
                          /\ Terminal(r.local[o]) => Over(o)'
                          /\ r.local[o].status \in VenueLive => venue'[o].status # "NONE"
                    /\ r.pc \in {"details", "persist"} =>
                          /\ Backs(o, r.snap[o].status, r.snap[o].filled)'
                          /\ Terminal(r.local[o]) => r.snap[o].status \notin VenueLive
                          /\ r.local[o].status \in VenueLive => r.snap[o].status # "NONE"
    BY DEF ReconGrounded
<1>1. \A s, f : Backs(o, s, f) => Backs(o, s, f)'
    BY BacksForward
<1> HIDE DEF Over, Backs
<1> QED BY <1>1 DEF Forward, ReconGrounded

(* What changed is borne out, and the rest goes on being so.                *)
LEMMA TruthStep ==
    ASSUME Inv, Truth,
           \A o \in Orders :
              /\ Forward(o) /\ Requested(o)'
              /\ \/ orders'[o] = orders[o]
                 \/ Backs(o, orders[o].status, orders[o].filled)'
              /\ \A k \in CommandTypes :
                    \/ wire'[o][k] = wire[o][k] \/ wire'[o][k].pc # "reply"
                    \/ Grounded(o, k, wire[o][k].out)',
           \A p \in Procs :
              /\ \/ worker'[p] = worker[p] \/ worker'[p].pc # "finish"
                 \/ Grounded(worker[p].o, worker[p].k, worker[p].out)'
              /\ recon'[p] = recon[p] \/ ReconGrounded(recon[p])'
    PROVE  Truth'
<1>0. \A o \in Orders : \A s, f : Backs(o, s, f) => Backs(o, s, f)'
    BY BacksForward
<1>1. ASSUME NEW o \in Orders PROVE Backs(o, orders[o].status, orders[o].filled)'
    BY <1>0 DEF Truth
<1>2. ASSUME NEW o \in Orders, NEW k \in CommandTypes, wire'[o][k].pc = "reply"
      PROVE  Grounded(o, k, wire[o][k].out)'
    BY <1>0, <1>2 DEF Truth, Grounded
<1>3. ASSUME NEW p \in Procs, worker'[p].pc = "finish"
      PROVE  Grounded(worker[p].o, worker[p].k, worker[p].out)'
    <2>1. CASE worker'[p] = worker[p]
        <3>1. worker[p].o \in Orders
            BY <1>3, <2>1 DEF Inv, Shape
        <3> QED BY <1>0, <1>3, <2>1, <3>1 DEF Truth, Grounded
    <2> QED BY <1>3, <2>1
<1>4. ASSUME NEW p \in Procs PROVE ReconGrounded(recon[p])'
    <2>1. CASE recon'[p] = recon[p]
        BY <2>1, ReconForward DEF Truth
    <2> QED BY <2>1
<1> QED BY <1>1, <1>2, <1>3, <1>4 DEF Truth

(* What a step leaves alone for the order o.                                *)
LEMMA Untouched ==
    ASSUME NEW o \in Orders,
           cmds'[o]["SUBMIT"].attempts = cmds[o]["SUBMIT"].attempts,
           \A q \in Procs : AboutToSubmit(q, o)' => AboutToSubmit(q, o),
           wire'[o]["SUBMIT"].pc = "request" => wire[o]["SUBMIT"].pc = "request",
           venue'[o] = venue[o], sent'[o] = sent[o]
    PROVE  Forward(o)
BY DEF Forward, Over

(* A step of the processes that neither sends nor hears anything.           *)
LEMMA RowsStep ==
    ASSUME Inv, Truth, UNCHANGED <<wire, venue, sent>>,
           \A o \in Orders : /\ Forward(o)
                             /\ \/ orders'[o] = orders[o]
                                \/ Backs(o, orders'[o].status, orders'[o].filled),
           \A q \in Procs : /\ worker'[q] = worker[q] \/ worker'[q].pc # "finish"
                            /\ recon'[q] = recon[q] \/ ReconGrounded(recon'[q])
    PROVE  Truth'
<1>1. ASSUME NEW o \in Orders
      PROVE  /\ Requested(o)'
             /\ \/ orders'[o] = orders[o]
                \/ Backs(o, orders[o].status, orders[o].filled)'
             /\ \A k \in CommandTypes : wire'[o][k] = wire[o][k]
    <2>1. Requested(o)'
        BY DEF Truth, Requested
    <2>2. \A s, f : Backs(o, s, f) => Backs(o, s, f)'
        BY BacksForward
    <2> QED BY <2>1, <2>2
<1>2. ASSUME NEW q \in Procs PROVE recon'[q] = recon[q] \/ ReconGrounded(recon[q])'
    BY ReconForward
<1> QED BY <1>1, <1>2, TruthStep

(* A step that touches no command and lets no worker become ready to submit.*)
LEMMA CommandsKept ==
    ASSUME UNCHANGED <<cmds, wire, venue, sent>>,
           \A q \in Procs, o \in Orders : AboutToSubmit(q, o)' => AboutToSubmit(q, o)
    PROVE  \A o \in Orders : Forward(o)
BY Untouched

(* Steps that touch no row, and at most let workers and runs stop.          *)
LEMMA QuietTruth ==
    ASSUME Inv, Truth, NEW p \in Procs,
           \/ BootOMS(p) \/ CrashOMS(p) \/ FinishFails(p) \/ AfterFinish(p)
           \/ ReconUnavailable(p) \/ ReconFails(p) \/ AfterRecon(p)
           \/ \E o \in Orders : BeginCreate(p, o) \/ BeginCancel(p, o)
    PROVE  Truth'
<1>1. UNCHANGED <<orders, cmds, wire, venue, sent>>
    BY DEF BootOMS, CrashOMS, FinishFails, AfterFinish, ReconUnavailable, ReconFails, AfterRecon,
           BeginCreate, BeginCancel
<1>2. worker' = worker \/ worker' = [worker EXCEPT ![p] = IdleWorker]
    BY DEF BootOMS, CrashOMS, FinishFails, AfterFinish, ReconUnavailable, ReconFails, AfterRecon,
           BeginCreate, BeginCancel
<1>3. recon' = recon \/ recon' = [recon EXCEPT ![p] = IdleRecon]
    BY DEF BootOMS, CrashOMS, FinishFails, AfterFinish, ReconUnavailable, ReconFails, AfterRecon,
           BeginCreate, BeginCancel
<1>4. \A q \in Procs : worker'[q] = worker[q] \/ worker'[q].pc = "idle"
    BY <1>2 DEF Inv, OMSTypeOK, IdleWorker
<1>5. \A q \in Procs : recon'[q] = recon[q] \/ recon'[q].pc = "idle"
    BY <1>3 DEF Inv, OMSTypeOK, IdleRecon
<1>6. \A o \in Orders : Forward(o)
    BY <1>1, <1>4, CommandsKept DEF AboutToSubmit
<1>7. \A q \in Procs : recon'[q].pc = "idle" => ReconGrounded(recon'[q])
    BY DEF ReconGrounded
<1> QED BY <1>1, <1>4, <1>5, <1>6, <1>7, RowsStep

(* create_oms_order: the order was never sent.                              *)
LEMMA CreateTruth ==
    ASSUME Inv, Truth, NEW p \in Procs, CreateOrder(p)
    PROVE  Truth'
<1>1. UNCHANGED <<worker, recon, wire, venue, sent>>
    BY DEF CreateOrder
<1>2. CASE UNCHANGED dbVars
    <2>1. \A o \in Orders : Forward(o)
        BY <1>1, <1>2, CommandsKept DEF dbVars, AboutToSubmit
    <2> QED BY <1>1, <1>2, <2>1, RowsStep DEF dbVars
<1>3. CASE ~UNCHANGED dbVars
    <2> DEFINE row == [status |-> "PENDING_SUBMISSION", ver |-> 1, vid |-> FALSE, filled |-> 0]
               cmd == [status |-> "PENDING", attempts |-> 0, expired |-> FALSE]
    <2>1. PICK o \in Orders : o = creating[p]
        BY <1>3 DEF CreateOrder, Inv, OMSTypeOK
    <2>2. /\ orders[o].status = "NONE"
          /\ orders' = [orders EXCEPT ![o] = row] /\ cmds' = [cmds EXCEPT ![o]["SUBMIT"] = cmd]
        BY <1>3, <2>1 DEF CreateOrder
    <2>3. cmds[o]["SUBMIT"].attempts = 0
        BY <2>2 DEF Inv, SubmitOnce
    <2>4. cmd \in CommandRow /\ cmd.attempts = 0 /\ row.status = "PENDING_SUBMISSION"
        BY DEF CommandRow
    <2> HIDE DEF row, cmd
    <2>5. \A x \in Orders : \A y \in CommandTypes :
              cmds'[x][y] = IF x = o /\ y = "SUBMIT" THEN cmd ELSE cmds[x][y]
        <3>1. cmds \in [Orders -> [CommandTypes -> CommandRow]]
            BY DEF Inv, OMSTypeOK
        <3> QED BY <2>2, <2>4, <3>1, NestedUpdate
    <2>6. \A x \in Orders : cmds'[x]["SUBMIT"].attempts = cmds[x]["SUBMIT"].attempts
        BY <2>3, <2>4, <2>5 DEF CommandTypes
    <2>7. \A x \in Orders : Forward(x)
        BY <1>1, <2>6, Untouched DEF AboutToSubmit
    <2>8. orders'[o] = row /\ \A x \in Orders \ {o} : orders'[x] = orders[x]
        BY <2>2 DEF Inv, OMSTypeOK
    <2>9. Backs(o, orders'[o].status, orders'[o].filled)
        BY <2>4, <2>8, SaysNothing
    <2> QED BY <1>1, <2>7, <2>8, <2>9, RowsStep
<1> QED BY <1>2, <1>3

(* claim_execution_command: what it sweeps becomes UNKNOWN, which says      *)
(* nothing; what it leases was not attempted, so the order is not over.     *)
LEMMA ClaimTruth ==
    ASSUME Inv, Truth, NEW p \in Procs, Claim(p) \/ ClaimFails(p)
    PROVE  Truth'
<1>1. UNCHANGED <<recon, wire, venue, sent>> /\ (orders' = orders \/ orders' = SweptOrders)
    BY DEF Claim, ClaimFails
<1>2. ASSUME NEW o \in Orders
      PROVE  orders'[o] = orders[o] \/ Backs(o, orders'[o].status, orders'[o].filled)
    <2>1. orders[o] \in OrderRow
        BY DEF Inv, OMSTypeOK
    <2>2. \/ orders'[o] = orders[o]
          \/ \E n \in {1, 2} : orders'[o] = [orders[o] EXCEPT !.status = "UNKNOWN", !.ver = @ + n]
        BY <1>1 DEF SweptOrders
    <2>3. orders'[o] = orders[o] \/ orders'[o].status = "UNKNOWN"
        BY <2>1, <2>2 DEF OrderRow
    <2> QED BY <2>3, SaysNothing
<1>3. ASSUME NEW o \in Orders PROVE SweptCommands[o]["SUBMIT"].attempts = cmds[o]["SUBMIT"].attempts
    BY SweptFacts DEF CommandTypes
<1>4. ASSUME NEW o \in Orders, NEW k \in CommandTypes, Leased(o, k),
             \/ worker' = worker
             \/ worker' = [worker EXCEPT
                  ![p] = [pc |-> "claimed", o |-> o, k |-> k,
                          copy |-> SweptOrders[o], out |-> NoOutcome]]
      PROVE  Truth'
    <2> DEFINE row == [status |-> "LEASED", attempts |-> 1, expired |-> FALSE]
               job == [pc |-> "claimed", o |-> o, k |-> k, copy |-> SweptOrders[o], out |-> NoOutcome]
    <2>1. cmds[o][k].attempts = 0
        <3>1. cmds[o][k] \in CommandRow
            BY DEF Inv, OMSTypeOK
        <3> QED BY <1>4, <3>1 DEF CommandRow, Leased
    <2>2. row \in CommandRow
        BY DEF CommandRow
    <2>3. /\ cmds' = [SweptCommands EXCEPT ![o][k] = row]
          /\ worker' = worker \/ worker' = [worker EXCEPT ![p] = job]
        BY <1>4, <2>1 DEF Leased
    <2>4. job.pc = "claimed" /\ job.o = o /\ job.k = k
        OBVIOUS
    <2> HIDE DEF row, job
    <2>5. \A x \in Orders : \A y \in CommandTypes :
              cmds'[x][y] = IF x = o /\ y = k THEN row ELSE SweptCommands[x][y]
        BY <2>2, <2>3, SweptFacts, NestedUpdate
    <2>6. (worker'[p] = worker[p] \/ worker'[p] = job) /\ \A q \in Procs \ {p} : worker'[q] = worker[q]
        BY <2>3 DEF Inv, OMSTypeOK
    <2>7. ASSUME NEW x \in Orders PROVE Forward(x)
        <3>1. CASE x = o /\ k = "SUBMIT"
            <4>1. ~Over(x)
                BY <2>1, <3>1 DEF Over
            <4> QED BY <1>1, <4>1 DEF Forward
        <3>2. CASE ~(x = o /\ k = "SUBMIT")
            <4>1. cmds'[x]["SUBMIT"].attempts = cmds[x]["SUBMIT"].attempts
                BY <1>3, <2>5, <3>2 DEF CommandTypes
            <4>2. \A q \in Procs : AboutToSubmit(q, x)' => AboutToSubmit(q, x)
                BY <2>4, <2>6, <3>2 DEF AboutToSubmit
            <4> QED BY <1>1, <4>1, <4>2, Untouched
        <3> QED BY <3>1, <3>2
    <2> QED BY <1>1, <1>2, <2>4, <2>6, <2>7, RowsStep
<1>5. CASE cmds' = SweptCommands /\ worker' = worker
    <2>1. \A o \in Orders : Forward(o)
        BY <1>1, <1>3, <1>5, Untouched DEF AboutToSubmit
    <2> QED BY <1>1, <1>2, <1>5, <2>1, RowsStep
<1>6. CASE UNCHANGED <<orders, cmds, worker>>
    <2>1. \A o \in Orders : Forward(o)
        BY <1>1, <1>6, Untouched DEF AboutToSubmit
    <2> QED BY <1>1, <1>2, <1>6, <2>1, RowsStep
<1> QED BY <1>4, <1>5, <1>6 DEF Claim, ClaimFails, NothingToLease

(* An order that was sent has used its one submission.                      *)
LEMMA SentOnce ==
    ASSUME Inv, NEW o \in Orders, sent[o] = 1
    PROVE  cmds[o]["SUBMIT"].attempts = 1 /\ \A q \in Procs : ~AboutToSubmit(q, o)
<1>1. cmds[o]["SUBMIT"] \in CommandRow
    BY DEF Inv, OMSTypeOK, CommandTypes
<1>2. cmds[o]["SUBMIT"].attempts \in 0..1
    BY <1>1 DEF CommandRow
<1> QED BY <1>2 DEF Inv, SubmitOnce

(* What ended at the venue is over.                                         *)
LEMMA FinalIsOver ==
    ASSUME Inv, Truth, NEW o \in Orders, venue[o].status \in VenueFinal
    PROVE  Over(o)
<1>1. sent[o] = 1 /\ wire[o]["SUBMIT"].pc # "request"
    BY DEF Truth, Requested, VenueFinal
<1> QED BY <1>1, SentOnce DEF Over, VenueFinal, VenueLive

(* A worker ends its attempt with an outcome, and the request it waited for *)
(* may be consumed.                                                         *)
LEMMA SettleTruth ==
    ASSUME Inv, Truth, NEW p \in Procs, NEW job, job.pc = "finish",
           worker[p].pc \in {"claimed", "waiting"},
           worker' = [worker EXCEPT ![p] = job],
           job.o \in Orders, Grounded(job.o, job.k, job.out)',
           \/ wire' = wire
           \/ \E o \in Orders, k \in CommandTypes : wire' = [wire EXCEPT ![o][k] = IdleWire],
           UNCHANGED <<orders, cmds, recon, venue, sent>>
    PROVE  Truth'
<1>1. worker'[p] = job /\ \A q \in Procs \ {p} : worker'[q] = worker[q]
    BY DEF Inv, OMSTypeOK
<1>2. \A x \in Orders : \A y \in CommandTypes : wire'[x][y] = wire[x][y] \/ wire'[x][y].pc = "idle"
    <2>1. wire \in [Orders -> [CommandTypes -> WireState]] /\ IdleWire \in WireState
          /\ IdleWire.pc = "idle"
        BY RowFacts DEF Inv, OMSTypeOK, IdleWire
    <2>2. ASSUME NEW o \in Orders, NEW k \in CommandTypes, wire' = [wire EXCEPT ![o][k] = IdleWire]
          PROVE  <1>2
        <3>1. \A x \in Orders : \A y \in CommandTypes :
                  wire'[x][y] = IF x = o /\ y = k THEN IdleWire ELSE wire[x][y]
            BY <2>1, <2>2, NestedUpdate
        <3> QED BY <2>1, <3>1
    <2> QED BY <2>2
<1>3. "SUBMIT" \in CommandTypes
    BY DEF CommandTypes
<1>4. \A x \in Orders : wire'[x]["SUBMIT"].pc = "request" => wire[x]["SUBMIT"].pc = "request"
    BY <1>2, <1>3
<1>5. \A x \in Orders : Forward(x)
    BY <1>1, <1>4, Untouched DEF AboutToSubmit
<1>6. \A x \in Orders : Requested(x)'
    BY <1>4 DEF Truth, Requested
<1>7. \A x \in Orders : \A y \in CommandTypes :
          wire'[x][y] = wire[x][y] \/ wire'[x][y].pc # "reply"
    BY <1>2
<1>8. \A q \in Procs : \/ worker'[q] = worker[q]
                       \/ Grounded(worker[q].o, worker[q].k, worker[q].out)'
    BY <1>1
<1> QED BY <1>5, <1>6, <1>7, <1>8, TruthStep

(* dispatch_once before the venue call.  A quarantined order was not sent,  *)
(* because the worker that quarantines it is the only one that could.       *)
LEMMA DispatchTruth ==
    ASSUME Inv, Truth, NEW p \in Procs, Dispatch(p)
    PROVE  Truth'
<1>0. /\ worker[p] \in WorkerState /\ worker[p].pc = "claimed" /\ worker[p].o \in Orders
      /\ UNCHANGED <<orders, cmds, recon, venue>>
    BY DEF Inv, OMSTypeOK, Shape, Dispatch
<1>1. PICK o \in Orders, k \in CommandTypes : o = worker[p].o /\ k = worker[p].k
    BY <1>0, JobFacts
<1>2. "SUBMIT" \in CommandTypes
    BY DEF CommandTypes
<1>3. k = "SUBMIT" => /\ cmds[o]["SUBMIT"].attempts = 1 /\ sent[o] = 0
                      /\ \A q \in Procs \ {p} : ~AboutToSubmit(q, o)
    BY <1>0, <1>1 DEF Inv, SubmitOnce, AboutToSubmit
<1>4. k = "SUBMIT" => wire[o]["SUBMIT"].pc # "request" /\ venue[o].status = "NONE"
    BY <1>3 DEF Truth, Requested
<1>5. ASSUME NEW kind \in {"NO_ADAPTER", "QUARANTINE"}, kind = "QUARANTINE" => k = "SUBMIT",
             worker' = [worker EXCEPT ![p].pc = "finish", ![p].out.kind = kind],
             UNCHANGED <<wire, sent>>
      PROVE  Truth'
    <2>0. PICK job :
             job = [worker[p] EXCEPT !.pc = "finish", !.out = [worker[p].out EXCEPT !.kind = kind]]
        OBVIOUS
    <2>1. worker' = [worker EXCEPT ![p] = job]
        BY <1>0, <1>5, <2>0 DEF Inv, OMSTypeOK, WorkerState
    <2>2. job.pc = "finish" /\ job.o = o /\ job.k = k /\ job.out.kind = kind
        BY <1>0, <1>1, <2>0 DEF WorkerState, Outcome
    <2>3. worker'[p] = job /\ \A q \in Procs \ {p} : worker'[q] = worker[q]
        BY <2>1 DEF Inv, OMSTypeOK
    <2>4. Grounded(o, k, job.out)'
        <3>1. CASE kind = "NO_ADAPTER"
            BY <2>2, <3>1, WrittenFacts, SaysNothing DEF Grounded
        <3>2. CASE kind = "QUARANTINE"
            <4>1. \A q \in Procs : ~AboutToSubmit(q, o)'
                BY <1>3, <1>5, <2>2, <2>3, <3>2 DEF AboutToSubmit
            <4>2. Over(o)'
                BY <1>0, <1>3, <1>4, <1>5, <3>2, <4>1 DEF Over, VenueLive
            <4>3. \A f : Backs(o, "QUARANTINED", f)'
                BY <1>3, <1>5, <3>2, <4>2 DEF Backs, VenueLive
            <4> QED BY <2>2, <3>2, <4>3, WrittenFacts DEF Grounded
        <3> QED BY <3>1, <3>2
    <2> QED BY <1>0, <1>5, <2>1, <2>2, <2>4, SettleTruth
<1>6. ASSUME worker' = [worker EXCEPT ![p].pc = "waiting"],
             wire' = [wire EXCEPT ![worker[p].o][worker[p].k] =
                [pc |-> "request", out |-> [NoOutcome EXCEPT !.filled = worker[p].copy.filled]]],
             sent' = IF worker[p].k = "SUBMIT" THEN [sent EXCEPT ![worker[p].o] = @ + 1] ELSE sent
      PROVE  Truth'
    <2> DEFINE job == [worker[p] EXCEPT !.pc = "waiting"]
               req == [pc |-> "request", out |-> [NoOutcome EXCEPT !.filled = worker[p].copy.filled]]
    <2>1. worker' = [worker EXCEPT ![p] = job] /\ wire' = [wire EXCEPT ![o][k] = req]
        BY <1>1, <1>6
    <2>2. job.pc = "waiting" /\ req.pc = "request"
        BY <1>0 DEF WorkerState
    <2>3. req \in WireState
        BY <1>0, JobFacts, OutcomeFacts DEF WireState
    <2> HIDE DEF job, req
    <2>4. worker'[p] = job /\ \A q \in Procs \ {p} : worker'[q] = worker[q]
        BY <2>1 DEF Inv, OMSTypeOK
    <2>5. \A x \in Orders : \A y \in CommandTypes :
              wire'[x][y] = IF x = o /\ y = k THEN req ELSE wire[x][y]
        <3>1. wire \in [Orders -> [CommandTypes -> WireState]]
            BY DEF Inv, OMSTypeOK
        <3> QED BY <2>1, <2>3, <3>1, NestedUpdate
    <2>6. \A q \in Procs, x \in Orders : AboutToSubmit(q, x)' => AboutToSubmit(q, x)
        BY <2>2, <2>4 DEF AboutToSubmit
    <2>7. /\ k = "SUBMIT" => sent'[o] = 1
          /\ \A x \in Orders : ~(x = o /\ k = "SUBMIT") => sent'[x] = sent[x]
        BY <1>1, <1>3, <1>6 DEF Inv, OMSTypeOK
    <2>8. ASSUME NEW x \in Orders PROVE Forward(x) /\ Requested(x)'
        <3>1. CASE x = o /\ k = "SUBMIT"
            <4>1. ~Over(x)
                BY <1>0, <1>1, <3>1 DEF Over, AboutToSubmit
            <4> QED BY <1>0, <1>4, <2>7, <3>1, <4>1 DEF Forward, Requested
        <3>2. CASE ~(x = o /\ k = "SUBMIT")
            <4>1. wire'[x]["SUBMIT"] = wire[x]["SUBMIT"] /\ sent'[x] = sent[x]
                BY <1>2, <2>5, <2>7, <3>2
            <4>2. Forward(x)
                BY <1>0, <2>6, <4>1, Untouched
            <4> QED BY <1>0, <4>1, <4>2 DEF Truth, Requested
        <3> QED BY <3>1, <3>2
    <2>9. \A x \in Orders : \A y \in CommandTypes :
              wire'[x][y] = wire[x][y] \/ wire'[x][y].pc # "reply"
        BY <2>2, <2>5
    <2>10. \A q \in Procs : worker'[q] = worker[q] \/ worker'[q].pc # "finish"
        BY <2>2, <2>4
    <2> QED BY <1>0, <2>8, <2>9, <2>10, TruthStep
<1> QED BY <1>1, <1>5, <1>6 DEF Dispatch

(* The venue's answer becomes the outcome.                                  *)
LEMMA AnswerTruth ==
    ASSUME Inv, Truth, NEW p \in Procs, Answer(p)
    PROVE  Truth'
<1>0. /\ worker[p] \in WorkerState /\ worker[p].pc = "waiting" /\ worker[p].o \in Orders
      /\ UNCHANGED <<orders, cmds, recon, venue, sent>>
    BY DEF Inv, OMSTypeOK, Shape, Answer
<1>1. PICK o \in Orders, k \in CommandTypes : o = worker[p].o /\ k = worker[p].k
    BY <1>0, JobFacts
<1>2. wire[o][k].pc = "reply" /\ wire' = [wire EXCEPT ![o][k] = IdleWire]
    BY <1>1 DEF Answer
<1>3. CASE worker' = [worker EXCEPT ![p].pc = "finish", ![p].out = wire[o][k].out]
    <2>0. PICK out : out = wire[o][k].out
        OBVIOUS
    <2>j. PICK job : job = [worker[p] EXCEPT !.pc = "finish", !.out = out]
        OBVIOUS
    <2>1. worker' = [worker EXCEPT ![p] = job]
        BY <1>3, <2>0, <2>j DEF Inv, OMSTypeOK
    <2>2. job.pc = "finish" /\ job.o = o /\ job.k = k /\ job.out = out
        BY <1>0, <1>1, <2>j DEF WorkerState
    <2>3. worker'[p] = job /\ \A q \in Procs \ {p} : worker'[q] = worker[q]
        BY <2>1 DEF Inv, OMSTypeOK
    <2>4. wire'[o]["SUBMIT"].pc = "request" => wire[o]["SUBMIT"].pc = "request"
        <3>1. wire \in [Orders -> [CommandTypes -> WireState]] /\ IdleWire \in WireState
              /\ IdleWire.pc = "idle" /\ "SUBMIT" \in CommandTypes
            BY RowFacts DEF Inv, OMSTypeOK, IdleWire, CommandTypes
        <3>2. wire'[o]["SUBMIT"] = IF k = "SUBMIT" THEN IdleWire ELSE wire[o]["SUBMIT"]
            BY <1>2, <3>1, NestedUpdate
        <3> QED BY <3>1, <3>2
    <2>5. Forward(o)
        BY <1>0, <2>2, <2>3, <2>4, Untouched DEF AboutToSubmit
    <2>6. Grounded(o, k, out)
        BY <1>2, <2>0 DEF Truth
    <2>7. Grounded(o, k, out)'
        BY <2>5, <2>6, BacksForward DEF Grounded
    <2> QED BY <1>0, <1>2, <2>1, <2>2, <2>7, SettleTruth
<1>4. CASE worker' = [worker EXCEPT ![p].pc = "finish", ![p].out.kind = "IDENTITY"]
    <2>0. PICK job : job = [worker[p] EXCEPT !.pc = "finish",
                                             !.out = [worker[p].out EXCEPT !.kind = "IDENTITY"]]
        OBVIOUS
    <2>1. worker' = [worker EXCEPT ![p] = job]
        BY <1>0, <1>4, <2>0 DEF Inv, OMSTypeOK, WorkerState
    <2>2. job.pc = "finish" /\ job.o = o /\ job.k = k /\ job.out.kind = "IDENTITY"
        BY <1>0, <1>1, <2>0 DEF WorkerState, Outcome
    <2>3. Grounded(o, k, job.out)'
        BY <2>2, WrittenFacts, SaysNothing DEF Grounded
    <2> QED BY <1>0, <1>2, <2>1, <2>2, <2>3, SettleTruth
<1> QED BY <1>1, <1>3, <1>4 DEF Answer

(* An ambiguous outcome says nothing.                                       *)
LEMMA TimeoutTruth ==
    ASSUME Inv, Truth, NEW p \in Procs, Timeout(p)
    PROVE  Truth'
<1>0. /\ worker[p] \in WorkerState /\ worker[p].pc = "waiting" /\ worker[p].o \in Orders
      /\ UNCHANGED <<orders, cmds, recon, venue, sent>>
      /\ worker' = [worker EXCEPT ![p].pc = "finish", ![p].out.kind = "AMBIGUOUS"]
    BY DEF Inv, OMSTypeOK, Shape, Timeout
<1>1. PICK o \in Orders, k \in CommandTypes : o = worker[p].o /\ k = worker[p].k
    BY <1>0, JobFacts
<1>2. wire' = wire \/ wire' = [wire EXCEPT ![o][k] = IdleWire]
    BY <1>1 DEF Timeout
<1>j. PICK job : job = [worker[p] EXCEPT !.pc = "finish",
                                         !.out = [worker[p].out EXCEPT !.kind = "AMBIGUOUS"]]
    OBVIOUS
<1>3. worker' = [worker EXCEPT ![p] = job]
    BY <1>0, <1>j DEF Inv, OMSTypeOK, WorkerState
<1>4. job.pc = "finish" /\ job.o = o /\ job.k = k /\ job.out.kind = "AMBIGUOUS"
    BY <1>0, <1>1, <1>j DEF WorkerState, Outcome
<1>5. job.o \in Orders /\ Grounded(job.o, job.k, job.out)'
    BY <1>4, WrittenFacts, SaysNothing DEF Grounded
<1>6. wire' = wire \/ \E x \in Orders, y \in CommandTypes : wire' = [wire EXCEPT ![x][y] = IdleWire]
    BY <1>2
<1> QED BY <1>0, <1>3, <1>4, <1>5, <1>6, SettleTruth

(* finish_execution_command writes what the outcome says.                   *)
LEMMA FinishTruth ==
    ASSUME Inv, Truth, NEW p \in Procs, Finish(p)
    PROVE  Truth'
<1>0. /\ worker[p] \in WorkerState /\ worker[p].pc = "finish" /\ worker[p].o \in Orders
      /\ UNCHANGED <<recon, wire, venue, sent>>
    BY DEF Inv, OMSTypeOK, Shape, Finish
<1>1. PICK o \in Orders, k \in CommandTypes : o = worker[p].o /\ k = worker[p].k
    BY <1>0, JobFacts
<1>2. PICK w \in WorkerState : w = worker[p]
    BY <1>0
<1>3. w.copy \in OrderRow /\ w.out \in Outcome
    BY JobFacts
<1>4. /\ Updated(w).status = Written(k, w.out)
      /\ w.out.kind = "ACK" => Updated(w).filled = w.out.filled
    BY <1>1, <1>2, <1>3 DEF Updated, Written, OrderRow
<1>5. Backs(o, Updated(w).status, Updated(w).filled)
    <2>1. Backs(o, Written(k, w.out), w.out.filled)
        BY <1>0, <1>1, <1>2 DEF Truth, Grounded
    <2>2. CASE w.out.kind = "ACK"
        BY <1>4, <2>1, <2>2
    <2>3. CASE w.out.kind # "ACK"
        BY <1>4, <2>1, <2>3, WrittenFacts, FillAside
    <2> QED BY <2>2, <2>3
<1>6. orders'[o] = Updated(w) /\ \A x \in Orders \ {o} : orders'[x] = orders[x]
    BY <1>1, <1>2 DEF Finish, Inv, OMSTypeOK
<1>7. \A q \in Procs : worker'[q] = worker[q] \/ worker'[q].pc = "after"
    BY DEF Finish, Inv, OMSTypeOK, IdleWorker
<1>8. \A x \in Orders : cmds'[x]["SUBMIT"].attempts = cmds[x]["SUBMIT"].attempts
    <2> DEFINE done == [cmds[o][k] EXCEPT !.status = "COMPLETED", !.expired = FALSE]
    <2>1. cmds[o][k] \in CommandRow /\ cmds \in [Orders -> [CommandTypes -> CommandRow]]
        BY DEF Inv, OMSTypeOK
    <2>2. cmds' = [cmds EXCEPT ![o][k] = done]
        BY <1>1, <2>1 DEF Finish, CommandRow, Inv, OMSTypeOK
    <2>3. done \in CommandRow /\ done.attempts = cmds[o][k].attempts
        BY <2>1, CommandFacts DEF CommandRow
    <2> HIDE DEF done
    <2>4. \A x \in Orders : \A y \in CommandTypes :
              cmds'[x][y] = IF x = o /\ y = k THEN done ELSE cmds[x][y]
        BY <2>1, <2>2, <2>3, NestedUpdate
    <2> QED BY <2>3, <2>4 DEF CommandTypes
<1>9. \A x \in Orders : Forward(x)
    BY <1>0, <1>7, <1>8, Untouched DEF AboutToSubmit
<1>10. \A x \in Orders : orders'[x] = orders[x] \/ Backs(x, orders'[x].status, orders'[x].filled)
    BY <1>5, <1>6
<1> QED BY <1>0, <1>7, <1>9, <1>10, RowsStep

(* CANCEL_PENDING says nothing either.                                      *)
LEMMA QueueCancelTruth ==
    ASSUME Inv, Truth, NEW p \in Procs, QueueCancel(p)
    PROVE  Truth'
<1>0. UNCHANGED <<worker, recon, wire, venue, sent>>
    BY DEF QueueCancel
<1>1. PICK o \in Orders : o = cancel[p].o
    BY DEF QueueCancel, Inv, Shape
<1>2. \A x \in Orders : orders'[x] = orders[x] \/ orders'[x].status = "CANCEL_PENDING"
    <2>1. orders \in [Orders -> OrderRow]
        BY DEF Inv, OMSTypeOK
    <2>2. \/ orders' = orders
          \/ orders' = [orders EXCEPT ![o] = [orders[o] EXCEPT !.status = "CANCEL_PENDING",
                                                              !.ver = orders[o].ver + 1]]
        BY <1>1, <2>1 DEF QueueCancel, dbVars, OrderRow
    <2> QED BY <2>1, <2>2 DEF OrderRow
<1>3. \A x \in Orders : cmds'[x]["SUBMIT"] = cmds[x]["SUBMIT"]
    <2> DEFINE row == [status |-> "PENDING", attempts |-> 0, expired |-> FALSE]
    <2>1. cmds \in [Orders -> [CommandTypes -> CommandRow]] /\ row \in CommandRow
        BY DEF Inv, OMSTypeOK, CommandRow
    <2>2. cmds' = cmds \/ cmds' = [cmds EXCEPT ![o]["CANCEL"] = row]
        BY <1>1 DEF QueueCancel, dbVars
    <2> HIDE DEF row
    <2>3. CASE cmds' = [cmds EXCEPT ![o]["CANCEL"] = row]
        <3>1. \A x \in Orders : \A y \in CommandTypes :
                  cmds'[x][y] = IF x = o /\ y = "CANCEL" THEN row ELSE cmds[x][y]
            BY <2>1, <2>3, NestedUpdate
        <3> QED BY <3>1 DEF CommandTypes
    <2> QED BY <2>2, <2>3
<1>4. \A x \in Orders : Forward(x)
    BY <1>0, <1>3, Untouched DEF AboutToSubmit
<1>5. \A x \in Orders : orders'[x] = orders[x] \/ Backs(x, orders'[x].status, orders'[x].filled)
    BY <1>2, SaysNothing
<1> QED BY <1>0, <1>4, <1>5, RowsStep

(* The reads and the transaction of a reconciliation run.                   *)
LEMMA ReconTruth ==
    ASSUME Inv, Truth, NEW p \in Procs, NEW run,
           recon' = [recon EXCEPT ![p] = run], ReconGrounded(run),
           \A o \in Orders : \/ orders'[o] = orders[o]
                             \/ Backs(o, orders'[o].status, orders'[o].filled),
           UNCHANGED <<cmds, worker, wire, venue, sent>>
    PROVE  Truth'
<1>1. \A q \in Procs : recon'[q] = recon[q] \/ ReconGrounded(recon'[q])
    BY DEF Inv, OMSTypeOK
<1>2. \A o \in Orders : Forward(o)
    BY CommandsKept DEF AboutToSubmit
<1> QED BY <1>1, <1>2, RowsStep

(* The local orders are borne out when they are read.                       *)
LEMMA ReconReadTruth ==
    ASSUME Inv, Truth, NEW p \in Procs, ReconRead(p)
    PROVE  Truth'
<1>1. PICK run : run = [recon[p] EXCEPT !.pc = "fetch", !.local = orders]
    OBVIOUS
<1>2. recon[p] \in ReconState
    BY DEF Inv, OMSTypeOK
<1>3. run.pc = "fetch" /\ run.local = orders
    BY <1>1, <1>2 DEF ReconState
<1>4. recon' = [recon EXCEPT ![p] = run]
    BY <1>1 DEF ReconRead, Inv, OMSTypeOK
<1>5. ReconGrounded(run)
    BY <1>3 DEF ReconGrounded, Truth, Backs, Terminal
<1> QED BY <1>4, <1>5, ReconTruth DEF ReconRead

(* The venue bears out its own book.                                        *)
LEMMA ReconFetchTruth ==
    ASSUME Inv, Truth, NEW p \in Procs, ReconFetch(p)
    PROVE  Truth'
<1>1. PICK run : run = [recon[p] EXCEPT !.pc = "details", !.snap = venue]
    OBVIOUS
<1>2. recon[p] \in ReconState /\ recon[p].pc = "fetch"
    BY DEF Inv, OMSTypeOK, ReconFetch
<1>3. run.pc = "details" /\ run.local = recon[p].local /\ run.snap = venue
    BY <1>1, <1>2 DEF ReconState
<1>4. recon' = [recon EXCEPT ![p] = run]
    BY <1>1 DEF ReconFetch, Inv, OMSTypeOK
<1>5. ASSUME NEW o \in Orders
      PROVE  /\ Terminal(run.local[o]) => Over(o)
             /\ run.local[o].status \in VenueLive => venue[o].status # "NONE"
    BY <1>2, <1>3 DEF Truth, ReconGrounded
<1>6. ASSUME NEW o \in Orders PROVE Backs(o, venue[o].status, venue[o].filled)
    <2>1. venue[o] \in VenueRow
        BY DEF Inv, OMSTypeOK
    <2>2. /\ venue[o].status \in TERMINAL_OMS_STATUSES => venue[o].status \in VenueFinal
          /\ venue[o].status # "QUARANTINED"
        BY <2>1 DEF VenueRow, VenueStatuses, TERMINAL_OMS_STATUSES, VenueFinal
    <2>3. venue[o].status \in TERMINAL_OMS_STATUSES => Over(o)
        BY <2>2, FinalIsOver
    <2> QED BY <2>2, <2>3 DEF Backs, VenueLive
<1>7. ReconGrounded(run)
    BY <1>3, <1>5, <1>6 DEF ReconGrounded, Over
<1> QED BY <1>4, <1>7, ReconTruth DEF ReconFetch

(* The later reads change no order.                                         *)
LEMMA ReconDetailsTruth ==
    ASSUME Inv, Truth, NEW p \in Procs, ReconDetails(p)
    PROVE  Truth'
<1>1. PICK b \in BOOLEAN :
        recon' = [recon EXCEPT ![p].pc = "persist", ![p].critical = b]
    BY Zenon DEF ReconDetails
<1>2. PICK run : run = [recon[p] EXCEPT !.pc = "persist", !.critical = b]
    OBVIOUS
<1>3. recon[p] \in ReconState /\ recon[p].pc = "details"
    BY DEF Inv, OMSTypeOK, ReconDetails
<1>4. run.pc = "persist" /\ run.local = recon[p].local /\ run.snap = recon[p].snap
    BY <1>2, <1>3 DEF ReconState
<1>5. recon' = [recon EXCEPT ![p] = run]
    BY <1>1, <1>2 DEF Inv, OMSTypeOK
<1>6. ReconGrounded(recon[p])
    BY DEF Truth
<1>7. ReconGrounded(run)
    BY <1>3, <1>4, <1>6 DEF ReconGrounded
<1> QED BY <1>5, <1>7, ReconTruth DEF ReconDetails

(* persist_reconciliation writes what the snapshot says.                    *)
LEMMA ReconPersistTruth ==
    ASSUME Inv, Truth, NEW p \in Procs, ReconPersist(p)
    PROVE  Truth'
<1>1. PICK run : run = [IdleRecon EXCEPT !.pc = "after",
                           !.critical = recon[p].critical \/ Critical(recon[p])]
    OBVIOUS
<1>2. run.pc = "after"
    BY <1>1 DEF IdleRecon
<1>3. recon' = [recon EXCEPT ![p] = run] /\ recon[p].pc = "persist"
    BY <1>1 DEF ReconPersist
<1>4. ASSUME NEW o \in Orders
      PROVE  \/ orders'[o] = orders[o]
             \/ Backs(o, orders'[o].status, orders'[o].filled)
    <2>1. \/ orders'[o] = orders[o]
          \/ orders'[o].status = recon[p].snap[o].status /\ orders'[o].filled = recon[p].snap[o].filled
        BY DEF ReconPersist, Corrected
    <2>2. Backs(o, recon[p].snap[o].status, recon[p].snap[o].filled)
        BY <1>3 DEF Truth, ReconGrounded
    <2> QED BY <2>1, <2>2
<1>5. ReconGrounded(run)
    BY <1>2 DEF ReconGrounded
<1> QED BY <1>3, <1>4, <1>5, ReconTruth DEF ReconPersist

(* A step of the venue or the network about one order: what it reports is   *)
(* borne out by its new book, and an order that is over is left alone.      *)
LEMMA VenueTruth ==
    ASSUME Inv, Truth, NEW o \in Orders, NEW k \in CommandTypes,
           NEW row \in VenueRow, NEW msg \in WireState,
           venue' = [venue EXCEPT ![o] = row],
           wire' = wire \/ (wire' = [wire EXCEPT ![o][k] = msg] /\ msg.pc # "request"),
           venue[o].status # "NONE" => row.status # "NONE",
           Over(o) => row = venue[o],
           row.status # "NONE" => sent[o] = 1,
           row # venue[o] => wire'[o]["SUBMIT"].pc # "request",
           msg.pc = "reply" => Grounded(o, k, msg.out)',
           UNCHANGED <<orders, cmds, worker, recon, sent>>
    PROVE  Truth'
<1>1. venue'[o] = row /\ \A x \in Orders \ {o} : venue'[x] = venue[x]
    BY DEF Inv, OMSTypeOK
<1>2. \A x \in Orders : \A y \in CommandTypes :
          \/ wire'[x][y] = wire[x][y]
          \/ x = o /\ y = k /\ wire'[x][y] = msg /\ msg.pc # "request"
    <2>1. wire \in [Orders -> [CommandTypes -> WireState]]
        BY DEF Inv, OMSTypeOK
    <2>2. CASE wire' = [wire EXCEPT ![o][k] = msg] /\ msg.pc # "request"
        <3>1. \A x \in Orders : \A y \in CommandTypes :
                  wire'[x][y] = IF x = o /\ y = k THEN msg ELSE wire[x][y]
            BY <2>1, <2>2, NestedUpdate
        <3> QED BY <2>2, <3>1
    <2> QED BY <2>2
<1>3. \A x \in Orders : wire'[x]["SUBMIT"].pc = "request" => wire[x]["SUBMIT"].pc = "request"
    BY <1>2 DEF CommandTypes
<1>4. ASSUME NEW x \in Orders PROVE Forward(x) /\ Requested(x)'
    <2>1. CASE venue'[x] = venue[x]
        <3>1. Forward(x)
            BY <1>3, <2>1, Untouched DEF AboutToSubmit
        <3> QED BY <1>3, <2>1, <3>1 DEF Truth, Requested
    <2>2. CASE venue'[x] # venue[x]
        <3>1. x = o /\ ~Over(o) /\ wire'[o]["SUBMIT"].pc # "request"
            BY <1>1, <2>2
        <3> QED BY <1>1, <3>1 DEF Forward, Requested
    <2> QED BY <2>1, <2>2
<1>5. ASSUME NEW x \in Orders, NEW y \in CommandTypes
      PROVE  \/ wire'[x][y] = wire[x][y] \/ wire'[x][y].pc # "reply"
             \/ Grounded(x, y, wire[x][y].out)'
    BY <1>2
<1> QED BY <1>4, <1>5, TruthStep

(* A sent order that neither travels nor is live any more is over.          *)
LEMMA OverNow ==
    ASSUME Inv, NEW o \in Orders, sent[o] = 1, UNCHANGED <<cmds, worker>>,
           wire'[o]["SUBMIT"].pc # "request", venue'[o].status \notin VenueLive
    PROVE  Over(o)'
BY SentOnce DEF Over, AboutToSubmit

(* A reply reaches whoever waits, or nobody.                                *)
LEMMA ReplyTruth ==
    ASSUME Inv, NEW o \in Orders, NEW k \in CommandTypes, NEW out \in Outcome, Reply(o, k, out)
    PROVE  \E msg \in WireState :
              /\ msg.pc # "request" /\ (msg.pc = "reply" => msg.out = out)
              /\ wire' = [wire EXCEPT ![o][k] = msg]
              /\ \A y \in CommandTypes : wire'[o][y] = IF y = k THEN msg ELSE wire[o][y]
<1>1. PICK msg : msg = IF Awaited(o, k) THEN [pc |-> "reply", out |-> out] ELSE IdleWire
    OBVIOUS
<1>2. [pc |-> "reply", out |-> out] \in WireState /\ IdleWire \in WireState /\ IdleWire.pc = "idle"
    BY RowFacts DEF WireState, IdleWire
<1>3. msg \in WireState /\ msg.pc # "request" /\ (msg.pc = "reply" => msg.out = out)
    BY <1>1, <1>2
<1>4. wire' = [wire EXCEPT ![o][k] = msg]
    BY <1>1 DEF Reply
<1>5. wire \in [Orders -> [CommandTypes -> WireState]]
    BY DEF Inv, OMSTypeOK
<1>6. \A y \in CommandTypes : wire'[o][y] = IF y = k THEN msg ELSE wire[o][y]
    BY <1>3, <1>4, <1>5, NestedUpdate
<1> QED BY <1>3, <1>4, <1>6

(* A submission arrives: it is the only one, so the venue has no such order *)
(* yet, and after a refusal it never will.                                  *)
LEMMA VenueSubmitTruth ==
    ASSUME Inv, Truth, NEW o \in Orders, VenueSubmit(o)
    PROVE  Truth'
<1>0. /\ UNCHANGED <<orders, cmds, worker, recon, sent>> /\ "SUBMIT" \in CommandTypes
      /\ wire[o]["SUBMIT"].pc = "request"
    BY DEF VenueSubmit, CommandTypes
<1>1. sent[o] = 1 /\ venue[o].status = "NONE" /\ ~Over(o) /\ venue[o] \in VenueRow
    BY <1>0 DEF Truth, Requested, Over, Inv, OMSTypeOK
<1>2. ASSUME NEW row \in VenueRow, NEW out \in Outcome, venue' = [venue EXCEPT ![o] = row],
             Reply(o, "SUBMIT", out),
             \/ out.kind = "REJECT" /\ row = venue[o]
             \/ /\ out.kind = "ACK" /\ out.status = row.status /\ out.filled = row.filled
                /\ row.status \in {"SUBMITTED", "PARTIALLY_FILLED", "FILLED", "EXPIRED"}
      PROVE  Truth'
    <2>1. PICK msg \in WireState :
              /\ msg.pc # "request" /\ (msg.pc = "reply" => msg.out = out)
              /\ wire' = [wire EXCEPT ![o]["SUBMIT"] = msg]
              /\ wire'[o]["SUBMIT"] = msg
        BY <1>0, <1>2, ReplyTruth
    <2>2. venue'[o] = row
        BY <1>2 DEF Inv, OMSTypeOK
    <2>3. row.status \notin VenueLive => Over(o)'
        BY <1>0, <1>1, <2>1, <2>2, OverNow
    <2>4. Grounded(o, "SUBMIT", out)'
        <3>1. CASE out.kind = "REJECT" /\ row = venue[o]
            <4>1. Written("SUBMIT", out) = "REJECTED"
                BY <3>1, WrittenFacts
            <4>2. Over(o)' /\ venue'[o].status = "NONE"
                BY <1>1, <2>2, <2>3, <3>1 DEF VenueLive
            <4>3. \A f : Backs(o, "REJECTED", f)'
                BY <4>2 DEF Backs, VenueLive
            <4> QED BY <4>1, <4>3 DEF Grounded
        <3>2. CASE /\ out.kind = "ACK" /\ out.status = row.status /\ out.filled = row.filled
                   /\ row.status \in {"SUBMITTED", "PARTIALLY_FILLED", "FILLED", "EXPIRED"}
            <4>1. Written("SUBMIT", out) = row.status
                BY <3>2, WrittenFacts
            <4>2. Backs(o, row.status, row.filled)'
                BY <2>2, <2>3, <3>2 DEF Backs, VenueLive, TERMINAL_OMS_STATUSES
            <4> QED BY <3>2, <4>1, <4>2 DEF Grounded
        <3> QED BY <1>2, <3>1, <3>2
    <2> QED BY <1>0, <1>1, <1>2, <2>1, <2>4, VenueTruth
<1>3. CASE venue' = venue /\ Reply(o, "SUBMIT", [kind |-> "REJECT", status |-> "NONE", filled |-> 0])
    <2>1. PICK row \in VenueRow : row = venue[o]
        BY <1>1
    <2>2. venue' = [venue EXCEPT ![o] = row]
        BY <1>3, <2>1 DEF Inv, OMSTypeOK
    <2> QED BY <1>2, <1>3, <2>1, <2>2, RejectFacts
<1>4. ASSUME NEW row \in PlacedRows,
             venue' = [venue EXCEPT ![o] = row], Reply(o, "SUBMIT", Acked(row))
      PROVE  Truth'
    <2>1. row \in VenueRow /\ row.status \in {"SUBMITTED", "PARTIALLY_FILLED", "FILLED", "EXPIRED"}
        BY PlacedFacts
    <2>2. row = [status |-> row.status, filled |-> row.filled]
          /\ row.status \in OrderStatuses \ {"NONE"} /\ row.filled \in 0..Qty
        BY <2>1, RowFacts DEF VenueRow
    <2>3. Acked(row) \in Outcome
        BY <2>2, AckedFacts
    <2>4. Acked(row).kind = "ACK" /\ Acked(row).status = row.status /\ Acked(row).filled = row.filled
        BY DEF Acked
    <2> QED BY <1>2, <1>4, <2>1, <2>3, <2>4
<1>5. [status |-> "SUBMITTED", filled |-> 0] \in PlacedRows
    BY DEF PlacedRows
<1> QED BY <1>3, <1>4, <1>5 DEF VenueSubmit

(* A cancel arrives.  CANCELED is said only of an order that is.            *)
LEMMA VenueCancelTruth ==
    ASSUME Inv, Truth, NEW o \in Orders, VenueCancel(o)
    PROVE  Truth'
<1>0. /\ UNCHANGED <<orders, cmds, worker, recon, sent>> /\ {"SUBMIT", "CANCEL"} = CommandTypes
      /\ venue[o] \in VenueRow /\ venue \in [Orders -> VenueRow]
    BY DEF VenueCancel, CommandTypes, Inv, OMSTypeOK
<1>1. ASSUME NEW out \in Outcome, venue' = venue, Reply(o, "CANCEL", out),
             Written("CANCEL", out) \in {"UNKNOWN", "CANCEL_PENDING"}
      PROVE  Truth'
    <2>1. PICK msg \in WireState :
              /\ msg.pc # "request" /\ (msg.pc = "reply" => msg.out = out)
              /\ wire' = [wire EXCEPT ![o]["CANCEL"] = msg]
        BY <1>0, <1>1, ReplyTruth
    <2>2. PICK row \in VenueRow : row = venue[o] /\ venue' = [venue EXCEPT ![o] = row]
        BY <1>0, <1>1
    <2>3. msg.pc = "reply" => Grounded(o, "CANCEL", msg.out)'
        BY <1>1, <2>1, SaysNothing DEF Grounded
    <2>4. row.status # "NONE" => sent[o] = 1
        BY <2>2 DEF Truth, Requested
    <2> QED BY <1>0, <2>1, <2>2, <2>3, <2>4, VenueTruth
<1>2. CASE venue' = venue /\ Reply(o, "CANCEL", [kind |-> "REJECT", status |-> "NONE", filled |-> 0])
    <2>1. PICK out \in Outcome : out = [kind |-> "REJECT", status |-> "NONE", filled |-> 0]
        BY RejectFacts
    <2>2. Written("CANCEL", out) = "UNKNOWN"
        BY <2>1, WrittenFacts
    <2> QED BY <1>1, <1>2, <2>1, <2>2
<1>3. CASE /\ venue' = venue
           /\ Reply(o, "CANCEL", Acked([status |-> "CANCEL_PENDING",
                                        filled |-> wire[o]["CANCEL"].out.filled]))
    <2>1. wire[o]["CANCEL"] \in WireState /\ "CANCEL_PENDING" \in OrderStatuses \ {"NONE"}
        BY <1>0 DEF Inv, OMSTypeOK, OrderStatuses
    <2>2. PICK f \in 0..Qty : f = wire[o]["CANCEL"].out.filled
        BY <2>1 DEF WireState, Outcome
    <2>3. PICK out \in Outcome : out = Acked([status |-> "CANCEL_PENDING", filled |-> f])
        BY <2>1, AckedFacts
    <2>4. Written("CANCEL", out) = "CANCEL_PENDING"
        BY <2>3, WrittenFacts DEF Acked
    <2> QED BY <1>1, <1>3, <2>2, <2>3, <2>4
<1>4. CASE /\ venue' = [venue EXCEPT ![o].status = "CANCELED"] /\ venue[o].status \in VenueLive
           /\ Reply(o, "CANCEL", Acked([status |-> "CANCELED", filled |-> venue[o].filled]))
    <2>1. PICK f \in 0..Qty : f = venue[o].filled
        BY <1>0 DEF VenueRow
    <2>2. PICK out \in Outcome : out = Acked([status |-> "CANCELED", filled |-> f])
        BY AckedFacts DEF OrderStatuses, TERMINAL_OMS_STATUSES
    <2>3. PICK row : row = [venue[o] EXCEPT !.status = "CANCELED"]
        OBVIOUS
    <2>4. row \in VenueRow /\ row.status = "CANCELED" /\ row.filled = f
        BY <1>0, <2>1, <2>3 DEF VenueRow, VenueStatuses
    <2>5. venue' = [venue EXCEPT ![o] = row] /\ venue'[o] = row
        BY <1>0, <1>4, <2>3
    <2>6. PICK msg \in WireState :
              /\ msg.pc # "request" /\ (msg.pc = "reply" => msg.out = out)
              /\ wire' = [wire EXCEPT ![o]["CANCEL"] = msg]
              /\ wire'[o]["SUBMIT"] = wire[o]["SUBMIT"]
        BY <1>0, <1>4, <2>1, <2>2, ReplyTruth
    <2>7. ~Over(o) /\ sent[o] = 1 /\ wire[o]["SUBMIT"].pc # "request"
        BY <1>4 DEF Over, Truth, Requested, VenueLive
    <2>8. Over(o)'
        BY <1>0, <2>4, <2>5, <2>6, <2>7, OverNow DEF VenueLive
    <2>9. Written("CANCEL", out) = "CANCELED" /\ out.filled = f
        BY <2>2, WrittenFacts DEF Acked
    <2>10. Backs(o, "CANCELED", f)'
        BY <2>4, <2>5, <2>8 DEF Backs, VenueLive
    <2>11. Grounded(o, "CANCEL", out)'
        BY <2>9, <2>10 DEF Grounded
    <2> QED BY <1>0, <2>4, <2>5, <2>6, <2>7, <2>11, VenueTruth
<1> QED BY <1>2, <1>3, <1>4 DEF VenueCancel

(* A live order trades or ends.                                             *)
LEMMA VenueOwnTruth ==
    ASSUME Inv, Truth, NEW o \in Orders, VenueFill(o) \/ VenueClose(o)
    PROVE  Truth'
<1>0. /\ UNCHANGED <<orders, cmds, worker, recon, wire, sent>> /\ "SUBMIT" \in CommandTypes
      /\ venue[o] \in VenueRow /\ venue \in [Orders -> VenueRow] /\ venue[o].status \in VenueLive
      /\ venue[o].filled < Qty /\ IdleWire \in WireState /\ IdleWire.pc = "idle"
    BY RowFacts DEF VenueFill, VenueClose, CommandTypes, Inv, OMSTypeOK, Shape, IdleWire
<1>1. ~Over(o) /\ sent[o] = 1 /\ wire[o]["SUBMIT"].pc # "request"
    BY <1>0 DEF Over, Truth, Requested, VenueLive
<1>2. ASSUME NEW row \in VenueRow, row.status # "NONE", venue' = [venue EXCEPT ![o] = row]
      PROVE  Truth'
    BY <1>0, <1>1, <1>2, VenueTruth
<1>3. CASE VenueFill(o)
    <2>1. PICK row : row = [status |-> IF venue[o].filled + 1 = Qty THEN "FILLED"
                                       ELSE "PARTIALLY_FILLED",
                            filled |-> venue[o].filled + 1]
        OBVIOUS
    <2>2. row \in VenueRow /\ row.status # "NONE"
        BY <1>0, <2>1, OMSAssumption DEF VenueRow, VenueStatuses
    <2>3. venue' = [venue EXCEPT ![o] = row]
        BY <1>0, <1>3, <2>1 DEF VenueFill
    <2> QED BY <1>2, <2>2, <2>3
<1>4. CASE VenueClose(o)
    <2>1. PICK s \in {"CANCELED", "EXPIRED", "REJECTED"} : venue' = [venue EXCEPT ![o].status = s]
        BY <1>4 DEF VenueClose
    <2>2. PICK row : row = [venue[o] EXCEPT !.status = s]
        OBVIOUS
    <2>3. row \in VenueRow /\ row.status # "NONE"
        BY <1>0, <2>2 DEF VenueRow, VenueStatuses
    <2>4. venue' = [venue EXCEPT ![o] = row]
        BY <1>0, <2>1, <2>2
    <2> QED BY <1>2, <2>3, <2>4
<1> QED BY <1>3, <1>4

(* A request is lost, a lease runs out.                                     *)
LEMMA NetworkTruth ==
    ASSUME Inv, Truth, NEW o \in Orders, NEW k \in CommandTypes, ExpireLease(o, k) \/ LoseRequest(o, k)
    PROVE  Truth'
<1>1. CASE ExpireLease(o, k)
    <2> DEFINE row == [cmds[o][k] EXCEPT !.expired = TRUE]
    <2>1. cmds[o][k] \in CommandRow /\ cmds \in [Orders -> [CommandTypes -> CommandRow]]
        BY DEF Inv, OMSTypeOK
    <2>2. row \in CommandRow /\ row.attempts = cmds[o][k].attempts
        BY <2>1, CommandFacts DEF CommandRow
    <2>3. /\ cmds' = [cmds EXCEPT ![o][k] = row]
          /\ UNCHANGED <<orders, worker, recon, wire, venue, sent>>
        BY <1>1 DEF ExpireLease
    <2> HIDE DEF row
    <2>4. \A x \in Orders : \A y \in CommandTypes :
              cmds'[x][y] = IF x = o /\ y = k THEN row ELSE cmds[x][y]
        BY <2>1, <2>2, <2>3, NestedUpdate
    <2>5. \A x \in Orders : cmds'[x]["SUBMIT"].attempts = cmds[x]["SUBMIT"].attempts
        BY <2>2, <2>4 DEF CommandTypes
    <2>6. \A x \in Orders : Forward(x)
        BY <2>3, <2>5, Untouched DEF AboutToSubmit
    <2> QED BY <2>3, <2>6, RowsStep
<1>2. CASE LoseRequest(o, k)
    <2>1. /\ wire' = [wire EXCEPT ![o][k] = IdleWire]
          /\ UNCHANGED <<orders, cmds, worker, recon, venue, sent>>
        BY <1>2 DEF LoseRequest
    <2>2. IdleWire \in WireState /\ IdleWire.pc = "idle"
        BY RowFacts DEF IdleWire
    <2>3. PICK row \in VenueRow : row = venue[o] /\ venue' = [venue EXCEPT ![o] = row]
        BY <2>1 DEF Inv, OMSTypeOK
    <2>4. row.status # "NONE" => sent[o] = 1
        BY <2>3 DEF Truth, Requested
    <2> QED BY <2>1, <2>2, <2>3, <2>4, VenueTruth
<1> QED BY <1>1, <1>2

(* At the start nothing is claimed.                                         *)
LEMMA InitTruth == Init => Truth
<1> SUFFICES ASSUME Init PROVE Truth
    OBVIOUS
<1>1. /\ \A o \in Orders : /\ orders[o].status = "NONE" /\ venue[o].status = "NONE"
                           /\ \A k \in CommandTypes : wire[o][k].pc = "idle"
      /\ \A p \in Procs : worker[p].pc = "idle" /\ recon[p].pc = "idle"
    BY DEF Init, NoRow, NoVenue, IdleWire, IdleWorker, IdleRecon
<1>2. \A o \in Orders : Requested(o) /\ Backs(o, orders[o].status, orders[o].filled)
    BY <1>1, SaysNothing DEF Requested, CommandTypes
<1> QED BY <1>1, <1>2 DEF Truth, ReconGrounded

(* Every step keeps Truth.                                                  *)
LEMMA TruthKept ==
    ASSUME Inv, Truth, [Next]_vars
    PROVE  Truth'
<1>1. ASSUME UNCHANGED omsVars PROVE Truth'
    <2>1. \A o \in Orders : Forward(o)
        BY <1>1, CommandsKept DEF omsVars, AboutToSubmit
    <2> QED BY <1>1, <2>1, RowsStep DEF omsVars
<1>2. ASSUME NEW p \in Procs, ProcStep(p) PROVE Truth'
    BY <1>1, <1>2, QuietTruth, CreateTruth, ClaimTruth, DispatchTruth, AnswerTruth, TimeoutTruth,
       FinishTruth, QueueCancelTruth, ReconReadTruth, ReconFetchTruth, ReconDetailsTruth,
       ReconPersistTruth
       DEF ProcStep, WorkerStep
<1>3. ASSUME NEW o \in Orders, VenueStep(o) PROVE Truth'
    BY <1>3, VenueSubmitTruth, VenueCancelTruth, VenueOwnTruth, NetworkTruth DEF VenueStep
<1> QED BY <1>1, <1>2, <1>3 DEF Next, vars

(* Truth is an invariant of the specification.                              *)
LEMMA TruthInvariant == Spec => [](Inv /\ Truth)
<1>1. Inv /\ Truth /\ [Next]_vars => Truth'
    BY TruthKept
<1> QED BY <1>1, InitTruth, Invariance, PTL DEF Spec

(* Whatever may still trade, at the venue or on its way there, has a row    *)
(* that reserves its notional, although dispatch_once, the sweep and        *)
(* persist_reconciliation write rows from what they heard or read earlier.  *)
THEOREM LiveIsReserved == Spec => []LiveOrdersAreReserved
<1>1. ASSUME Inv, Truth PROVE LiveOrdersAreReserved
    <2> SUFFICES ASSUME NEW o \in Orders,
                        venue[o].status \in VenueLive \/ wire[o]["SUBMIT"].pc = "request"
                 PROVE  orders[o].status # "NONE" /\ ~Terminal(orders[o])
        BY DEF LiveOrdersAreReserved
    <2>1. sent[o] = 1 /\ ~Over(o)
        BY <1>1 DEF Truth, Requested, Over, VenueLive
    <2>2. ~Terminal(orders[o])
        BY <1>1, <2>1 DEF Truth, Backs, Terminal
    <2>3. orders[o].status # "NONE"
        BY <1>1, <2>1 DEF Inv, SubmitOnce
    <2> QED BY <2>2, <2>3
<1> QED BY <1>1, TruthInvariant, PTL

(* A terminal row tells the truth about the venue: dispatch_once and        *)
(* persist_reconciliation write only what the venue bears out, and what     *)
(* they heard of an order that ended stays true.                            *)
THEOREM TerminalRowsAreTrue == Spec => []TerminalRowsAgree
<1>1. ASSUME Inv, Truth PROVE TerminalRowsAgree
    <2> SUFFICES ASSUME NEW o \in Orders
                 PROVE  /\ orders[o].status \in {"FILLED", "CANCELED", "EXPIRED"} =>
                              venue[o] = [status |-> orders[o].status, filled |-> orders[o].filled]
                        /\ orders[o].status = "REJECTED" => venue[o].status \in {"NONE", "REJECTED"}
                        /\ orders[o].status = "QUARANTINED" => sent[o] = 0
        BY DEF TerminalRowsAgree
    <2>1. Backs(o, orders[o].status, orders[o].filled)
        BY <1>1 DEF Truth
    <2>2. venue[o] \in VenueRow
        BY <1>1 DEF Inv, OMSTypeOK
    <2>3. venue[o] = [status |-> venue[o].status, filled |-> venue[o].filled]
        BY <2>2 DEF VenueRow
    <2> QED BY <2>1, <2>3 DEF Backs
<1> QED BY <1>1, TruthInvariant, PTL

(* Reconciliation raises no false alarm about orders it has read            *)
(* (_compare_orders), whatever is written between its reads.                *)
THEOREM AlarmsAreJustified == Spec => []NoFalseAlarm
<1>1. ASSUME Inv, Truth PROVE NoFalseAlarm
    <2> SUFFICES ASSUME NEW p \in Procs, NEW o \in Orders, recon[p].pc = "persist"
                 PROVE  /\ ~TerminalContradiction(recon[p], o)
                        /\ MissingAtVenue(recon[p], o) =>
                              recon[p].local[o].status \in {"UNKNOWN", "CANCEL_PENDING"}
        BY DEF NoFalseAlarm
    <2>1. /\ Terminal(recon[p].local[o]) => recon[p].snap[o].status \notin VenueLive
          /\ recon[p].local[o].status \in VenueLive => recon[p].snap[o].status # "NONE"
        BY <1>1 DEF Truth, ReconGrounded
    <2>2. recon[p] \in ReconState
        BY <1>1 DEF Inv, OMSTypeOK
    <2>3. recon[p].local[o] \in OrderRow
        BY <2>2 DEF ReconState
    <2>4. recon[p].local[o].status \in OrderStatuses
        BY <2>3 DEF OrderRow
    <2> QED BY <2>1, <2>4 DEF TerminalContradiction, MissingAtVenue, VenueLive, OrderStatuses
<1> QED BY <1>1, TruthInvariant, PTL

=============================================================================
