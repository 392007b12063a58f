--------------------------------- MODULE OMS ---------------------------------
(***************************************************************************)
(* The TESTNET order-management system: durable orders and execution       *)
(* commands, the worker that dispatches commands to a venue, operator      *)
(* cancellation, the reconciliation worker, and the venue.  Composes       *)
(* KillSwitch.                                                             *)
(*                                                                         *)
(*   oms/service.py         OMSService                                     *)
(*   oms/reconciliation.py  ReconciliationService                          *)
(*   repository.py          create_oms_order, claim_execution_command,     *)
(*                          finish_execution_command, queue_cancel_command,*)
(*                          persist_reconciliation                         *)
(*   execution/adapters     what the adapters make of a venue's answer     *)
(*   20260720143646_*.sql   guard_oms_order_transition                     *)
(*                                                                         *)
(* An order is named by its approval (oms_order_id is a hash of it), so at *)
(* most one order per approval is the uniqueness of the name.  Prices and  *)
(* quantities are abstracted to how many of Qty lots are filled; a venue   *)
(* order is recognised by its client_order_id, which is the order itself.  *)
(* Time is abstracted to "this lease has expired".                         *)
(***************************************************************************)
EXTENDS KillSwitch

CONSTANTS
    Orders,        \* order identities
    None,          \* no order
    Qty,           \* lots per order
    Exchange,      \* "BINANCE" or "BYBIT": which adapter is configured
    Workers,       \* processes that run the OMS worker
    Reconcilers,   \* processes that run reconciliation
    Cancellers,    \* processes whose cancel route is used
    MayReconfigure \* may a restart select another exchange?

ASSUME OMSAssumption ==
    /\ None \notin Orders
    /\ Qty \in Nat \ {0}
    /\ Exchange \in {"BINANCE", "BYBIT"}
    /\ Workers \subseteq Procs
    /\ Reconcilers \subseteq Procs
    /\ Cancellers \subseteq Procs
    /\ MayReconfigure \in BOOLEAN

VARIABLES
    orders,   \* oms_orders rows
    cmds,     \* execution_commands rows, one per order and type
    adapter,  \* does the process hold the adapter of these orders' exchange?
    creating, \* the order consume_oms_approval is about to commit
    worker,   \* OMSService.dispatch_once in progress
    cancel,   \* OMSService.queue_cancel in progress
    recon,    \* ReconciliationService.reconcile_once in progress
    wire,     \* HTTP writes between the workers and the venue
    venue,    \* the venue's own book
    sent      \* history: SUBMIT requests ever handed to the transport

dbVars  == <<orders, cmds>>
omsVars == <<orders, cmds, adapter, creating, worker, cancel, recon, wire, venue, sent>>
vars    == <<switchVars, omsVars>>

-----------------------------------------------------------------------------
CommandTypes == {"SUBMIT", "CANCEL"}

TERMINAL_OMS_STATUSES == {"FILLED", "CANCELED", "REJECTED", "EXPIRED", "QUARANTINED"}

(* "NONE" is a row that does not exist.  CREATED exists in the schema but   *)
(* no code writes it.                                                       *)
OrderStatuses ==
    {"NONE", "PENDING_SUBMISSION", "SUBMITTED", "PARTIALLY_FILLED",
     "CANCEL_PENDING", "UNKNOWN"} \cup TERMINAL_OMS_STATUSES

(* What the adapters' status tables can return for a venue order.           *)
VenueStatuses ==
    {"NONE", "SUBMITTED", "PARTIALLY_FILLED", "FILLED", "CANCELED", "REJECTED", "EXPIRED"}

VenueFinal == {"FILLED", "CANCELED", "REJECTED", "EXPIRED"}
VenueLive  == {"SUBMITTED", "PARTIALLY_FILLED"}

OrderRow   == [status: OrderStatuses, ver: Nat, vid: BOOLEAN, filled: 0..Qty]
CommandRow == [status: {"NONE", "PENDING", "LEASED", "COMPLETED", "DEAD_LETTER"},
               attempts: 0..1, expired: BOOLEAN]
VenueRow   == [status: VenueStatuses, filled: 0..Qty]

(* The result of an adapter call, or of a branch that makes none.           *)
Outcome == [kind: {"NONE", "ACK", "REJECT", "IDENTITY", "AMBIGUOUS",
                   "QUARANTINE", "NO_ADAPTER"},
            status: OrderStatuses, filled: 0..Qty]

NoRow     == [status |-> "NONE", ver |-> 0, vid |-> FALSE, filled |-> 0]
NoCommand == [status |-> "NONE", attempts |-> 0, expired |-> FALSE]
NoVenue   == [status |-> "NONE", filled |-> 0]
NoOutcome == [kind |-> "NONE", status |-> "NONE", filled |-> 0]

IdleWorker == [pc |-> "idle", o |-> None, k |-> "SUBMIT", copy |-> NoRow, out |-> NoOutcome]
IdleCancel == [pc |-> "idle", o |-> None, ver |-> 0]
IdleRecon  == [pc |-> "idle", critical |-> FALSE,
               local |-> [o \in Orders |-> NoRow], snap |-> [o \in Orders |-> NoVenue]]
IdleWire   == [pc |-> "idle", out |-> NoOutcome]

WorkerState == [pc: {"idle", "claimed", "waiting", "finish", "after"},
                o: Orders \cup {None}, k: CommandTypes, copy: OrderRow, out: Outcome]
CancelState == [pc: {"idle", "write"}, o: Orders \cup {None}, ver: Nat]
ReconState  == [pc: {"idle", "fetch", "details", "persist", "after"}, critical: BOOLEAN,
                local: [Orders -> OrderRow], snap: [Orders -> VenueRow]]
WireState   == [pc: {"idle", "request", "reply"}, out: Outcome]

Terminal(row) == row.status \in TERMINAL_OMS_STATUSES

Init ==
    /\ SwitchInit
    /\ orders = [o \in Orders |-> NoRow]
    /\ cmds = [o \in Orders |-> [k \in CommandTypes |-> NoCommand]]
    /\ adapter = [p \in Procs |-> TRUE]
    /\ creating = [p \in Procs |-> None]
    /\ worker = [p \in Procs |-> IdleWorker]
    /\ cancel = [p \in Procs |-> IdleCancel]
    /\ recon = [p \in Procs |-> IdleRecon]
    /\ wire = [o \in Orders |-> [k \in CommandTypes |-> IdleWire]]
    /\ venue = [o \in Orders |-> NoVenue]
    /\ sent = [o \in Orders |-> 0]

-----------------------------------------------------------------------------
(* Processes                                                                *)

(* build_context creates only the adapter the configuration selects.        *)
BootOMS(p) ==
    /\ Boot(p)
    /\ \E b \in (IF MayReconfigure THEN BOOLEAN ELSE {TRUE}) :
          adapter' = [adapter EXCEPT ![p] = b]
    /\ UNCHANGED <<orders, cmds, creating, worker, cancel, recon, wire, venue, sent>>

CrashOMS(p) ==
    /\ Crash(p)
    /\ creating' = [creating EXCEPT ![p] = None]
    /\ worker' = [worker EXCEPT ![p] = IdleWorker]
    /\ cancel' = [cancel EXCEPT ![p] = IdleCancel]
    /\ recon' = [recon EXCEPT ![p] = IdleRecon]
    /\ UNCHANGED <<orders, cmds, adapter, wire, venue, sent>>

(* A task that failed closed: "if not kill_switch_active: trigger".         *)
FailClosed(p, t, failed) ==
    /\ IF failed /\ ~Killed(p) THEN StartTrigger(p, t) ELSE UNCHANGED call
    /\ UNCHANGED <<control, up, smState, smKill, memControl, crashes>>

-----------------------------------------------------------------------------
(* Creation                                                                 *)

(* submit_approved and consume_oms_approval up to the transaction.          *)
BeginCreate(p, o) ==
    /\ up[p] = "up" /\ adapter[p]
    /\ creating[p] = None
    /\ orders[o].status = "NONE"
    /\ ~Killed(p)
    /\ creating' = [creating EXCEPT ![p] = o]
    /\ UNCHANGED <<switchVars, orders, cmds, adapter, worker, cancel, recon, wire, venue, sent>>

(* create_oms_order: one transaction consumes the approval, inserts the     *)
(* order at version 1 and its SUBMIT command; an existing order is returned *)
(* unchanged and an active control row, or anything else wrong with the     *)
(* approval, raises.                                                        *)
CreateOrder(p) ==
    LET o == creating[p] IN
    /\ o # None
    /\ creating' = [creating EXCEPT ![p] = None]
    /\ \/ /\ orders[o].status = "NONE"
          /\ ~control.active
          /\ orders' = [orders EXCEPT
                ![o] = [status |-> "PENDING_SUBMISSION", ver |-> 1,
                        vid |-> FALSE, filled |-> 0]]
          /\ cmds' = [cmds EXCEPT
                ![o]["SUBMIT"] = [status |-> "PENDING", attempts |-> 0, expired |-> FALSE]]
       \/ UNCHANGED dbVars
    /\ UNCHANGED <<switchVars, adapter, worker, cancel, recon, wire, venue, sent>>

-----------------------------------------------------------------------------
(* The worker                                                               *)

(* A lease outlives lease_seconds.                                          *)
ExpireLease(o, k) ==
    /\ cmds[o][k].status = "LEASED"
    /\ ~cmds[o][k].expired
    /\ cmds' = [cmds EXCEPT ![o][k].expired = TRUE]
    /\ UNCHANGED <<switchVars, orders, adapter, creating, worker, cancel, recon,
                   wire, venue, sent>>

(* Mutant: the sweep looks for attempts left instead of attempts used up.   *)
StaleRetryable(o, k) ==
    cmds[o][k].status = "LEASED" /\ cmds[o][k].expired /\ cmds[o][k].attempts < 1

Stale(o, k) == cmds[o][k].status = "LEASED" /\ cmds[o][k].expired

(* First half of claim_execution_command: commands whose only attempt has   *)
(* expired become DEAD_LETTER, their orders UNKNOWN unless terminal.  When  *)
(* both commands of an order are stale the order advances once for each.    *)
SweptOrders ==
    [o \in Orders |->
        IF Terminal(orders[o]) \/ ~(\E k \in CommandTypes : Stale(o, k))
        THEN orders[o]
        ELSE [orders[o] EXCEPT !.status = "UNKNOWN",
                !.ver = @ + (IF \A k \in CommandTypes : Stale(o, k) THEN 2 ELSE 1)]]

(* Mutant: an expired lease puts the command back into the queue.           *)
RequeuedCommands ==
    [o \in Orders |-> [k \in CommandTypes |->
        IF Stale(o, k) THEN [status |-> "PENDING", attempts |-> 0, expired |-> FALSE]
                       ELSE cmds[o][k]]]

SweptCommands ==
    [o \in Orders |-> [k \in CommandTypes |->
        IF Stale(o, k) THEN [cmds[o][k] EXCEPT !.status = "DEAD_LETTER", !.expired = FALSE]
                       ELSE cmds[o][k]]]

(* The second half: one pending command is leased, if there is one.         *)
Leased(o, k) ==
    /\ cmds[o][k].status = "PENDING"
    /\ cmds[o][k].attempts < 1
    /\ cmds' = [SweptCommands EXCEPT
          ![o][k] = [status |-> "LEASED", attempts |-> cmds[o][k].attempts + 1,
                     expired |-> FALSE]]

NothingToLease ==
    /\ \A o \in Orders, k \in CommandTypes : cmds[o][k].status # "PENDING"
    /\ cmds' = SweptCommands

MayClaim(p) ==
    /\ p \in Workers /\ up[p] = "up"
    /\ worker[p].pc = "idle" /\ call[p]["worker"].pc = "idle"

(* claim_execution_command: the sweep, then one lease.  Neither the order's *)
(* status nor the switch is looked at.  The rows are ordered by the clocks  *)
(* of the processes that queued them, so any pending command may be first.  *)
Claim(p) ==
    /\ MayClaim(p)
    /\ orders' = SweptOrders
    /\ \/ \E o \in Orders, k \in CommandTypes :
            /\ Leased(o, k)
            /\ worker' = [worker EXCEPT
                  ![p] = [pc |-> "claimed", o |-> o, k |-> k,
                          copy |-> SweptOrders[o], out |-> NoOutcome]]
       \/ /\ \E o \in Orders, k \in CommandTypes : Stale(o, k)
          /\ NothingToLease
          /\ UNCHANGED worker
    /\ UNCHANGED <<switchVars, adapter, creating, cancel, recon, wire, venue, sent>>

(* The claim raises, before or after its commit: run() fails closed, and a  *)
(* lease it took is nobody's.                                               *)
ClaimFails(p) ==
    /\ PersistenceFails
    /\ MayClaim(p)
    /\ \/ UNCHANGED <<orders, cmds>>
       \/ /\ orders' = SweptOrders
          /\ NothingToLease \/ \E o \in Orders, k \in CommandTypes : Leased(o, k)
    /\ FailClosed(p, "worker", TRUE)
    /\ UNCHANGED <<adapter, creating, worker, cancel, recon, wire, venue, sent>>

(* dispatch_once between the claim and the adapter call, on the in-process  *)
(* flag: no adapter, quarantine, or hand the request to the transport.      *)
Dispatch(p) ==
    LET w == worker[p]
        Settle(kind) == worker' = [worker EXCEPT ![p].pc = "finish", ![p].out.kind = kind]
    IN
    /\ w.pc = "claimed"
    /\ \/ /\ ~adapter[p]
          /\ Settle("NO_ADAPTER")
          /\ UNCHANGED <<wire, sent>>
       \/ /\ adapter[p] /\ w.k = "SUBMIT" /\ Killed(p)
          /\ Settle("QUARANTINE")
          /\ UNCHANGED <<wire, sent>>
       \/ /\ adapter[p] /\ ~(w.k = "SUBMIT" /\ Killed(p))
          /\ worker' = [worker EXCEPT ![p].pc = "waiting"]
          /\ wire' = [wire EXCEPT ![w.o][w.k] =
                [pc |-> "request", out |-> [NoOutcome EXCEPT !.filled = w.copy.filled]]]
          /\ sent' = IF w.k = "SUBMIT" THEN [sent EXCEPT ![w.o] = @ + 1] ELSE sent
    /\ UNCHANGED <<switchVars, orders, cmds, adapter, creating, cancel, recon, venue>>

(* The answer arrives.  _apply_venue_snapshot compares identities: the      *)
(* Binance adapter prefers a cancel answer's clientOrderId over its         *)
(* origClientOrderId, so a cancel answer may fail the comparison.           *)
Answer(p) ==
    LET w == worker[p] IN
    /\ w.pc = "waiting"
    /\ wire[w.o][w.k].pc = "reply"
    /\ \/ worker' = [worker EXCEPT ![p].pc = "finish", ![p].out = wire[w.o][w.k].out]
       \/ /\ Exchange = "BINANCE" /\ w.k = "CANCEL" /\ wire[w.o][w.k].out.kind = "ACK"
          /\ worker' = [worker EXCEPT ![p].pc = "finish", ![p].out.kind = "IDENTITY"]
    /\ wire' = [wire EXCEPT ![w.o][w.k] = IdleWire]
    /\ UNCHANGED <<switchVars, orders, cmds, adapter, creating, cancel, recon, venue, sent>>

(* Timeout, transport error or HTTP 5xx around a write: ambiguous.  The     *)
(* request may still be on its way.                                         *)
Timeout(p) ==
    LET w == worker[p] IN
    /\ w.pc = "waiting"
    /\ worker' = [worker EXCEPT ![p].pc = "finish", ![p].out.kind = "AMBIGUOUS"]
    /\ wire' = IF wire[w.o][w.k].pc = "reply"
               THEN [wire EXCEPT ![w.o][w.k] = IdleWire] ELSE wire
    /\ UNCHANGED <<switchVars, orders, cmds, adapter, creating, cancel, recon, venue, sent>>

(* Mutant: a rejected cancel gets a status of its own.                      *)
UpdatedCancelRejected(w) ==
    LET row == [w.copy EXCEPT !.ver = @ + 1] IN
    CASE w.out.kind = "ACK" ->
            [row EXCEPT !.status = w.out.status, !.vid = TRUE, !.filled = w.out.filled]
      [] w.out.kind = "QUARANTINE" -> [row EXCEPT !.status = "QUARANTINED"]
      [] w.out.kind = "REJECT" /\ w.k = "SUBMIT" -> [row EXCEPT !.status = "REJECTED"]
      [] w.out.kind = "REJECT" /\ w.k = "CANCEL" -> [row EXCEPT !.status = "CANCEL_REJECTED"]
      [] OTHER -> [row EXCEPT !.status = "UNKNOWN"]

(* Mutant: a submission that timed out is taken for a rejected one.         *)
UpdatedTimeoutRejects(w) ==
    LET row == [w.copy EXCEPT !.ver = @ + 1] IN
    CASE w.out.kind = "ACK" ->
            [row EXCEPT !.status = w.out.status, !.vid = TRUE, !.filled = w.out.filled]
      [] w.out.kind = "QUARANTINE" -> [row EXCEPT !.status = "QUARANTINED"]
      [] w.out.kind \in {"REJECT", "AMBIGUOUS"} /\ w.k = "SUBMIT" ->
            [row EXCEPT !.status = "REJECTED"]
      [] OTHER -> [row EXCEPT !.status = "UNKNOWN"]

(* The copy dispatch_once writes back, from the row it claimed.             *)
Updated(w) ==
    LET row == [w.copy EXCEPT !.ver = @ + 1] IN
    CASE w.out.kind = "ACK" ->
            [row EXCEPT !.status = w.out.status, !.vid = TRUE, !.filled = w.out.filled]
      [] w.out.kind = "QUARANTINE" -> [row EXCEPT !.status = "QUARANTINED"]
      [] w.out.kind = "REJECT" /\ w.k = "SUBMIT" -> [row EXCEPT !.status = "REJECTED"]
      [] OTHER -> [row EXCEPT !.status = "UNKNOWN"]

(* Mutant: versions are guarded, terminal statuses are not.                 *)
GuardVersionOnly(old, new) == new.ver = old.ver + 1

(* guard_oms_order_transition: one version forward, and never out of a      *)
(* terminal status.                                                         *)
GuardAllows(old, new) == new.ver = old.ver + 1 /\ ~Terminal(old)

(* finish_execution_command.  worker_id is the same constant in every       *)
(* process, so only the command's status tells an owner from a stranger.    *)
MayFinish(w) ==
    /\ cmds[w.o][w.k].status = "LEASED"
    /\ GuardAllows(orders[w.o], Updated(w))

Finish(p) ==
    LET w == worker[p] IN
    /\ w.pc = "finish"
    /\ MayFinish(w)
    /\ orders' = [orders EXCEPT ![w.o] = Updated(w)]
    /\ cmds' = [cmds EXCEPT ![w.o][w.k].status = "COMPLETED", ![w.o][w.k].expired = FALSE]
    /\ worker' = [worker EXCEPT
          ![p] = [IdleWorker EXCEPT !.pc = "after", !.out = [NoOutcome EXCEPT !.kind = w.out.kind]]]
    /\ UNCHANGED <<switchVars, adapter, creating, cancel, recon, wire, venue, sent>>

(* The transaction raised, because the row moved on, the lease was swept or *)
(* the database failed: run() logs and fails closed.  A commit whose answer *)
(* is lost does the same: Finish, then AfterFinish with trouble.            *)
FinishFails(p) ==
    LET w == worker[p] IN
    /\ w.pc = "finish"
    /\ ~MayFinish(w) \/ PersistenceFails
    /\ worker' = [worker EXCEPT ![p] = IdleWorker]
    /\ FailClosed(p, "worker", TRUE)
    /\ UNCHANGED <<orders, cmds, adapter, creating, cancel, recon, wire, venue, sent>>

(* After the commit: no adapter and an identity violation trigger the       *)
(* switch, and so do a failed portfolio refresh or audit record, except     *)
(* after a quarantine, which swallows both.                                 *)
AfterFinish(p) ==
    LET w == worker[p] IN
    /\ w.pc = "after"
    /\ worker' = [worker EXCEPT ![p] = IdleWorker]
    /\ \E trouble \in BOOLEAN :
          /\ trouble => PersistenceFails /\ w.out.kind # "QUARANTINE"
          /\ FailClosed(p, "worker", trouble \/ w.out.kind \in {"NO_ADAPTER", "IDENTITY"})
    /\ UNCHANGED <<orders, cmds, adapter, creating, cancel, recon, wire, venue, sent>>

-----------------------------------------------------------------------------
(* Cancellation                                                             *)

Cancelable == {"SUBMITTED", "PARTIALLY_FILLED", "CANCEL_PENDING", "UNKNOWN"}

(* queue_cancel: the read and its checks; an audit record is awaited before *)
(* the write.                                                               *)
BeginCancel(p, o) ==
    /\ p \in Cancellers /\ up[p] = "up"
    /\ cancel[p].pc = "idle"
    /\ orders[o].status \in Cancelable
    /\ cancel' = [cancel EXCEPT ![p] = [pc |-> "write", o |-> o, ver |-> orders[o].ver]]
    /\ UNCHANGED <<switchVars, orders, cmds, adapter, creating, worker, recon, wire, venue, sent>>

(* queue_cancel_command: nothing if the order has a CANCEL command already; *)
(* an error if the row moved on since the read.                             *)
QueueCancel(p) ==
    LET c == cancel[p] IN
    /\ c.pc = "write"
    /\ cancel' = [cancel EXCEPT ![p] = IdleCancel]
    /\ IF cmds[c.o]["CANCEL"].status = "NONE" /\ orders[c.o].ver = c.ver
       THEN /\ orders' = [orders EXCEPT ![c.o].status = "CANCEL_PENDING", ![c.o].ver = @ + 1]
            /\ cmds' = [cmds EXCEPT
                  ![c.o]["CANCEL"] = [status |-> "PENDING", attempts |-> 0, expired |-> FALSE]]
       ELSE UNCHANGED dbVars
    /\ UNCHANGED <<switchVars, adapter, creating, worker, recon, wire, venue, sent>>

-----------------------------------------------------------------------------
(* Reconciliation                                                           *)

(* reconcile_once, called by run() or by POST /reconciliation/run: the      *)
(* local orders are read first.  Who called matters only when it raises.    *)
ReconRead(p) ==
    /\ p \in Reconcilers /\ up[p] = "up" /\ adapter[p]
    /\ recon[p].pc = "idle" /\ call[p]["recon"].pc = "idle"
    /\ recon' = [recon EXCEPT ![p].pc = "fetch", ![p].local = orders]
    /\ UNCHANGED <<switchVars, orders, cmds, adapter, creating, worker, cancel, wire, venue, sent>>

(* fetch_state's order queries.  Each of them may overwrite what the one    *)
(* before it returned for an order, so an order is seen at one instant.     *)
ReconFetch(p) ==
    /\ recon[p].pc = "fetch"
    /\ recon' = [recon EXCEPT ![p].pc = "details", ![p].snap = venue]
    /\ UNCHANGED <<switchVars, orders, cmds, adapter, creating, worker, cancel, wire, venue, sent>>

(* fetch_state raises: a FAILED run with one critical mismatch is persisted *)
(* and handled.  If that transaction raises too, only run() fails closed.   *)
ReconUnavailable(p) ==
    /\ recon[p].pc \in {"fetch", "details"}
    /\ recon' = [recon EXCEPT ![p] = IdleRecon]
    /\ \E persisted, inRun \in BOOLEAN :
          /\ ~persisted => PersistenceFails
          /\ FailClosed(p, "recon", persisted \/ inRun)
    /\ UNCHANGED <<orders, cmds, adapter, creating, worker, cancel, wire, venue, sent>>

(* Mutant: only orders the venue has acknowledged before are compared.      *)
DriftedAcknowledged(r, o) ==
    LET l == r.local[o]  v == r.snap[o] IN
    /\ l.status # "NONE" /\ v.status # "NONE"
    /\ ~Terminal(l) /\ l.vid
    /\ l.status # v.status \/ l.filled # v.filled

(* _compare_orders: the local copies it corrects ...                        *)
Drifted(r, o) ==
    LET l == r.local[o]  v == r.snap[o] IN
    /\ l.status # "NONE" /\ v.status # "NONE"
    /\ ~Terminal(l)
    /\ l.status # v.status \/ l.filled # v.filled \/ ~l.vid

(* Mutant: the status is corrected, the fill is not.                        *)
CorrectedStatusOnly(r, o) ==
    [status |-> r.snap[o].status, ver |-> r.local[o].ver + 1,
     vid |-> TRUE, filled |-> r.local[o].filled]

Corrected(r, o) ==
    [status |-> r.snap[o].status, ver |-> r.local[o].ver + 1,
     vid |-> TRUE, filled |-> r.snap[o].filled]

(* Mutant: an order that is still waiting for its worker is missed.         *)
MissingEvenIfPending(r, o) ==
    /\ r.snap[o].status = "NONE"
    /\ r.local[o].status \notin {"NONE"} \cup TERMINAL_OMS_STATUSES

(* ... and the mismatches it calls critical.                                *)
MissingAtVenue(r, o) ==
    /\ r.snap[o].status = "NONE"
    /\ r.local[o].status \notin {"NONE", "PENDING_SUBMISSION"} \cup TERMINAL_OMS_STATUSES

TerminalContradiction(r, o) ==
    Terminal(r.local[o]) /\ r.snap[o].status \in VenueLive

Orphan(r, o) == r.local[o].status = "NONE" /\ r.snap[o].status \in VenueLive

Critical(r) ==
    \E o \in Orders : MissingAtVenue(r, o) \/ TerminalContradiction(r, o) \/ Orphan(r, o)

(* A fill at the venue of an order that was not among the local ones.       *)
OrphanFill(r, o) == r.local[o].status = "NONE" /\ venue[o].filled > 0

(* _compare_positions: the venue's position, if it has any, against the     *)
(* corrected local fills.  Bybit only; every order is on its own symbol.    *)
PositionDrift(r) ==
    /\ Exchange = "BYBIT"
    /\ \E o \in Orders : venue[o].filled > 0
    /\ \E o \in Orders :
          venue[o].filled # (IF Drifted(r, o) THEN Corrected(r, o) ELSE r.local[o]).filled

(* fetch_state goes on to the fills and positions, later than the orders.   *)
ReconDetails(p) ==
    LET r == recon[p] IN
    /\ r.pc = "details"
    /\ recon' = [recon EXCEPT ![p].pc = "persist",
          ![p].critical = PositionDrift(r) \/ \E o \in Orders : OrphanFill(r, o)]
    /\ UNCHANGED <<switchVars, orders, cmds, adapter, creating, worker, cancel, wire, venue, sent>>

(* persist_reconciliation writes every corrected order at its next version  *)
(* or, if any of them moved on since the read, nothing at all.              *)
MayPersist(r) ==
    \A o \in Orders : Drifted(r, o) => GuardAllows(orders[o], Corrected(r, o))

ReconPersist(p) ==
    LET r == recon[p] IN
    /\ r.pc = "persist"
    /\ MayPersist(r)
    /\ orders' = [o \in Orders |-> IF Drifted(r, o) THEN Corrected(r, o) ELSE orders[o]]
    /\ recon' = [recon EXCEPT
          ![p] = [IdleRecon EXCEPT !.pc = "after", !.critical = r.critical \/ Critical(r)]]
    /\ UNCHANGED <<switchVars, cmds, adapter, creating, worker, cancel, wire, venue, sent>>

(* An exception (a stale copy or a failed transaction) reaches run(), which *)
(* fails closed, or the HTTP caller, which does not.                        *)
ReconFails(p) ==
    LET r == recon[p] IN
    /\ r.pc = "persist"
    /\ ~MayPersist(r) \/ PersistenceFails
    /\ recon' = [recon EXCEPT ![p] = IdleRecon]
    /\ \E inRun \in BOOLEAN : FailClosed(p, "recon", inRun)
    /\ UNCHANGED <<orders, cmds, adapter, creating, worker, cancel, wire, venue, sent>>

(* The audit record, whose failure triggers; refresh_positions, whose       *)
(* exception skips the rest; and _handle_critical.                          *)
AfterRecon(p) ==
    LET r == recon[p] IN
    /\ r.pc = "after"
    /\ recon' = [recon EXCEPT ![p] = IdleRecon]
    /\ \E auditFails, refreshFails, inRun \in BOOLEAN :
          /\ auditFails \/ refreshFails => PersistenceFails
          /\ FailClosed(p, "recon",
                auditFails \/ (IF refreshFails THEN inRun ELSE r.critical))
    /\ UNCHANGED <<orders, cmds, adapter, creating, worker, cancel, wire, venue, sent>>

-----------------------------------------------------------------------------
(* The venue and the network (external)                                     *)

Awaited(o, k) == \E p \in Procs : worker[p].pc = "waiting" /\ worker[p].o = o /\ worker[p].k = k

(* The venue has processed a request; nobody may be waiting any more.       *)
Reply(o, k, out) ==
    wire' = [wire EXCEPT ![o][k] =
                IF Awaited(o, k) THEN [pc |-> "reply", out |-> out] ELSE IdleWire]

Acked(row) == [kind |-> "ACK", status |-> row.status, filled |-> row.filled]

(* What a market or limit order may be when Binance answers its submission. *)
PlacedRows ==
    {[status |-> "SUBMITTED", filled |-> 0], [status |-> "FILLED", filled |-> Qty]}
        \cup [status: {"PARTIALLY_FILLED"}, filled: 1..Qty-1]
        \cup [status: {"EXPIRED"}, filled: 0..Qty-1]

(* A SUBMIT request arrives.  Binance answers with the order as it stands   *)
(* (newOrderRespType FULL), Bybit with a bare acknowledgement.              *)
VenueSubmit(o) ==
    /\ wire[o]["SUBMIT"].pc = "request"
    /\ \/ /\ venue' = venue
          /\ Reply(o, "SUBMIT", [kind |-> "REJECT", status |-> "NONE", filled |-> 0])
       \/ /\ Exchange = "BINANCE"
          /\ \E row \in PlacedRows :
                /\ venue' = [venue EXCEPT ![o] = row]
                /\ Reply(o, "SUBMIT", Acked(row))
       \/ /\ Exchange = "BYBIT"
          /\ venue' = [venue EXCEPT ![o] = [status |-> "SUBMITTED", filled |-> 0]]
          /\ Reply(o, "SUBMIT", Acked([status |-> "SUBMITTED", filled |-> 0]))
    /\ UNCHANGED <<switchVars, orders, cmds, adapter, creating, worker, cancel, recon, sent>>

(* A CANCEL request arrives.  An order that is not live is refused; Bybit   *)
(* acknowledges first and cancels later, and its adapter repeats the fill   *)
(* it already knew.                                                         *)
VenueCancel(o) ==
    /\ wire[o]["CANCEL"].pc = "request"
    /\ \/ /\ venue[o].status \notin VenueLive
          /\ venue' = venue
          /\ Reply(o, "CANCEL", [kind |-> "REJECT", status |-> "NONE", filled |-> 0])
       \/ /\ venue[o].status \in VenueLive /\ Exchange = "BINANCE"
          /\ venue' = [venue EXCEPT ![o].status = "CANCELED"]
          /\ Reply(o, "CANCEL", Acked([status |-> "CANCELED", filled |-> venue[o].filled]))
       \/ /\ venue[o].status \in VenueLive /\ Exchange = "BYBIT"
          /\ venue' = venue
          /\ Reply(o, "CANCEL", Acked([status |-> "CANCEL_PENDING",
                                       filled |-> wire[o]["CANCEL"].out.filled]))
    /\ UNCHANGED <<switchVars, orders, cmds, adapter, creating, worker, cancel, recon, sent>>

(* A request is lost before it reaches the venue.                           *)
LoseRequest(o, k) ==
    /\ wire[o][k].pc = "request"
    /\ wire' = [wire EXCEPT ![o][k] = IdleWire]
    /\ UNCHANGED <<switchVars, orders, cmds, adapter, creating, worker, cancel, recon, venue, sent>>

(* A live order trades.                                                     *)
VenueFill(o) ==
    /\ venue[o].status \in VenueLive
    /\ venue' = [venue EXCEPT ![o] =
                   [status |-> IF @.filled + 1 = Qty THEN "FILLED" ELSE "PARTIALLY_FILLED",
                    filled |-> @.filled + 1]]
    /\ UNCHANGED <<switchVars, orders, cmds, adapter, creating, worker, cancel, recon, wire, sent>>

(* A live order is canceled, or the unfilled rest of it expires; Bybit may  *)
(* also reject what it had acknowledged.                                    *)
VenueClose(o) ==
    /\ venue[o].status \in VenueLive
    /\ \E s \in {"CANCELED", "EXPIRED", "REJECTED"} :
          /\ s = "REJECTED" => Exchange = "BYBIT" /\ venue[o].filled = 0
          /\ venue' = [venue EXCEPT ![o].status = s]
    /\ UNCHANGED <<switchVars, orders, cmds, adapter, creating, worker, cancel, recon, wire, sent>>

-----------------------------------------------------------------------------
(* OMSService.run: one command at a time.                                   *)
WorkerStep(p) ==
    \/ Claim(p) \/ ClaimFails(p) \/ Dispatch(p) \/ Answer(p) \/ Timeout(p)
    \/ Finish(p) \/ FinishFails(p) \/ AfterFinish(p)

ProcStep(p) ==
    \/ BootOMS(p) \/ CrashOMS(p)
    \/ (\E t \in Tasks : TriggerCommit(p, t) \/ TriggerApply(p, t)) /\ UNCHANGED omsVars
    \/ CreateOrder(p) \/ \E o \in Orders : BeginCreate(p, o)
    \/ WorkerStep(p)
    \/ QueueCancel(p) \/ \E o \in Orders : BeginCancel(p, o)
    \/ ReconRead(p) \/ ReconFetch(p) \/ ReconDetails(p)
    \/ ReconUnavailable(p) \/ ReconPersist(p) \/ ReconFails(p) \/ AfterRecon(p)

VenueStep(o) ==
    \/ VenueSubmit(o) \/ VenueCancel(o) \/ VenueFill(o) \/ VenueClose(o)
    \/ \E k \in CommandTypes : LoseRequest(o, k) \/ ExpireLease(o, k)

Next ==
    \/ SwitchStep /\ UNCHANGED omsVars
    \/ \E p \in Procs : ProcStep(p)
    \/ \E o \in Orders : VenueStep(o)

(* What the scheduling justifies.  A supervisor restarts a dead process;    *)
(* the worker loops for ever; a resumed coroutine runs on and the database  *)
(* answers; an HTTP write is answered or times out; leases run out.         *)
WorkerFairness ==
    /\ \A p \in Procs :
          /\ WF_vars((Restore(p) /\ UNCHANGED omsVars) \/ BootOMS(p))
          /\ \A t \in Tasks :
                WF_vars((TriggerCommit(p, t) \/ TriggerApply(p, t)) /\ UNCHANGED omsVars)
          /\ WF_vars(WorkerStep(p))
    /\ \A o \in Orders, k \in CommandTypes : WF_vars(ExpireLease(o, k))

(* Reconciliation loops for ever too.  Its reads of the venue and its       *)
(* transactions may fail for a while, but not for ever (strong fairness).   *)
ReconFairness ==
    \A p \in Procs :
        /\ WF_vars(ReconRead(p) \/ ReconPersist(p) \/ ReconFails(p) \/ AfterRecon(p))
        /\ SF_vars(ReconFetch(p)) /\ SF_vars(ReconDetails(p)) /\ SF_vars(ReconPersist(p))

(* The venue's side: a request arrives or is lost, a live order ends.       *)
VenueFairness ==
    \A o \in Orders :
        /\ WF_vars(VenueSubmit(o) \/ LoseRequest(o, "SUBMIT"))
        /\ WF_vars(VenueCancel(o) \/ LoseRequest(o, "CANCEL"))
        /\ WF_vars(VenueFill(o) \/ VenueClose(o))

Spec     == Init /\ [][Next]_vars
FairSpec == Spec /\ WorkerFairness /\ ReconFairness /\ VenueFairness

(* The workers alone: nothing is promised about venue or reconciliation.    *)
WorkerSpec == Spec /\ WorkerFairness

-----------------------------------------------------------------------------
(* Every variable holds rows, records and counters of its kind.             *)
TypeOK ==
    /\ SwitchTypeOK
    /\ orders \in [Orders -> OrderRow]
    /\ cmds \in [Orders -> [CommandTypes -> CommandRow]]
    /\ adapter \in [Procs -> BOOLEAN]
    /\ creating \in [Procs -> Orders \cup {None}]
    /\ worker \in [Procs -> WorkerState]
    /\ cancel \in [Procs -> CancelState]
    /\ recon \in [Procs -> ReconState]
    /\ wire \in [Orders -> [CommandTypes -> WireState]]
    /\ venue \in [Orders -> VenueRow]
    /\ sent \in [Orders -> Nat]

(* A SUBMIT request is handed to the transport at most once per order, and  *)
(* so per approval, whatever crashes, leases that expire under a slow       *)
(* worker, and second workers do: max_attempts = 1 and                      *)
(* claim_execution_command, "never blindly retrying a write".               *)
AtMostOneSubmission == \A o \in Orders : sent[o] <= 1

(* An order that may still trade is in a status that reserves its notional: *)
(* while the venue holds it live, or a SUBMIT request is still travelling,  *)
(* the row exists and is not terminal.  _durable_position_exposures drops   *)
(* the reservation of a terminal order.                                     *)
LiveOrdersAreReserved ==
    \A o \in Orders :
        venue[o].status \in VenueLive \/ wire[o]["SUBMIT"].pc = "request"
            => orders[o].status # "NONE" /\ ~Terminal(orders[o])

(* A terminal row tells the truth about the venue: the venue reached the    *)
(* same end with the same fill; a REJECTED order is not there unless as     *)
(* rejected; a QUARANTINED order was never sent.  Dispatch, sweep, cancel   *)
(* and reconciliation all write rows from copies read earlier.              *)
TerminalRowsAgree ==
    \A o \in Orders :
        /\ orders[o].status \in {"FILLED", "CANCELED", "EXPIRED"} =>
              venue[o] = [status |-> orders[o].status, filled |-> orders[o].filled]
        /\ orders[o].status = "REJECTED" => venue[o].status \in {"NONE", "REJECTED"}
        /\ orders[o].status = "QUARANTINED" => sent[o] = 0

(* Once terminal, a row never changes again: not when a queued CANCEL is    *)
(* dispatched for an order that filled meanwhile, not when its lease is     *)
(* swept, not when a reconciliation that read it earlier persists.          *)
TerminalIsFinal ==
    [][\A o \in Orders : Terminal(orders[o]) => orders'[o] = orders[o]]_vars

(* Reconciliation raises no false alarm about orders it has read: a local   *)
(* terminal order is never live at the venue in the same run, and only an   *)
(* order whose submission is in doubt can be missing there.  Both would     *)
(* trigger the kill switch (_compare_orders, _handle_critical).             *)
NoFalseAlarm ==
    \A p \in Procs, o \in Orders :
        recon[p].pc = "persist" =>
            /\ ~TerminalContradiction(recon[p], o)
            /\ MissingAtVenue(recon[p], o) =>
                  recon[p].local[o].status \in {"UNKNOWN", "CANCEL_PENDING"}

(* Every queued command is settled: its single attempt is COMPLETED or, if  *)
(* its worker died, stalled or lost the race for the row, DEAD_LETTER.      *)
CommandsSettle ==
    \A o \in Orders, k \in CommandTypes :
        cmds[o][k].status \in {"PENDING", "LEASED"}
            ~> cmds[o][k].status \in {"COMPLETED", "DEAD_LETTER"}

(* What the venue decided reaches the row: reconciliation repairs lost      *)
(* answers, UNKNOWN rows and rows a failed finish left behind.              *)
VenueOutcomeReachesRow ==
    \A o \in Orders :
        venue[o].status \in VenueFinal ~> orders[o].status = venue[o].status

(* No submission leaves while the durable switch is on, once the trigger    *)
(* that set it has returned (docs/month-7: "If the kill switch is active    *)
(* before dispatch, queued submissions are quarantined without a venue      *)
(* call").  dispatch_once looks at the flag in its own process only, and     *)
(* nothing brings the row's to the other processes.                         *)
NoSubmitUnderSwitch ==
    [][\A o \in Orders :
          sent'[o] > sent[o] =>
              ~(control.active /\ \A p \in Procs, t \in Tasks : call[p][t].pc = "idle")]_vars

(* A cancel command never exists while the order's submission is still      *)
(* uncommitted (docs/month-7: acceptance only after acknowledgement         *)
(* "prevents a cancel transition from racing an uncommitted submission      *)
(* result").                                                                *)
NoCancelDuringSubmission ==
    \A o \in Orders :
        cmds[o]["CANCEL"].status = "PENDING" =>
            \A p \in Procs : ~(worker[p].pc \in {"waiting", "finish"}
                               /\ worker[p].o = o /\ worker[p].k = "SUBMIT")

(* An orphan alarm is about an order the OMS does not manage (docs/month-7: *)
(* "an unmanaged venue order or fill").                                     *)
OrphansAreUnmanaged ==
    \A p \in Procs, o \in Orders :
        recon[p].pc = "persist" /\ Orphan(recon[p], o) => orders[o].status = "NONE"

(* An ambiguous order is eventually resolved (docs/month-7: "becomes        *)
(* UNKNOWN; reconciliation determines the venue result").                   *)
UnknownResolves ==
    \A o \in Orders : orders[o].status = "UNKNOWN" ~> Terminal(orders[o])
=============================================================================
