--------------------------- MODULE DecisionProofs ---------------------------
(***************************************************************************)
(* Proofs about the decision path.  Concurrent decision cycles decide a    *)
(* candle once, book a profit once, keep the books equal to the rows and   *)
(* stay within the limits, for any number of candles, cycles and faults    *)
(* and any limits; a weighted consensus vetoes only under an activated     *)
(* experiment, and gives no agent more than the cap.                       *)
(***************************************************************************)
EXTENDS Trading, Consensus, FiniteSetTheorems, WellFoundedInduction, TLAPS

-----------------------------------------------------------------------------
(* Trading: decisions, profits and books.  The sizes of the orders play no *)
(* part here, so the invariant only asks that they are numbers.            *)

Holdings == SUBSET (Candles \X Nat)

CycleRecord ==
    [step : CycleSteps, candle : Candles \cup {NoCandle}, exits : SUBSET Candles,
     order : Candles \cup {NoCandle}, snapshot : Holdings, notional : Nat]
ApprovalRecord ==
    [status : {"NONE", "ACTIVE", "CONSUMED"}, snapshot : Holdings, notional : Nat]
OrderRecord == [status : {"NONE", "FILLED", "CLOSED"}, notional : Nat]

\* The types the other parts rest on.
Shapes ==
    /\ stored \in SUBSET Candles /\ openOrders \in SUBSET Candles
    /\ positions \in Holdings
    /\ approvals \in [Candles -> ApprovalRecord]
    /\ paperOrders \in [Candles -> OrderRecord]
    /\ cycle \in [Cycles -> CycleRecord]
    /\ realised \in [Candles -> Nat] /\ decided \in [Candles -> Nat]
    /\ tradingFaults \in Nat
    /\ \A t \in Cycles : cycle[t].step # "idle" => cycle[t].candle \in Candles
    /\ \A t \in Cycles : cycle[t].step \in {"close", "closed"} => cycle[t].order \in Candles

\* The steps of a cycle that stored its candle, and those before its decision.
Undecided == {"stored", "monitor", "close", "closed", "agents", "decide"}
Owning == Undecided \cup {"check", "approve", "submit", "consume", "accept"}

\* A candle belongs to the one cycle that stored it, which has not decided yet.
Ownership ==
    /\ \A t \in Cycles : cycle[t].step \in Owning => cycle[t].candle \in stored
    /\ \A t, u \in Cycles :
          /\ cycle[t].step \in Owning /\ cycle[u].step \in Owning
          /\ cycle[t].candle = cycle[u].candle
          => t = u
    /\ \A t \in Cycles : cycle[t].step \in Undecided => decided[cycle[t].candle] = 0
    /\ \A c \in Candles : c \notin stored => decided[c] = 0
    /\ \A c \in Candles : decided[c] <= 1

\* Only an order that is open can still be booked, and it has a row.
Booking ==
    /\ \A c \in openOrders : realised[c] = 0 /\ paperOrders[c].status # "NONE"
    /\ \A c \in Candles : paperOrders[c].status = "NONE" => realised[c] = 0
    /\ \A t \in Cycles : cycle[t].step = "accept" =>
          /\ realised[cycle[t].candle] = 0
          /\ cycle[t].candle \notin openOrders
          /\ paperOrders[cycle[t].candle].status = "FILLED"
    /\ \A c \in Candles : realised[c] <= 1

\* Nobody closes an order that is not accepted yet, and a close is saved before it is
\* booked.
Closing ==
    /\ \A t \in Cycles : \A o \in cycle[t].exits : paperOrders[o].status # "NONE"
    /\ \A t \in Cycles : cycle[t].order \in Candles =>
          paperOrders[cycle[t].order].status # "NONE"
    /\ \A t \in Cycles : cycle[t].step = "closed" =>
          paperOrders[cycle[t].order].status = "CLOSED"
    /\ \A t, u \in Cycles : cycle[t].step = "accept" =>
          cycle[t].candle \notin cycle[u].exits /\ cycle[t].candle # cycle[u].order

\* Without faults memory differs from the rows only by what a cycle has
\* committed and will book with its next step.
Pending ==
    /\ positions = {<<c, paperOrders[c].notional>> : c \in openOrders}
    /\ \A c \in Candles : paperOrders[c].status = "FILLED" /\ c \notin openOrders =>
          \E t \in Cycles : cycle[t].step = "accept" /\ cycle[t].candle = c
    /\ \A c \in openOrders : paperOrders[c].status # "FILLED" =>
          \E t \in Cycles : cycle[t].step = "closed" /\ cycle[t].order = c
    /\ \A t \in Cycles : cycle[t].step \in {"submit", "consume"} =>
          approvals[cycle[t].candle].notional = cycle[t].notional
    /\ \A t \in Cycles : cycle[t].step = "accept" =>
          paperOrders[cycle[t].candle].notional = cycle[t].notional

TradingInv ==
    Shapes /\ Ownership /\ Booking /\ Closing /\ (tradingFaults = 0 => Pending)

-----------------------------------------------------------------------------
(* What the updates of a cycle record mean *)

\* The record of an idle cycle.
LEMMA IdleRecord ==
    /\ IdleCycle \in CycleRecord
    /\ IdleCycle.step = "idle" /\ IdleCycle.exits = {} /\ IdleCycle.order = NoCandle
<1>1. {} \in Holdings
  BY DEF Holdings
<1> QED BY <1>1 DEF IdleCycle, CycleRecord, CycleSteps, NoCandle

\* CycleGoto changes the step of one cycle.
LEMMA GotoFacts ==
    ASSUME cycle \in [Cycles -> CycleRecord], NEW t \in Cycles, NEW s \in CycleSteps,
           CycleGoto(t, s)
    PROVE  /\ cycle' \in [Cycles -> CycleRecord]
           /\ \A u \in Cycles : u # t => cycle'[u] = cycle[u]
           /\ cycle'[t].step = s /\ cycle'[t].candle = cycle[t].candle
           /\ cycle'[t].exits = cycle[t].exits /\ cycle'[t].order = cycle[t].order
           /\ cycle'[t].notional = cycle[t].notional
BY DEF CycleGoto, CycleRecord

\* EndCycle forgets one cycle.
LEMMA EndFacts ==
    ASSUME cycle \in [Cycles -> CycleRecord], NEW t \in Cycles, EndCycle(t)
    PROVE  /\ cycle' \in [Cycles -> CycleRecord]
           /\ \A u \in Cycles : u # t => cycle'[u] = cycle[u]
           /\ cycle'[t].step = "idle" /\ cycle'[t].exits = {} /\ cycle'[t].order = NoCandle
BY IdleRecord DEF EndCycle

-----------------------------------------------------------------------------
(* Ending a cycle, and moving it on, with the books left alone *)

booked == <<stored, approvals, paperOrders, positions, openOrders, realised, decided>>

\* A cycle that has nothing left to book may end.
LEMMA EndInv ==
    ASSUME TradingInv, NEW t \in Cycles, EndCycle(t), UNCHANGED booked,
           tradingFaults' \in Nat,
           tradingFaults' = 0 =>
              /\ tradingFaults = 0
              /\ cycle[t].step # "accept"
              /\ cycle[t].step = "closed" => cycle[t].order \notin openOrders
    PROVE  TradingInv'
<1> USE DEF TradingInv, booked
<1>1. /\ cycle' \in [Cycles -> CycleRecord]
      /\ \A u \in Cycles : u # t => cycle'[u] = cycle[u]
      /\ cycle'[t].step = "idle" /\ cycle'[t].exits = {} /\ cycle'[t].order = NoCandle
  BY EndFacts DEF Shapes
<1>2. NoCandle \notin Candles
  BY TradingAssumption DEF NoCandle
<1>3. Shapes'
  BY <1>1 DEF Shapes
<1>4. Ownership'
  BY <1>1 DEF Shapes, Ownership, Owning, Undecided
<1>5. Booking'
  BY <1>1 DEF Shapes, Booking
<1>6. Closing'
  BY <1>1, <1>2 DEF Shapes, Closing
<1>7. ASSUME tradingFaults' = 0 PROVE Pending'
  BY <1>1, <1>7 DEF Shapes, Pending
<1> QED BY <1>3, <1>4, <1>5, <1>6, <1>7

Onward(s, r) ==
    \/ s = "monitor" /\ r = "agents"
    \/ s = "agents" /\ r = "decide"
    \/ s = "submit" /\ r = "consume"

\* A cycle that goes on without a commit keeps the invariant.
LEMMA OnwardInv ==
    ASSUME TradingInv, NEW t \in Cycles, NEW s \in CycleSteps, CycleGoto(t, s),
           Onward(cycle[t].step, s), UNCHANGED <<booked, tradingFaults>>
    PROVE  TradingInv'
<1> USE DEF TradingInv, booked
<1>1. /\ cycle' \in [Cycles -> CycleRecord]
      /\ \A u \in Cycles : u # t => cycle'[u] = cycle[u]
      /\ cycle'[t].step = s /\ cycle'[t].candle = cycle[t].candle
      /\ cycle'[t].exits = cycle[t].exits /\ cycle'[t].order = cycle[t].order
      /\ cycle'[t].notional = cycle[t].notional
  BY GotoFacts DEF Shapes
<1>2. Shapes'
  BY <1>1 DEF Shapes, Onward
<1>3. Ownership'
  BY <1>1 DEF Shapes, Ownership, Owning, Undecided, Onward
<1>4. Booking'
  BY <1>1 DEF Shapes, Booking, Onward
<1>5. Closing'
  BY <1>1 DEF Shapes, Closing, Onward
<1>6. ASSUME tradingFaults' = 0 PROVE Pending'
  BY <1>1, <1>6 DEF Shapes, Pending, Onward
<1> QED BY <1>2, <1>3, <1>4, <1>5, <1>6

-----------------------------------------------------------------------------
(* The initial state and the steps *)

\* The initial state.
LEMMA TradingInitInv == TradingInit => TradingInv
<1> SUFFICES ASSUME TradingInit PROVE TradingInv
  OBVIOUS
<1> USE DEF TradingInit
<1>0. NoCandle \notin Candles
  BY TradingAssumption DEF NoCandle
<1>1. Shapes
  <2>1. {} \in Holdings
    BY DEF Holdings
  <2>2. NoApproval \in ApprovalRecord /\ NoRow \in OrderRecord
    BY <2>1 DEF NoApproval, NoRow, ApprovalRecord, OrderRecord
  <2> QED BY <2>1, <2>2, IdleRecord DEF Shapes
<1>2. Ownership
  BY IdleRecord DEF Ownership, Owning, Undecided
<1>3. Booking
  BY IdleRecord DEF Booking
<1>4. Closing
  BY <1>0, IdleRecord DEF Closing
<1>5. Pending
  BY IdleRecord DEF Pending, NoRow
<1> QED BY <1>1, <1>2, <1>3, <1>4, <1>5 DEF TradingInv

\* CandleArrives: a delivered candle is not stored yet.
LEMMA CandleArrivesInv ==
    ASSUME TradingInv, NEW t \in Cycles, NEW c \in Candles, CandleArrives(t, c)
    PROVE  TradingInv'
<1> USE DEF TradingInv, CandleArrives, CycleAt, tradingRows, tradingMemory, tradingHistory
<1>1. /\ cycle' \in [Cycles -> CycleRecord]
      /\ \A u \in Cycles : u # t => cycle'[u] = cycle[u]
      /\ cycle'[t].step = "store" /\ cycle'[t].candle = c
      /\ cycle'[t].exits = {} /\ cycle'[t].order = NoCandle
  <2>1. [IdleCycle EXCEPT !.step = "store", !.candle = c] \in CycleRecord
    BY IdleRecord DEF CycleRecord, CycleSteps
  <2> QED BY <2>1, IdleRecord DEF Shapes, CycleRecord
<1>2. NoCandle \notin Candles
  BY TradingAssumption DEF NoCandle
<1>3. Shapes'
  BY <1>1 DEF Shapes
<1>4. Ownership'
  BY <1>1 DEF Shapes, Ownership, Owning, Undecided
<1>5. Booking' /\ Closing'
  BY <1>1, <1>2 DEF Shapes, Booking, Closing
<1>6. ASSUME tradingFaults' = 0 PROVE Pending'
  BY <1>1, <1>6 DEF Shapes, Pending
<1> QED BY <1>3, <1>4, <1>5, <1>6

\* StoreCandle: the first cycle to store a candle owns it.
LEMMA StoreCandleInv ==
    ASSUME TradingInv, NEW t \in Cycles, StoreCandle(t)
    PROVE  TradingInv'
<1> USE DEF TradingInv, StoreCandle, CycleAt, tradingMemory, tradingHistory
<1>1. CASE cycle[t].candle \in stored
  <2>1. UNCHANGED <<booked, tradingFaults>> /\ EndCycle(t)
    BY <1>1 DEF Shapes, booked
  <2> QED BY <2>1, EndInv DEF Shapes
<1>2. CASE cycle[t].candle \notin stored
  <2>1. /\ cycle' \in [Cycles -> CycleRecord]
        /\ \A u \in Cycles : u # t => cycle'[u] = cycle[u]
        /\ cycle'[t].step = "stored" /\ cycle'[t].candle = cycle[t].candle
        /\ cycle'[t].exits = cycle[t].exits /\ cycle'[t].order = cycle[t].order
    BY <1>2, GotoFacts DEF Shapes, CycleSteps
  <2>2. cycle[t].candle \in Candles /\ stored' = stored \cup {cycle[t].candle}
    BY DEF Shapes
  <2>3. Shapes'
    BY <2>1, <2>2 DEF Shapes
  <2>4. Ownership'
    BY <1>2, <2>1, <2>2 DEF Shapes, Ownership, Owning, Undecided
  <2>5. Booking' /\ Closing'
    BY <2>1 DEF Shapes, Booking, Closing
  <2>6. ASSUME tradingFaults' = 0 PROVE Pending'
    BY <2>1, <2>6 DEF Shapes, Pending
  <2> QED BY <2>3, <2>4, <2>5, <2>6
<1> QED BY <1>1, <1>2

\* BeginMonitoring: only orders that are open are chosen for an exit.
LEMMA BeginMonitoringInv ==
    ASSUME TradingInv, NEW t \in Cycles, BeginMonitoring(t)
    PROVE  TradingInv'
<1> USE DEF TradingInv, BeginMonitoring, CycleAt, tradingRows, tradingMemory, tradingHistory
<1>1. CASE EndCycle(t)
  BY <1>1, EndInv DEF Shapes, booked
<1>2. ASSUME NEW exits \in SUBSET openOrders,
             cycle' = [cycle EXCEPT ![t].step = "monitor", ![t].exits = exits]
      PROVE  TradingInv'
  <2> DEFINE r == [cycle[t] EXCEPT !.step = "monitor", !.exits = exits]
  <2>0. /\ r \in CycleRecord /\ r.step = "monitor" /\ r.candle = cycle[t].candle
        /\ r.exits = exits /\ r.order = cycle[t].order
    <3>1. exits \in SUBSET Candles /\ cycle[t] \in CycleRecord
      BY DEF Shapes
    <3> QED BY <3>1 DEF CycleRecord, CycleSteps
  <2>1. /\ cycle' \in [Cycles -> CycleRecord]
        /\ \A u \in Cycles : u # t => cycle'[u] = cycle[u]
        /\ cycle'[t].step = "monitor" /\ cycle'[t].candle = cycle[t].candle
        /\ cycle'[t].exits = exits /\ cycle'[t].order = cycle[t].order
    <3>1. cycle' = [cycle EXCEPT ![t] = r]
      BY <1>2
    <3> HIDE DEF r
    <3> QED BY <3>1, <2>0 DEF Shapes
  <2>2. Shapes'
    BY <2>1 DEF Shapes
  <2>3. Ownership'
    BY <2>1 DEF Shapes, Ownership, Owning, Undecided
  <2>4. Booking' /\ Closing'
    BY <2>1 DEF Shapes, Booking, Closing
  <2>5. ASSUME tradingFaults' = 0 PROVE Pending'
    BY <2>1, <2>5 DEF Shapes, Pending
  <2> QED BY <2>2, <2>3, <2>4, <2>5
<1> QED BY <1>1, <1>2

\* BeginClose: the order to close is one of the chosen.
LEMMA BeginCloseInv ==
    ASSUME TradingInv, NEW t \in Cycles, BeginClose(t)
    PROVE  TradingInv'
<1> USE DEF TradingInv, BeginClose, CycleAt, tradingRows, tradingMemory, tradingHistory
<1>1. CASE EndCycle(t)
  BY <1>1, EndInv DEF Shapes, booked
<1>2. ASSUME NEW o \in cycle[t].exits, o \in openOrders,
             cycle' = [cycle EXCEPT ![t].step = "close", ![t].order = o, ![t].exits = @ \ {o}]
      PROVE  TradingInv'
  <2>1. /\ cycle' \in [Cycles -> CycleRecord]
        /\ \A u \in Cycles : u # t => cycle'[u] = cycle[u]
        /\ cycle'[t].step = "close" /\ cycle'[t].candle = cycle[t].candle
        /\ cycle'[t].exits = cycle[t].exits \ {o} /\ cycle'[t].order = o
    BY <1>2 DEF Shapes, CycleRecord, CycleSteps
  <2>2. Shapes'
    BY <1>2, <2>1 DEF Shapes
  <2>3. Ownership'
    BY <2>1 DEF Shapes, Ownership, Owning, Undecided
  <2>4. Booking' /\ Closing'
    BY <1>2, <2>1 DEF Shapes, Booking, Closing
  <2>5. ASSUME tradingFaults' = 0 PROVE Pending'
    BY <2>1, <2>5 DEF Shapes, Pending
  <2> QED BY <2>2, <2>3, <2>4, <2>5
<1> QED BY <1>1, <1>2

\* SaveClose: the row of the order is closed; booking it is left to do.
LEMMA SaveCloseInv ==
    ASSUME TradingInv, NEW t \in Cycles, SaveClose(t)
    PROVE  TradingInv'
<1> USE DEF TradingInv, SaveClose, CycleAt, tradingMemory, tradingHistory
<1>1. /\ cycle' \in [Cycles -> CycleRecord]
      /\ \A u \in Cycles : u # t => cycle'[u] = cycle[u]
      /\ cycle'[t].step = "closed" /\ cycle'[t].candle = cycle[t].candle
      /\ cycle'[t].exits = cycle[t].exits /\ cycle'[t].order = cycle[t].order
  BY GotoFacts DEF Shapes, CycleSteps
<1>2. /\ cycle[t].order \in Candles
      /\ paperOrders' \in [Candles -> OrderRecord]
      /\ \A c \in Candles : paperOrders'[c].notional = paperOrders[c].notional
      /\ \A c \in Candles : c # cycle[t].order => paperOrders'[c] = paperOrders[c]
      /\ paperOrders'[cycle[t].order].status = "CLOSED"
  BY DEF Shapes, OrderRecord
<1>3. Shapes'
  BY <1>1, <1>2 DEF Shapes
<1>4. Ownership'
  BY <1>1 DEF Shapes, Ownership, Owning, Undecided
<1>5. Booking' /\ Closing'
  BY <1>1, <1>2 DEF Shapes, Booking, Closing
<1>6. ASSUME tradingFaults' = 0 PROVE Pending'
  <2>1. Pending
    BY <1>6
  <2>2. positions' = {<<c, paperOrders'[c].notional>> : c \in openOrders'}
    BY <2>1, <1>2 DEF Shapes, Pending
  <2>3. \A c \in Candles : paperOrders'[c].status = "FILLED" =>
            paperOrders[c].status = "FILLED"
    BY <1>2
  <2>4. ASSUME NEW c \in openOrders', paperOrders'[c].status # "FILLED"
        PROVE  \E u \in Cycles : cycle'[u].step = "closed" /\ cycle'[u].order = c
    <3>1. CASE c = cycle[t].order
      BY <3>1, <1>1
    <3>2. CASE c # cycle[t].order
      BY <3>2, <2>1, <2>4, <1>1, <1>2 DEF Shapes, Pending
    <3> QED BY <3>1, <3>2
  <2> QED BY <2>1, <2>2, <2>3, <2>4, <1>1, <1>2 DEF Shapes, Pending
<1> QED BY <1>3, <1>4, <1>5, <1>6

\* BookClose: whoever comes first books the profit, and the order is open no more.
LEMMA BookCloseInv ==
    ASSUME TradingInv, NEW t \in Cycles, BookClose(t)
    PROVE  TradingInv'
<1> USE DEF TradingInv, BookClose, CycleAt, tradingRows
<1> DEFINE o == cycle[t].order
<1>1. CASE o \notin openOrders
  BY <1>1, EndInv DEF Shapes, booked
<1>2. CASE o \in openOrders
  <2>1. /\ cycle' \in [Cycles -> CycleRecord]
        /\ \A u \in Cycles : u # t => cycle'[u] = cycle[u]
        /\ cycle'[t].step = "monitor" /\ cycle'[t].candle = cycle[t].candle
        /\ cycle'[t].exits = cycle[t].exits /\ cycle'[t].order = o
    BY <1>2, GotoFacts DEF Shapes, CycleSteps
  <2>2. /\ openOrders' = openOrders \ {o} /\ positions' = {p \in positions : p[1] # o}
        /\ realised' \in [Candles -> Nat] /\ realised'[o] = realised[o] + 1
        /\ \A c \in Candles : c # o => realised'[c] = realised[c]
    BY <1>2 DEF Shapes
  <2>3. Shapes'
    BY <2>1, <2>2 DEF Shapes, Holdings
  <2>4. Ownership'
    BY <2>1 DEF Shapes, Ownership, Owning, Undecided
  <2>5. Booking'
    BY <1>2, <2>1, <2>2 DEF Shapes, Booking
  <2>6. Closing'
    BY <2>1 DEF Shapes, Closing
  <2>7. ASSUME tradingFaults' = 0 PROVE Pending'
    <3>1. Pending
      BY <2>7
    <3>2. positions' = {<<c, paperOrders[c].notional>> : c \in openOrders'}
      BY <3>1, <2>2 DEF Pending
    <3>3. ASSUME NEW c \in Candles, paperOrders[c].status = "FILLED", c \notin openOrders'
          PROVE  \E u \in Cycles : cycle'[u].step = "accept" /\ cycle'[u].candle = c
      <4>1. c # o /\ c \notin openOrders
        BY <3>3, <2>2 DEF Closing
      <4>2. PICK u \in Cycles : cycle[u].step = "accept" /\ cycle[u].candle = c
        BY <4>1, <3>1, <3>3 DEF Pending
      <4> QED BY <4>2, <2>1
    <3> QED BY <3>1, <3>2, <3>3, <2>1, <2>2 DEF Shapes, Pending
  <2> QED BY <2>3, <2>4, <2>5, <2>6, <2>7
<1> QED BY <1>1, <1>2

\* PassGate: the gate changes no book.
LEMMA PassGateInv ==
    ASSUME TradingInv, NEW t \in Cycles, PassGate(t)
    PROVE  TradingInv'
<1>1. /\ cycle[t].step = "monitor"
      /\ EndCycle(t) \/ CycleGoto(t, "agents")
      /\ UNCHANGED <<booked, tradingFaults>>
  BY Zenon DEF PassGate, booked, CycleAt, tradingRows, tradingMemory, tradingHistory
<1>2. CASE EndCycle(t)
  BY <1>1, <1>2, EndInv DEF TradingInv, Shapes
<1>3. CASE CycleGoto(t, "agents")
  <2>1. Onward(cycle[t].step, "agents") /\ "agents" \in CycleSteps
    BY <1>1 DEF Onward, CycleSteps
  <2> QED BY <1>1, <1>3, <2>1, OnwardInv
<1> QED BY <1>1, <1>2, <1>3

\* RunAgents: the agents change no book.
LEMMA RunAgentsInv ==
    ASSUME TradingInv, NEW t \in Cycles, RunAgents(t)
    PROVE  TradingInv'
<1>1. CycleGoto(t, "decide") /\ UNCHANGED <<booked, tradingFaults>>
  BY DEF RunAgents, booked, CycleAt, tradingRows, tradingMemory, tradingHistory
<1>2. Onward(cycle[t].step, "decide") /\ "decide" \in CycleSteps
  BY DEF RunAgents, Onward, CycleSteps, CycleAt
<1> QED BY <1>1, <1>2, OnwardInv

\* SubmitOrder: a stale approval ends the cycle.
LEMMA SubmitOrderInv ==
    ASSUME TradingInv, NEW t \in Cycles, SubmitOrder(t)
    PROVE  TradingInv'
<1> USE DEF SubmitOrder, CycleAt, tradingRows, tradingHistory
<1>1. CASE EndCycle(t)
  BY <1>1, EndInv DEF TradingInv, Shapes, booked
<1>2. CASE CycleGoto(t, "consume")
  BY <1>2, OnwardInv DEF CycleSteps, Onward, booked
<1> QED BY <1>1, <1>2

\* Decide: the owner of a candle decides once.
LEMMA DecideInv ==
    ASSUME TradingInv, NEW t \in Cycles, Decide(t)
    PROVE  TradingInv'
<1> USE DEF TradingInv, Decide, CycleAt, tradingRows, tradingMemory
<1>1. CASE EndCycle(t) /\ UNCHANGED decided
  BY <1>1, EndInv DEF Shapes, booked
<1>2. CASE /\ decided' = [decided EXCEPT ![cycle[t].candle] = @ + 1]
           /\ CycleGoto(t, "check")
  <2>1. /\ cycle' \in [Cycles -> CycleRecord]
        /\ \A u \in Cycles : u # t => cycle'[u] = cycle[u]
        /\ cycle'[t].step = "check" /\ cycle'[t].candle = cycle[t].candle
        /\ cycle'[t].exits = cycle[t].exits /\ cycle'[t].order = cycle[t].order
    BY <1>2, GotoFacts DEF Shapes, CycleSteps
  <2>2. /\ cycle[t].candle \in Candles /\ decided' \in [Candles -> Nat]
        /\ decided'[cycle[t].candle] = decided[cycle[t].candle] + 1
        /\ \A c \in Candles : c # cycle[t].candle => decided'[c] = decided[c]
    BY <1>2 DEF Shapes
  <2>3. Shapes'
    BY <2>1, <2>2 DEF Shapes
  <2>4. Ownership'
    BY <2>1, <2>2 DEF Shapes, Ownership, Owning, Undecided
  <2>5. Booking' /\ Closing'
    BY <2>1 DEF Shapes, Booking, Closing
  <2>6. ASSUME tradingFaults' = 0 PROVE Pending'
    BY <2>1, <2>6 DEF Shapes, Pending
  <2> QED BY <2>3, <2>4, <2>5, <2>6
<1> QED BY <1>1, <1>2

\* CheckRisk: the risk check changes no book.
LEMMA CheckRiskInv ==
    ASSUME TradingInv, NEW t \in Cycles, CheckRisk(t)
    PROVE  TradingInv'
<1> USE DEF TradingInv, CheckRisk, CycleAt, tradingRows, tradingMemory, tradingHistory
<1>1. CASE EndCycle(t)
  BY <1>1, EndInv DEF Shapes, booked
<1>2. ASSUME NEW n \in ApprovedSizes(positions),
             cycle' = [cycle EXCEPT ![t].step = "approve", ![t].snapshot = positions,
                                    ![t].notional = n]
      PROVE  TradingInv'
  <2> DEFINE r == [cycle[t] EXCEPT !.step = "approve", !.snapshot = positions, !.notional = n]
  <2>0. /\ r \in CycleRecord /\ r.step = "approve" /\ r.candle = cycle[t].candle
        /\ r.exits = cycle[t].exits /\ r.order = cycle[t].order
    <3>1. n \in Nat /\ positions \in Holdings /\ cycle[t] \in CycleRecord
      BY DEF Shapes, ApprovedSizes
    <3> QED BY <3>1 DEF CycleRecord, CycleSteps
  <2>1. /\ cycle' \in [Cycles -> CycleRecord]
        /\ \A u \in Cycles : u # t => cycle'[u] = cycle[u]
        /\ cycle'[t].step = "approve" /\ cycle'[t].candle = cycle[t].candle
        /\ cycle'[t].exits = cycle[t].exits /\ cycle'[t].order = cycle[t].order
    <3>1. cycle' = [cycle EXCEPT ![t] = r]
      BY <1>2
    <3> HIDE DEF r
    <3> QED BY <3>1, <2>0 DEF Shapes
  <2>2. Shapes'
    BY <2>1 DEF Shapes
  <2>3. Ownership'
    BY <2>1 DEF Shapes, Ownership, Owning, Undecided
  <2>4. Booking' /\ Closing'
    BY <2>1 DEF Shapes, Booking, Closing
  <2>5. ASSUME tradingFaults' = 0 PROVE Pending'
    BY <2>1, <2>5 DEF Shapes, Pending
  <2> QED BY <2>2, <2>3, <2>4, <2>5
<1> QED BY <1>1, <1>2

\* IssueApproval: only the owner of a candle writes its approval.
LEMMA IssueApprovalInv ==
    ASSUME TradingInv, NEW t \in Cycles, IssueApproval(t)
    PROVE  TradingInv'
<1> USE DEF TradingInv, IssueApproval, CycleAt, tradingHistory
<1>1. /\ cycle' \in [Cycles -> CycleRecord]
      /\ \A u \in Cycles : u # t => cycle'[u] = cycle[u]
      /\ cycle'[t].step = "submit" /\ cycle'[t].candle = cycle[t].candle
      /\ cycle'[t].exits = cycle[t].exits /\ cycle'[t].order = cycle[t].order
      /\ cycle'[t].notional = cycle[t].notional
  BY GotoFacts DEF Shapes, CycleSteps
<1>2. /\ cycle[t].candle \in Candles /\ approvals' \in [Candles -> ApprovalRecord]
      /\ approvals'[cycle[t].candle].notional = cycle[t].notional
      /\ \A c \in Candles : c # cycle[t].candle => approvals'[c] = approvals[c]
  <2>1. cycle[t].candle \in Candles /\ cycle[t] \in CycleRecord
    BY DEF Shapes
  <2>2. [status |-> "ACTIVE", snapshot |-> cycle[t].snapshot, notional |-> cycle[t].notional]
            \in ApprovalRecord
    BY <2>1 DEF CycleRecord, ApprovalRecord
  <2> QED BY <2>1, <2>2 DEF Shapes
<1>3. Shapes'
  BY <1>1, <1>2 DEF Shapes
<1>4. Ownership'
  BY <1>1 DEF Shapes, Ownership, Owning, Undecided
<1>5. Booking' /\ Closing'
  BY <1>1 DEF Shapes, Booking, Closing
<1>6. ASSUME tradingFaults' = 0 PROVE Pending'
  BY <1>1, <1>2, <1>6 DEF Shapes, Pending, Ownership, Owning
<1> QED BY <1>3, <1>4, <1>5, <1>6

\* ConsumedRows: a row that did not exist is FILLED.
LEMMA ConsumedFacts ==
    ASSUME Shapes, NEW c \in Candles, MayConsumeApproval(c), ConsumedRows(c)
    PROVE  /\ approvals' \in [Candles -> ApprovalRecord]
           /\ paperOrders' \in [Candles -> OrderRecord]
           /\ \A d \in Candles : approvals'[d].notional = approvals[d].notional
           /\ \A d \in Candles : d # c => paperOrders'[d] = paperOrders[d]
           /\ paperOrders[c].status = "NONE" /\ paperOrders'[c].status = "FILLED"
           /\ paperOrders'[c].notional = approvals[c].notional
<1>1. [status |-> "FILLED", notional |-> approvals[c].notional] \in OrderRecord
  BY DEF Shapes, ApprovalRecord, OrderRecord
<1>2. /\ approvals' \in [Candles -> ApprovalRecord]
      /\ \A d \in Candles : approvals'[d].notional = approvals[d].notional
  BY DEF Shapes, ConsumedRows, ApprovalRecord
<1> QED BY <1>1, <1>2 DEF Shapes, ConsumedRows, MayConsumeApproval

\* ConsumeApproval: the row appears; accepting the order is left to do.
LEMMA ConsumeApprovalInv ==
    ASSUME TradingInv, NEW t \in Cycles, ConsumeApproval(t)
    PROVE  TradingInv'
<1> USE DEF TradingInv, ConsumeApproval, CycleAt, tradingHistory
<1> DEFINE c == cycle[t].candle
<1>1. CASE EndCycle(t) /\ UNCHANGED <<approvals, paperOrders>>
  BY <1>1, EndInv DEF Shapes, booked
<1>2. CASE MayConsumeApproval(c) /\ ConsumedRows(c) /\ CycleGoto(t, "accept")
  <2>0. c \in Candles
    BY DEF Shapes
  <2>1. /\ cycle' \in [Cycles -> CycleRecord]
        /\ \A u \in Cycles : u # t => cycle'[u] = cycle[u]
        /\ cycle'[t].step = "accept" /\ cycle'[t].candle = c
        /\ cycle'[t].exits = cycle[t].exits /\ cycle'[t].order = cycle[t].order
        /\ cycle'[t].notional = cycle[t].notional
    BY <1>2, GotoFacts DEF Shapes, CycleSteps
  <2>2. /\ approvals' \in [Candles -> ApprovalRecord]
        /\ paperOrders' \in [Candles -> OrderRecord]
        /\ \A d \in Candles : approvals'[d].notional = approvals[d].notional
        /\ \A d \in Candles : d # c => paperOrders'[d] = paperOrders[d]
        /\ paperOrders[c].status = "NONE" /\ paperOrders'[c].status = "FILLED"
        /\ paperOrders'[c].notional = approvals[c].notional
    BY <1>2, <2>0, ConsumedFacts
  <2>3. Shapes'
    BY <2>1, <2>2 DEF Shapes
  <2>4. Ownership'
    BY <2>1 DEF Shapes, Ownership, Owning, Undecided
  <2>5. Booking'
    <3>1. \A d \in Candles : paperOrders[d].status # "NONE" => paperOrders'[d] = paperOrders[d]
      BY <2>2
    <3>2. \A d \in Candles : paperOrders'[d].status = "NONE" => paperOrders[d].status = "NONE"
      BY <2>2
    <3>3. realised[c] = 0 /\ c \notin openOrders
      BY <2>0, <2>2 DEF Booking
    <3>4. \A u \in Cycles : cycle'[u].step = "accept" =>
             /\ realised[cycle'[u].candle] = 0 /\ cycle'[u].candle \notin openOrders
             /\ paperOrders'[cycle'[u].candle].status = "FILLED"
      <4>1. ASSUME NEW u \in Cycles, u # t, cycle[u].step = "accept"
            PROVE  /\ realised[cycle[u].candle] = 0 /\ cycle[u].candle \notin openOrders
                   /\ paperOrders'[cycle[u].candle].status = "FILLED"
        <5>1. cycle[u].candle \in Candles
          BY <4>1 DEF Shapes
        <5> QED BY <5>1, <4>1, <3>1 DEF Booking
      <4> QED BY <4>1, <3>3, <2>1, <2>2
    <3> QED BY <3>1, <3>2, <3>4, <2>0 DEF Shapes, Booking
  <2>6. Closing'
    <3>1. \A d \in Candles : paperOrders[d].status # "NONE" => paperOrders'[d] = paperOrders[d]
      BY <2>2
    <3>2. \A u \in Cycles : cycle'[u].exits = cycle[u].exits /\ cycle'[u].order = cycle[u].order
      BY <2>1
    <3>3. \A u \in Cycles : c \notin cycle[u].exits /\ c # cycle[u].order
      BY <2>0, <2>2 DEF Closing
    <3>4. \A u \in Cycles : cycle[u] \in CycleRecord /\ cycle[u].exits \subseteq Candles
      BY DEF Shapes, CycleRecord
    <3>5. \A u \in Cycles : \A o \in cycle'[u].exits : paperOrders'[o].status # "NONE"
      BY <3>1, <3>2, <3>4 DEF Closing
    <3>6. \A u \in Cycles : cycle'[u].order \in Candles =>
             paperOrders'[cycle'[u].order].status # "NONE"
      BY <3>1, <3>2 DEF Closing
    <3>7. \A u \in Cycles : cycle'[u].step = "closed" =>
             paperOrders'[cycle'[u].order].status = "CLOSED"
      <4>1. ASSUME NEW u \in Cycles, u # t, cycle[u].step = "closed"
            PROVE  paperOrders'[cycle[u].order].status = "CLOSED"
        <5>1. cycle[u].order \in Candles /\ paperOrders[cycle[u].order].status = "CLOSED"
          BY <4>1 DEF Shapes, Closing
        <5> QED BY <5>1, <3>1
      <4> QED BY <4>1, <2>1
    <3>8. \A u, v \in Cycles : cycle'[u].step = "accept" =>
             cycle'[u].candle \notin cycle'[v].exits /\ cycle'[u].candle # cycle'[v].order
      BY <3>2, <3>3, <2>1 DEF Closing
    <3> QED BY <3>5, <3>6, <3>7, <3>8 DEF Closing
  <2>7. ASSUME tradingFaults' = 0 PROVE Pending'
    <3>1. Pending /\ c \notin openOrders
      BY <2>7, <2>0, <2>2 DEF Booking
    <3>2. positions' = {<<d, paperOrders'[d].notional>> : d \in openOrders'}
      BY <3>1, <2>2 DEF Shapes, Pending
    <3>3. ASSUME NEW d \in Candles, paperOrders'[d].status = "FILLED", d \notin openOrders
          PROVE  \E u \in Cycles : cycle'[u].step = "accept" /\ cycle'[u].candle = d
      <4>1. CASE d = c
        BY <4>1, <2>1
      <4>2. CASE d # c
        BY <4>2, <3>1, <3>3, <2>1, <2>2 DEF Pending
      <4> QED BY <4>1, <4>2
    <3>4. ASSUME NEW d \in openOrders, paperOrders'[d].status # "FILLED"
          PROVE  \E u \in Cycles : cycle'[u].step = "closed" /\ cycle'[u].order = d
      BY <3>1, <3>4, <2>1, <2>2 DEF Shapes, Pending
    <3>5. \A u \in Cycles : cycle'[u].step \in {"submit", "consume"} =>
             approvals'[cycle'[u].candle].notional = cycle'[u].notional
      BY <3>1, <2>1, <2>2 DEF Shapes, Pending
    <3>6. \A u \in Cycles : cycle'[u].step = "accept" =>
             paperOrders'[cycle'[u].candle].notional = cycle'[u].notional
      <4>1. ASSUME NEW u \in Cycles, u # t, cycle[u].step = "accept"
            PROVE  paperOrders'[cycle[u].candle].notional = cycle[u].notional
        <5>1. cycle[u].candle \in Candles /\ cycle[u].candle # c
          BY <4>1, <2>2 DEF Shapes, Booking
        <5> QED BY <5>1, <4>1, <3>1, <2>2 DEF Pending
      <4>2. paperOrders'[c].notional = cycle[t].notional
        BY <3>1, <2>2 DEF Pending
      <4> QED BY <4>1, <4>2, <2>1
    <3> QED BY <3>2, <3>3, <3>4, <3>5, <3>6 DEF Pending
  <2> QED BY <2>3, <2>4, <2>5, <2>6, <2>7
<1> QED BY <1>1, <1>2

\* AcceptOrder: the owner of the candle takes its order into the books.
LEMMA AcceptOrderInv ==
    ASSUME TradingInv, NEW t \in Cycles, AcceptOrder(t)
    PROVE  TradingInv'
<1> USE DEF TradingInv, AcceptOrder, CycleAt, tradingRows, tradingHistory
<1> DEFINE c == cycle[t].candle
<1>0. c \in Candles /\ NoCandle \notin Candles /\ cycle[t].notional \in Nat
  BY TradingAssumption DEF Shapes, NoCandle, CycleRecord
<1>1. /\ cycle' \in [Cycles -> CycleRecord]
      /\ \A u \in Cycles : u # t => cycle'[u] = cycle[u]
      /\ cycle'[t].step = "idle" /\ cycle'[t].exits = {} /\ cycle'[t].order = NoCandle
  BY EndFacts DEF Shapes
<1>2. \A u \in Cycles : cycle'[u].step = "accept" => cycle'[u].candle # c
  BY <1>1 DEF Ownership, Owning
<1>3. Shapes'
  BY <1>0, <1>1 DEF Shapes, Holdings
<1>4. Ownership'
  BY <1>1 DEF Shapes, Ownership, Owning, Undecided
<1>5. Booking'
  BY <1>0, <1>1, <1>2 DEF Shapes, Booking
<1>6. Closing'
  BY <1>0, <1>1 DEF Shapes, Closing
<1>7. ASSUME tradingFaults' = 0 PROVE Pending'
  <2>1. Pending /\ c \notin openOrders
    BY <1>7 DEF Booking
  <2>2. positions' = {<<d, paperOrders[d].notional>> : d \in openOrders'}
    <3>1. positions' = positions \cup {<<c, paperOrders[c].notional>>}
      BY <2>1 DEF Pending
    <3> QED BY <3>1, <2>1 DEF Pending
  <2>3. ASSUME NEW d \in Candles, paperOrders[d].status = "FILLED", d \notin openOrders'
        PROVE  \E u \in Cycles : cycle'[u].step = "accept" /\ cycle'[u].candle = d
    <3>1. PICK u \in Cycles : cycle[u].step = "accept" /\ cycle[u].candle = d
      BY <2>1, <2>3 DEF Pending
    <3> QED BY <3>1, <2>3, <1>1
  <2>4. ASSUME NEW d \in openOrders', paperOrders[d].status # "FILLED"
        PROVE  \E u \in Cycles : cycle'[u].step = "closed" /\ cycle'[u].order = d
    <3>1. d # c
      BY <2>4 DEF Booking
    <3>2. PICK u \in Cycles : cycle[u].step = "closed" /\ cycle[u].order = d
      BY <3>1, <2>1, <2>4 DEF Pending
    <3> QED BY <3>2, <1>1
  <2> QED BY <2>1, <2>2, <2>3, <2>4, <1>0, <1>1 DEF Shapes, Pending
<1> QED BY <1>3, <1>4, <1>5, <1>6, <1>7

\* CallFails: whatever the call committed, its cycle is gone and a fault is counted.
LEMMA CallFailsInv ==
    ASSUME TradingInv, NEW t \in Cycles, CallFails(t)
    PROVE  TradingInv'
<1> USE DEF TradingInv, CallFails, TradingFault, tradingHistory
<1> DEFINE o == cycle[t].order
<1>0. NoCandle \notin Candles
  BY TradingAssumption DEF NoCandle
<1>1. /\ cycle' \in [Cycles -> CycleRecord]
      /\ \A u \in Cycles : u # t => cycle'[u] = cycle[u]
      /\ cycle'[t].step = "idle" /\ cycle'[t].exits = {} /\ cycle'[t].order = NoCandle
  BY EndFacts DEF Shapes
<1>2. tradingFaults' \in Nat /\ tradingFaults' # 0
  BY DEF Shapes
<1>3. /\ stored \subseteq stored' /\ stored' \in SUBSET Candles
      /\ approvals' \in [Candles -> ApprovalRecord]
      /\ paperOrders' \in [Candles -> OrderRecord]
      /\ \A c \in Candles : paperOrders[c].status # "NONE" =>
            \/ paperOrders'[c] = paperOrders[c]
            \/ paperOrders'[c].status = "CLOSED" /\ cycle[t].step = "close" /\ c = o
  <2>1. CASE UNCHANGED tradingRows
    BY <2>1 DEF Shapes, tradingRows
  <2>2. CASE CommittedAnyway(t)
    <3>1. cycle[t].candle \in Candles /\ cycle[t] \in CycleRecord
      BY DEF Shapes
    <3>2. CASE CycleAt(t, "store") /\ stored' = stored \cup {cycle[t].candle}
                 /\ UNCHANGED <<approvals, paperOrders>>
      BY <3>1, <3>2 DEF Shapes
    <3>3. CASE /\ CycleAt(t, "close")
               /\ paperOrders' = [paperOrders EXCEPT ![o].status = "CLOSED"]
               /\ UNCHANGED <<stored, approvals>>
      BY <3>3 DEF Shapes, OrderRecord, CycleAt
    <3>4. CASE /\ CycleAt(t, "approve")
               /\ approvals' = [approvals EXCEPT ![cycle[t].candle] =
                      [status |-> "ACTIVE", snapshot |-> cycle[t].snapshot,
                       notional |-> cycle[t].notional]]
               /\ UNCHANGED <<stored, paperOrders>>
      <4>1. [status |-> "ACTIVE", snapshot |-> cycle[t].snapshot,
             notional |-> cycle[t].notional] \in ApprovalRecord
        BY <3>1 DEF CycleRecord, ApprovalRecord
      <4> QED BY <3>4, <4>1 DEF Shapes
    <3>5. CASE MayConsumeApproval(cycle[t].candle) /\ ConsumedRows(cycle[t].candle)
                 /\ UNCHANGED stored
      <4>1. /\ approvals' \in [Candles -> ApprovalRecord]
            /\ paperOrders' \in [Candles -> OrderRecord]
            /\ \A d \in Candles : d # cycle[t].candle => paperOrders'[d] = paperOrders[d]
            /\ paperOrders[cycle[t].candle].status = "NONE"
        BY <3>1, <3>5, ConsumedFacts
      <4> QED BY <4>1, <3>5 DEF Shapes
    <3> QED BY <2>2, <3>2, <3>3, <3>4, <3>5 DEF CommittedAnyway
  <2> QED BY <2>1, <2>2
<1>4. UNCHANGED <<positions, openOrders, realised, decided>>
  OBVIOUS
<1> HIDE DEF CallFails, TradingFault, tradingHistory
<1>5. Shapes'
  BY <1>1, <1>2, <1>3, <1>4 DEF Shapes
<1>6. Ownership'
  BY <1>1, <1>3, <1>4 DEF Shapes, Ownership, Owning, Undecided
<1>7. \A c \in Candles : paperOrders[c].status # "NONE" => paperOrders'[c].status # "NONE"
  BY <1>3
<1>8. Booking'
  <2>1. \A c \in openOrders' : realised'[c] = 0 /\ paperOrders'[c].status # "NONE"
    BY <1>4, <1>7 DEF Shapes, Booking
  <2>2. \A c \in Candles : paperOrders'[c].status = "NONE" => realised'[c] = 0
    BY <1>4, <1>7 DEF Booking
  <2>3. ASSUME NEW u \in Cycles, u # t, cycle[u].step = "accept"
        PROVE  /\ realised[cycle[u].candle] = 0 /\ cycle[u].candle \notin openOrders
               /\ paperOrders'[cycle[u].candle].status = "FILLED"
    <3>1. cycle[u].candle \in Candles /\ cycle[u].candle # o
      BY <2>3 DEF Shapes, Closing
    <3> QED BY <3>1, <2>3, <1>3 DEF Booking
  <2> QED BY <2>1, <2>2, <2>3, <1>1, <1>4 DEF Booking
<1>9. Closing'
  <2>1. \A u \in Cycles : cycle[u].exits \subseteq Candles
    BY DEF Shapes, CycleRecord
  <2>2. \A u \in Cycles : \A c \in cycle'[u].exits : paperOrders'[c].status # "NONE"
    BY <2>1, <1>1, <1>7 DEF Closing
  <2>3. \A u \in Cycles : cycle'[u].order \in Candles =>
           paperOrders'[cycle'[u].order].status # "NONE"
    BY <1>0, <1>1, <1>7 DEF Closing
  <2>4. ASSUME NEW u \in Cycles, u # t, cycle[u].step = "closed"
        PROVE  paperOrders'[cycle[u].order].status = "CLOSED"
    <3>1. cycle[u].order \in Candles /\ paperOrders[cycle[u].order].status = "CLOSED"
      BY <2>4 DEF Shapes, Closing
    <3> QED BY <3>1, <1>3
  <2>5. \A u, v \in Cycles : cycle'[u].step = "accept" =>
           cycle'[u].candle \notin cycle'[v].exits /\ cycle'[u].candle # cycle'[v].order
    BY <1>0, <1>1 DEF Shapes, Closing
  <2> QED BY <2>2, <2>3, <2>4, <2>5, <1>1 DEF Closing
<1> QED BY <1>2, <1>5, <1>6, <1>8, <1>9

\* CrashTrading: the books are restored from the rows, and nobody is at work.
LEMMA CrashTradingInv ==
    ASSUME TradingInv, CrashTrading
    PROVE  TradingInv'
<1> USE DEF TradingInv, CrashTrading, TradingFault, tradingRows, tradingHistory
<1>0. NoCandle \notin Candles
  BY TradingAssumption DEF NoCandle
<1>1. /\ cycle' \in [Cycles -> CycleRecord]
      /\ \A u \in Cycles : /\ cycle'[u].step = "idle" /\ cycle'[u].exits = {}
                           /\ cycle'[u].order = NoCandle
  BY IdleRecord
<1>2. tradingFaults' \in Nat /\ tradingFaults' # 0
  BY DEF Shapes
<1>3. positions' \in Holdings
  BY DEF Shapes, DurableExposures, FilledOrders, Holdings, OrderRecord
<1>4. Shapes'
  BY <1>1, <1>2, <1>3 DEF Shapes
<1>5. Ownership'
  BY <1>1 DEF Ownership, Owning, Undecided
<1>6. Booking' /\ Closing'
  BY <1>0, <1>1 DEF Booking, Closing
<1> QED BY <1>2, <1>4, <1>5, <1>6

\* Every step of the cycles, their failures and the gate preserves the invariant.
LEMMA TradingStepInv == TradingInv /\ [TradingNext]_tradingVars => TradingInv'
<1> SUFFICES ASSUME TradingInv, [TradingNext]_tradingVars PROVE TradingInv'
  OBVIOUS
<1>1. ASSUME NEW t \in Cycles, NEW c \in Candles, CandleArrives(t, c) PROVE TradingInv'
  BY <1>1, CandleArrivesInv
<1>2. ASSUME NEW t \in Cycles, CycleStep(t) PROVE TradingInv'
  BY <1>2, StoreCandleInv, BeginMonitoringInv, BeginCloseInv, SaveCloseInv, BookCloseInv,
     PassGateInv, RunAgentsInv, DecideInv, CheckRiskInv, IssueApprovalInv, SubmitOrderInv,
     ConsumeApprovalInv, AcceptOrderInv
     DEF CycleStep
<1>3. ASSUME NEW t \in Cycles, CallFails(t) PROVE TradingInv'
  BY <1>3, CallFailsInv
<1>4. CASE CrashTrading
  BY <1>4, CrashTradingInv
<1>5. CASE GateRecovers \/ UNCHANGED tradingVars
  <2>1. UNCHANGED <<booked, cycle, tradingFaults>>
    BY <1>5 DEF GateRecovers, booked, tradingVars, tradingRows, tradingMemory, tradingHistory
  <2> QED BY <2>1 DEF booked, TradingInv, Shapes, Ownership, Booking, Closing, Pending
<1> QED BY <1>1, <1>2, <1>3, <1>4, <1>5 DEF TradingNext

\* Without a fault and with nothing left to book, memory is the FILLED rows.
LEMMA BooksSettle == TradingInv => BooksAgree
<1> SUFFICES ASSUME TradingInv, tradingFaults = 0, BooksSettled
             PROVE  positions = DurableExposures /\ openOrders = FilledOrders
  BY DEF BooksAgree
<1>1. openOrders = FilledOrders
  BY DEF TradingInv, Shapes, Pending, BooksSettled, CycleAt, FilledOrders
<1>2. positions = DurableExposures
  BY <1>1 DEF TradingInv, Pending, DurableExposures
<1> QED BY <1>1, <1>2

-----------------------------------------------------------------------------
(* Theorems *)

\* orchestrator/service.py on_candle_closed: a candle leads to at most one
\* actionable decision, however often and to however many tasks it is delivered.
THEOREM DecidedOnce == TradingSpec => []OneDecisionPerCandle
<1>1. TradingInv => OneDecisionPerCandle
  BY DEF TradingInv, Ownership, OneDecisionPerCandle
<1> QED BY <1>1, TradingInitInv, TradingStepInv, PTL DEF TradingSpec

\* paper_trading/engine.py close_order: the profit of an order is booked once,
\* however many cycles close it at the same time.
THEOREM BookedOnce == TradingSpec => []ProfitCountedOnce
<1>1. TradingInv => ProfitCountedOnce
  BY DEF TradingInv, Booking, ProfitCountedOnce
<1> QED BY <1>1, TradingInitInv, TradingStepInv, PTL DEF TradingSpec

\* risk/manager.py and paper_trading/engine.py: while nothing fails, positions
\* and open orders in memory are the FILLED rows whenever no cycle is about to
\* book what it committed.
THEOREM BooksAlwaysAgree == TradingSpec => []BooksAgree
<1> QED BY BooksSettle, TradingInitInv, TradingStepInv, PTL DEF TradingSpec

-----------------------------------------------------------------------------
(* Sums.  MapThenSumSet adds up a set in the order CHOOSE takes its        *)
(* elements; that the order does not matter is an induction over subsets,  *)
(* which these lemmas carry out with minimal counterexamples.              *)

\* A set of finite sets has one none of whose proper subsets is in it.
LEMMA MinimalSet ==
    ASSUME NEW U, IsFiniteSet(U), NEW B, B \subseteq SUBSET U, B # {}
    PROVE  \E S \in B : \A T \in B : T \subseteq S => T = S
<1> DEFINE N == {Cardinality(S) : S \in B}
<1>1. \A S \in B : IsFiniteSet(S) /\ Cardinality(S) \in Nat
    BY FS_Subset, FS_CardinalityType
<1>2. N \subseteq Nat /\ N # {}
    BY <1>1
<1> HIDE DEF N
<1>3. PICK n \in N : \A m \in N : ~(<<m, n>> \in OpToRel(<, Nat))
    BY <1>2, NatLessThanWellFounded, WFMin
<1>4. \A m \in N : ~(m < n)
    BY <1>2, <1>3 DEF OpToRel
<1>5. PICK S \in B : Cardinality(S) = n
    BY DEF N
<1>6. ASSUME NEW T \in B, T \subseteq S PROVE T = S
    <2>1. Cardinality(T) <= Cardinality(S) /\ (Cardinality(S) = Cardinality(T) => S = T)
        BY <1>1, <1>6, FS_Subset
    <2>2. Cardinality(T) \in N
        BY DEF N
    <2>3. Cardinality(T) = Cardinality(S)
        BY <1>1, <1>4, <1>5, <2>1, <2>2
    <2> QED BY <2>1, <2>3
<1> QED BY <1>6

Chosen(s) == CHOOSE x \in s : TRUE

\* g gives every subset of U the sum of its weights.
IsSum(g, U, w) ==
    g = [s \in SUBSET U |-> IF s = {} THEN 0 ELSE w[Chosen(s)] + g[s \ {Chosen(s)}]]

\* It is an element.
LEMMA ChosenIn == ASSUME NEW s, s # {} PROVE Chosen(s) \in s
BY DEF Chosen

\* The equation, for one set.
LEMMA SumStep ==
    ASSUME NEW g, NEW U, NEW w, IsSum(g, U, w), NEW S, S \subseteq U
    PROVE  g[S] = IF S = {} THEN 0 ELSE w[Chosen(S)] + g[S \ {Chosen(S)}]
<1>1. g = [s \in SUBSET U |-> IF s = {} THEN 0 ELSE w[Chosen(s)] + g[s \ {Chosen(s)}]]
    BY DEF IsSum
<1> QED BY <1>1, Zenon

\* Two such functions agree where both are defined.
LEMMA SumUnique ==
    ASSUME NEW w, NEW U, NEW V, IsFiniteSet(V), NEW g, NEW h, IsSum(g, U, w), IsSum(h, V, w),
           NEW S, S \subseteq U, S \subseteq V
    PROVE  g[S] = h[S]
<1> DEFINE B == {T \in SUBSET S : g[T] # h[T]}
<1> SUFFICES ASSUME B # {} PROVE FALSE
    OBVIOUS
<1>1. B \subseteq SUBSET V
    OBVIOUS
<1>2. PICK T \in B : \A R \in B : R \subseteq T => R = T
    <2> HIDE DEF B
    <2> QED BY <1>1, MinimalSet
<1>3. T \subseteq U /\ T \subseteq V
    OBVIOUS
<1>4. T # {}
    BY <1>3, SumStep
<1>5. Chosen(T) \in T
    BY <1>4, ChosenIn
<1>6. g[T \ {Chosen(T)}] = h[T \ {Chosen(T)}]
    BY <1>2, <1>5
<1>7. g[T] = h[T]
    BY <1>3, <1>6, SumStep
<1> QED BY <1>7

\* There is one for every finite set.
LEMMA SumExists ==
    ASSUME NEW w, NEW U, IsFiniteSet(U)
    PROVE  \E g : IsSum(g, U, w)
<1> DEFINE B == {S \in SUBSET U : ~\E g : IsSum(g, S, w)}
<1> SUFFICES ASSUME B # {} PROVE FALSE
    OBVIOUS
<1>0. B \subseteq SUBSET U
    OBVIOUS
<1>1. PICK S \in B : \A T \in B : T \subseteq S => T = S
    <2> HIDE DEF B
    <2> QED BY <1>0, MinimalSet
<1> DEFINE H(T) == CHOOSE h : IsSum(h, T, w)
           g == [s \in SUBSET S |-> IF s = {} THEN 0
                                    ELSE w[Chosen(s)] + H(s \ {Chosen(s)})[s \ {Chosen(s)}]]
<1>2. ASSUME NEW T, T \subseteq S, T # S PROVE IsSum(H(T), T, w) /\ IsFiniteSet(T)
    <2>1. \E h : IsSum(h, T, w)
        BY <1>1, <1>2
    <2>2. IsFiniteSet(T)
        BY <1>2, FS_Subset
    <2> QED BY <2>1, <2>2
<1>3. ASSUME NEW T, T \subseteq S, T # S PROVE g[T] = H(T)[T]
    <2> HIDE DEF H
    <2>1. H(T)[T] = IF T = {} THEN 0 ELSE w[Chosen(T)] + H(T)[T \ {Chosen(T)}]
        BY <1>2, <1>3, SumStep
    <2>2. g[T] = IF T = {} THEN 0 ELSE w[Chosen(T)] + H(T \ {Chosen(T)})[T \ {Chosen(T)}]
        BY <1>3
    <2>3. ASSUME T # {} PROVE H(T)[T \ {Chosen(T)}] = H(T \ {Chosen(T)})[T \ {Chosen(T)}]
        <3>1. Chosen(T) \in T
            BY <2>3, ChosenIn
        <3> DEFINE R == T \ {Chosen(T)}
        <3>2. R \subseteq S /\ R # S /\ R \subseteq T
            BY <1>3, <3>1
        <3> HIDE DEF R
        <3>3. IsSum(H(T), T, w) /\ IsSum(H(R), R, w) /\ IsFiniteSet(R)
            BY <1>2, <1>3, <3>2
        <3>4. H(T)[R] = H(R)[R]
            BY <3>2, <3>3, SumUnique
        <3> QED BY <3>4 DEF R
    <2> QED BY <2>1, <2>2, <2>3
<1>4. IsSum(g, S, w)
    <2> HIDE DEF H
    <2>1. \A s \in SUBSET S : s # {} => g[s \ {Chosen(s)}] = H(s \ {Chosen(s)})[s \ {Chosen(s)}]
        <3> SUFFICES ASSUME NEW s \in SUBSET S, s # {}
                     PROVE  g[s \ {Chosen(s)}] = H(s \ {Chosen(s)})[s \ {Chosen(s)}]
            OBVIOUS
        <3>1. Chosen(s) \in s
            BY ChosenIn
        <3>2. s \ {Chosen(s)} \subseteq S /\ s \ {Chosen(s)} # S
            BY <3>1
        <3> HIDE DEF g
        <3> QED BY <1>3, <3>2
    <2>2. [s \in SUBSET S |-> IF s = {} THEN 0 ELSE w[Chosen(s)] + g[s \ {Chosen(s)}]]
            = [s \in SUBSET S |-> IF s = {} THEN 0
                                  ELSE w[Chosen(s)] + H(s \ {Chosen(s)})[s \ {Chosen(s)}]]
        BY <2>1
    <2> QED BY <2>2 DEF IsSum
<1> QED BY <1>1, <1>4

\* It adds naturals, and may take any element first.
LEMMA SumSplit ==
    ASSUME NEW U, IsFiniteSet(U), NEW w, \A a \in U : w[a] \in Nat, NEW g, IsSum(g, U, w),
           NEW S, S \subseteq U
    PROVE  g[S] \in Nat /\ \A x \in S : g[S] = w[x] + g[S \ {x}]
<1> DEFINE Good(T) == g[T] \in Nat /\ \A x \in T : g[T] = w[x] + g[T \ {x}]
           B == {T \in SUBSET U : ~Good(T)}
<1> SUFFICES ASSUME B # {} PROVE FALSE
    OBVIOUS
<1>0. B \subseteq SUBSET U
    OBVIOUS
<1>1. PICK T \in B : \A R \in B : R \subseteq T => R = T
    <2> HIDE DEF B
    <2> QED BY <1>0, MinimalSet
<1> DEFINE c == Chosen(T)
<1>2. T # {}
    <2> SUFFICES ASSUME T = {} PROVE Good(T)
        BY <1>1
    <2>1. g[T] = 0
        BY SumStep
    <2> QED BY <2>1
<1>3. c \in T
    BY <1>2, ChosenIn
<1>4. \A x \in T : Good(T \ {x})
    <2> SUFFICES ASSUME NEW x \in T PROVE Good(T \ {x})
        OBVIOUS
    <2>1. T \ {x} \in SUBSET U /\ T \ {x} # T /\ T \ {x} \subseteq T
        OBVIOUS
    <2> HIDE DEF Good
    <2> QED BY <1>1, <2>1
<1>5. g[T] = w[c] + g[T \ {c}]
    BY <1>2, SumStep
<1> HIDE DEF c
<1>6. \A x \in T : w[x] \in Nat /\ g[T \ {x}] \in Nat
    BY <1>4
<1>7. g[T] \in Nat
    BY <1>3, <1>5, <1>6
<1>8. ASSUME NEW x \in T PROVE g[T] = w[x] + g[T \ {x}]
    <2>1. CASE x = c
        BY <1>5, <2>1
    <2>2. CASE x # c
        <3>1. g[T \ {c}] = w[x] + g[(T \ {c}) \ {x}]
            BY <1>3, <1>4, <2>2
        <3>2. g[T \ {x}] = w[c] + g[(T \ {x}) \ {c}]
            BY <1>3, <1>4, <2>2
        <3>3. (T \ {c}) \ {x} = (T \ {x}) \ {c}
            OBVIOUS
        <3> DEFINE R == (T \ {c}) \ {x}
        <3>4. g[R] \in Nat
            <4>1. R \in SUBSET U /\ R # T /\ R \subseteq T
                OBVIOUS
            <4>2. Good(R)
                <5> HIDE DEF Good, R
                <5> QED BY <1>1, <4>1
            <4> QED BY <4>2
        <3>5. g[T \ {c}] = w[x] + g[R] /\ g[T \ {x}] = w[c] + g[R]
            BY <3>1, <3>2, <3>3
        <3> HIDE DEF R
        <3>6. w[x] \in Nat /\ w[c] \in Nat
            BY <1>3, <1>6
        <3> QED BY <1>5, <3>4, <3>5, <3>6
    <2> QED BY <2>1, <2>2
<1> QED BY <1>1, <1>7, <1>8

\* Induction over the naturals, for a set.
LEMMA Induct ==
    ASSUME NEW P, 0 \in P, \A n \in Nat : n \in P => n + 1 \in P
    PROVE  \A n \in Nat : n \in P
<1> DEFINE B == {n \in Nat : n \notin P}
<1> SUFFICES ASSUME B # {} PROVE FALSE
    OBVIOUS
<1>1. B \subseteq Nat
    OBVIOUS
<1>2. PICK n \in B : \A m \in B : ~(<<m, n>> \in OpToRel(<, Nat))
    <2> HIDE DEF B
    <2> QED BY <1>1, NatLessThanWellFounded, WFMin
<1>3. n # 0 /\ n - 1 \in Nat /\ n - 1 < n
    OBVIOUS
<1>4. n - 1 \notin B
    BY <1>2, <1>3 DEF OpToRel
<1> QED BY <1>3, <1>4

-----------------------------------------------------------------------------
(* Trading: the limits *)

\* Gross is a sum.
LEMMA GrossIsSum ==
    ASSUME NEW U, IsFiniteSet(U), NEW g, IsSum(g, U, [p \in U |-> p[2]]), NEW S, S \subseteq U
    PROVE  Gross(S) = g[S]
<1> DEFINE w == [p \in U |-> p[2]]
           Eq(h) == h = [s \in SUBSET S |-> IF s = {} THEN 0
                                            ELSE LET x == CHOOSE x \in s : TRUE
                                                 IN  x[2] + h[s \ {x}]]
           h == CHOOSE k : Eq(k)
           r == [s \in SUBSET S |-> g[s]]
<1>1. Gross(S) = h[S]
    BY DEF Gross, MapThenSumSet, MapThenFoldSet
<1>2. \A s \in SUBSET S : s # {} => Chosen(s) \in s
    BY ChosenIn
<1>3. Eq(r)
    <2>1. \A s \in SUBSET S : r[s] = IF s = {} THEN 0 ELSE Chosen(s)[2] + r[s \ {Chosen(s)}]
        <3> SUFFICES ASSUME NEW s \in SUBSET S
                     PROVE  g[s] = IF s = {} THEN 0 ELSE Chosen(s)[2] + g[s \ {Chosen(s)}]
            OBVIOUS
        <3>1. g[s] = IF s = {} THEN 0 ELSE w[Chosen(s)] + g[s \ {Chosen(s)}]
            BY SumStep
        <3>2. s # {} => w[Chosen(s)] = Chosen(s)[2]
            BY <1>2
        <3> QED BY <3>1, <3>2
    <2>2. r = [s \in SUBSET S |-> IF s = {} THEN 0 ELSE Chosen(s)[2] + r[s \ {Chosen(s)}]]
        BY <2>1
    <2> QED BY <2>2 DEF Chosen
<1>4. Eq(h)
    <2> HIDE DEF Eq
    <2> QED BY <1>3
<1>5. IsSum(h, S, w)
    <2> HIDE DEF h
    <2>1. h = [s \in SUBSET S |-> IF s = {} THEN 0 ELSE Chosen(s)[2] + h[s \ {Chosen(s)}]]
        BY <1>4 DEF Chosen
    <2>2. [s \in SUBSET S |-> IF s = {} THEN 0 ELSE Chosen(s)[2] + h[s \ {Chosen(s)}]]
            = [s \in SUBSET S |-> IF s = {} THEN 0 ELSE w[Chosen(s)] + h[s \ {Chosen(s)}]]
        BY <1>2
    <2> QED BY <2>1, <2>2 DEF IsSum
<1>6. IsFiniteSet(S)
    BY FS_Subset
<1> HIDE DEF h, w, r, Eq
<1>7. IsSum(g, U, w)
    BY DEF w
<1>8. S \subseteq S
    OBVIOUS
<1>9. PICK v, k : v = w /\ k = h
    OBVIOUS
<1>10. g[S] = k[S]
    BY <1>5, <1>6, <1>7, <1>8, <1>9, SumUnique
<1> QED BY <1>1, <1>9, <1>10

\* The gross exposure adds up the positions.
LEMMA GrossSplit ==
    ASSUME NEW S, IsFiniteSet(S), \A p \in S : p[2] \in Nat
    PROVE  Gross(S) \in Nat /\ \A x \in S : Gross(S) = x[2] + Gross(S \ {x})
<1> DEFINE w == [p \in S |-> p[2]]
<1>1. PICK g : IsSum(g, S, w)
    BY SumExists
<1>2. \A T \in SUBSET S : Gross(T) = g[T]
    BY <1>1, GrossIsSum
<1>3. \A a \in S : w[a] \in Nat
    OBVIOUS
<1> HIDE DEF w
<1>4. g[S] \in Nat /\ \A x \in S : g[S] = w[x] + g[S \ {x}]
    BY <1>1, <1>3, SumSplit
<1>5. \A x \in S : w[x] = x[2] /\ S \ {x} \in SUBSET S
    BY DEF w
<1> QED BY <1>2, <1>4, <1>5

\* The smaller of two numbers.
LEMMA MinOfTwo ==
    ASSUME NEW a \in Int, NEW b \in Int
    PROVE  Min({a, b}) \in {a, b} /\ Min({a, b}) <= a /\ Min({a, b}) <= b
<1>1. \E x \in {a, b} : \A y \in {a, b} : x <= y
    OBVIOUS
<1> QED BY <1>1 DEF Min

\* A size the risk check approves for a portfolio.
Fits(exposures, n) == Cardinality(exposures) < MaxPositions /\ n \in ApprovedSizes(exposures)

\* remaining_notional_capacity leaves no more than the limit.
LEMMA SizeFits ==
    ASSUME NEW S, IsFiniteSet(S), \A p \in S : p[2] \in Nat, NEW n, Fits(S, n)
    PROVE  n \in Nat /\ n + Gross(S) <= MaxGross
<1>1. Gross(S) \in Nat /\ MaxGross \in Nat
    BY GrossSplit, TradingAssumption
<1>0. MaxGross \in Int /\ Gross(S) \in Int
    BY <1>1
<1>2. /\ Min({MaxGross, Gross(S)}) \in {MaxGross, Gross(S)}
      /\ Min({MaxGross, Gross(S)}) <= MaxGross /\ Min({MaxGross, Gross(S)}) <= Gross(S)
    BY <1>0, MinOfTwo
<1> DEFINE left == MaxGross - Min({MaxGross, Gross(S)})
           asked == Requested(Cardinality(S))
<1>3. left \in Int /\ (left > 0 => left + Gross(S) = MaxGross)
    BY <1>1, <1>2
<1>4. asked \in Int
    BY TradingAssumption DEF Requested
<1>5. n \in 1..Min({asked, left})
    BY DEF Fits, ApprovedSizes, Capacity
<1> HIDE DEF left, asked
<1>6. Min({asked, left}) \in Int /\ Min({asked, left}) <= left
    BY <1>3, <1>4, MinOfTwo
<1> QED BY <1>1, <1>3, <1>5, <1>6

\* The positions in the rows are finitely many, with numbers for sizes.
LEMMA DurableFinite ==
    ASSUME Shapes
    PROVE  IsFiniteSet(DurableExposures) /\ \A p \in DurableExposures : p[2] \in Nat
<1> DEFINE f == [c \in FilledOrders |-> <<c, paperOrders[c].notional>>]
<1>1. IsFiniteSet(FilledOrders)
    BY FS_Subset, TradingAssumption DEF FilledOrders
<1>2. f \in Surjection(FilledOrders, DurableExposures)
    BY DEF Surjection, DurableExposures
<1> HIDE DEF f
<1>3. IsFiniteSet(DurableExposures)
    BY <1>1, <1>2, FS_Surjection
<1>4. \A p \in DurableExposures : p[2] \in Nat
    BY DEF DurableExposures, FilledOrders, Shapes, OrderRecord
<1> QED BY <1>3, <1>4

\* One position more, of a size that fits.
LEMMA LimitsKeptByAdding ==
    ASSUME Shapes, ExposureWithinLimits, NEW x, x \notin DurableExposures,
           Fits(DurableExposures, x[2]), DurableExposures' = DurableExposures \cup {x}
    PROVE  ExposureWithinLimits'
<1> DEFINE S == DurableExposures  T == S \cup {x}
<1>1. IsFiniteSet(S) /\ \A p \in S : p[2] \in Nat
    BY DurableFinite
<1>2. x[2] \in Nat /\ x[2] + Gross(S) <= MaxGross
    BY <1>1, SizeFits
<1>3. /\ IsFiniteSet(T)
      /\ Cardinality(T) = Cardinality(S) + 1
      /\ Cardinality(S) \in Nat
    BY <1>1, FS_AddElement, FS_CardinalityType
<1>4. T \ {x} = S /\ x \in T /\ \A p \in T : p[2] \in Nat
    BY <1>1, <1>2
<1>5. Gross(T) = x[2] + Gross(S)
    <2> HIDE DEF T, S
    <2> QED BY <1>3, <1>4, GrossSplit
<1>6. Cardinality(T) <= MaxPositions
    BY <1>3, TradingAssumption DEF Fits
<1>7. Gross(T) <= MaxGross
    BY <1>2, <1>5
<1> QED BY <1>6, <1>7 DEF ExposureWithinLimits

\* One position less.
LEMMA LimitsKeptByRemoving ==
    ASSUME Shapes, ExposureWithinLimits, NEW x, DurableExposures' = DurableExposures \ {x}
    PROVE  ExposureWithinLimits'
<1> DEFINE S == DurableExposures  T == S \ {x}
<1>1. IsFiniteSet(S) /\ \A p \in S : p[2] \in Nat
    BY DurableFinite
<1>2. IsFiniteSet(T) /\ \A p \in T : p[2] \in Nat
    BY <1>1, FS_Subset
<1>3. Cardinality(T) <= Cardinality(S) /\ Cardinality(T) \in Nat /\ Cardinality(S) \in Nat
    BY <1>1, <1>2, FS_Subset, FS_CardinalityType
<1>4. Gross(S) \in Nat /\ Gross(T) \in Nat
    BY <1>1, <1>2, GrossSplit
<1>5. CASE x \in S
    <2>1. Gross(S) = x[2] + Gross(T) /\ x[2] \in Nat
        BY <1>1, <1>5, GrossSplit
    <2>2. Gross(T) <= MaxGross /\ Cardinality(T) <= MaxPositions
        BY <1>3, <1>4, <2>1, TradingAssumption DEF ExposureWithinLimits
    <2> QED BY <2>2 DEF ExposureWithinLimits
<1>6. CASE x \notin S
    <2>1. DurableExposures' = DurableExposures
        BY <1>6
    <2> QED BY <2>1 DEF ExposureWithinLimits
<1> QED BY <1>5, <1>6

\* An approval that can still be consumed fits the portfolio it was made for,
\* and the rows are within the limits.
RowsFit ==
    /\ \A c \in Candles : approvals[c].status = "ACTIVE" =>
          Fits(approvals[c].snapshot, approvals[c].notional)
    /\ ExposureWithinLimits

\* So does a size the risk check has just approved.
CyclesFit ==
    \A t \in Cycles : cycle[t].step = "approve" => Fits(cycle[t].snapshot, cycle[t].notional)

\* Steps that write neither kind of row.
LEMMA SameRowsFit ==
    ASSUME RowsFit, UNCHANGED <<approvals, paperOrders>>
    PROVE  RowsFit'
BY DEF RowsFit, ExposureWithinLimits, DurableExposures, FilledOrders

\* A close that is saved takes a position out of the rows.
LEMMA CloseFits ==
    ASSUME Shapes, RowsFit, NEW o \in Candles, UNCHANGED approvals,
           paperOrders' = [paperOrders EXCEPT ![o].status = "CLOSED"]
    PROVE  RowsFit'
<1>1. /\ paperOrders'[o].status = "CLOSED"
      /\ \A c \in Candles : c # o => paperOrders'[c] = paperOrders[c]
    BY DEF Shapes, OrderRecord
<1>2. DurableExposures' = DurableExposures \ {<<o, paperOrders[o].notional>>}
    BY <1>1 DEF DurableExposures, FilledOrders
<1>3. ExposureWithinLimits'
    BY <1>2, LimitsKeptByRemoving DEF RowsFit
<1> QED BY <1>3 DEF RowsFit

\* An approval is saved for a size that fits its snapshot.
LEMMA IssueFits ==
    ASSUME Shapes, RowsFit, NEW c \in Candles, NEW s, NEW n, Fits(s, n), UNCHANGED paperOrders,
           approvals' = [approvals EXCEPT ![c] = [status |-> "ACTIVE", snapshot |-> s, notional |-> n]]
    PROVE  RowsFit'
<1>1. /\ approvals'[c].snapshot = s /\ approvals'[c].notional = n
      /\ \A d \in Candles : d # c => approvals'[d] = approvals[d]
    BY DEF Shapes
<1>2. ExposureWithinLimits'
    BY DEF RowsFit, ExposureWithinLimits, DurableExposures, FilledOrders
<1> QED BY <1>1, <1>2 DEF RowsFit

\* An approval is consumed only for the portfolio it was made for, so the
\* position it adds still fits.
LEMMA ConsumeFits ==
    ASSUME Shapes, RowsFit, NEW c \in Candles, MayConsumeApproval(c), ConsumedRows(c)
    PROVE  RowsFit'
<1> DEFINE x == <<c, approvals[c].notional>>
<1>1. /\ \A d \in Candles : d # c => paperOrders'[d] = paperOrders[d]
      /\ paperOrders[c].status = "NONE" /\ paperOrders'[c].status = "FILLED"
      /\ paperOrders'[c].notional = approvals[c].notional
    BY ConsumedFacts
<1>2. DurableExposures' = DurableExposures \cup {x} /\ x \notin DurableExposures
    BY <1>1 DEF DurableExposures, FilledOrders
<1>3. Fits(DurableExposures, x[2])
    BY DEF RowsFit, MayConsumeApproval
<1>4. ExposureWithinLimits'
    <2> HIDE DEF x
    <2> QED BY <1>2, <1>3, LimitsKeptByAdding DEF RowsFit
<1>5. \A d \in Candles : approvals'[d].status = "ACTIVE" => approvals'[d] = approvals[d]
    BY DEF ConsumedRows, Shapes, ApprovalRecord
<1> QED BY <1>4, <1>5 DEF RowsFit

\* The risk check approves a size that fits the positions it has read.
LEMMA CheckFits ==
    ASSUME TradingInv, CyclesFit, NEW t \in Cycles, CheckRisk(t)
    PROVE  CyclesFit'
<1>0. cycle \in [Cycles -> CycleRecord]
    BY DEF TradingInv, Shapes
<1>1. CASE EndCycle(t)
    BY <1>0, <1>1, EndFacts DEF CyclesFit
<1>2. ASSUME PositionSlotFree(positions), NEW n \in ApprovedSizes(positions),
             cycle' = [cycle EXCEPT ![t].step = "approve", ![t].snapshot = positions,
                                    ![t].notional = n]
      PROVE  CyclesFit'
    <2>1. /\ cycle'[t].snapshot = positions /\ cycle'[t].notional = n
          /\ \A u \in Cycles : u # t => cycle'[u] = cycle[u]
        BY <1>0, <1>2 DEF CycleRecord
    <2>2. Fits(positions, n)
        BY <1>2 DEF Fits, PositionSlotFree
    <2> QED BY <2>1, <2>2 DEF CyclesFit
<1> QED BY <1>1, <1>2 DEF CheckRisk

\* Any other step of a cycle leaves no fresh size behind.
LEMMA OthersFit ==
    ASSUME TradingInv, CyclesFit, NEW t \in Cycles,
           \/ \E c \in Candles : CandleArrives(t, c)
           \/ CycleStep(t) /\ ~CheckRisk(t)
           \/ CallFails(t)
    PROVE  CyclesFit'
<1>0. cycle \in [Cycles -> CycleRecord]
    BY DEF TradingInv, Shapes
<1>1. ASSUME NEW s \in CycleSteps \ {"approve"}, CycleGoto(t, s) PROVE CyclesFit'
    BY <1>0, <1>1, GotoFacts DEF CyclesFit
<1>2. ASSUME EndCycle(t) PROVE CyclesFit'
    BY <1>0, <1>2, EndFacts DEF CyclesFit
<1>3. ASSUME NEW r, r.step # "approve", cycle' = [cycle EXCEPT ![t] = r] PROVE CyclesFit'
    BY <1>0, <1>3 DEF CyclesFit
<1>4. ASSUME NEW c \in Candles, CandleArrives(t, c) PROVE CyclesFit'
    <2> DEFINE r == [IdleCycle EXCEPT !.step = "store", !.candle = c]
    <2>1. r.step = "store" /\ cycle' = [cycle EXCEPT ![t] = r]
        BY <1>4 DEF CandleArrives, IdleCycle
    <2> HIDE DEF r
    <2> QED BY <2>1, <1>3
<1>5. CASE BeginMonitoring(t)
    <2>1. ASSUME NEW exits, cycle' = [cycle EXCEPT ![t].step = "monitor", ![t].exits = exits]
          PROVE  CyclesFit'
        <3>1. /\ cycle'[t].step = "monitor"
              /\ \A u \in Cycles : u # t => cycle'[u] = cycle[u]
            BY <1>0, <2>1 DEF CycleRecord
        <3> QED BY <3>1 DEF CyclesFit
    <2> QED BY <1>2, <1>5, <2>1 DEF BeginMonitoring
<1>6. CASE BeginClose(t)
    <2>1. ASSUME NEW o, cycle' = [cycle EXCEPT ![t].step = "close", ![t].order = o,
                                               ![t].exits = @ \ {o}]
          PROVE  CyclesFit'
        <3>1. /\ cycle'[t].step = "close"
              /\ \A u \in Cycles : u # t => cycle'[u] = cycle[u]
            BY <1>0, <2>1 DEF CycleRecord
        <3> QED BY <3>1 DEF CyclesFit
    <2> QED BY <1>2, <1>6, <2>1 DEF BeginClose
<1>7. {"stored", "closed", "monitor", "agents", "decide", "check", "submit", "consume", "accept"}
        \subseteq CycleSteps \ {"approve"}
    BY DEF CycleSteps
<1>8. CASE StoreCandle(t) \/ SaveClose(t) \/ BookClose(t) \/ PassGate(t) \/ RunAgents(t)
    BY <1>1, <1>2, <1>7, <1>8 DEF StoreCandle, SaveClose, BookClose, PassGate, RunAgents
<1>9. CASE \/ Decide(t) \/ IssueApproval(t) \/ SubmitOrder(t) \/ ConsumeApproval(t)
           \/ AcceptOrder(t) \/ CallFails(t)
    BY <1>1, <1>2, <1>7, <1>9 DEF Decide, IssueApproval, SubmitOrder, ConsumeApproval,
       AcceptOrder, CallFails
<1> QED BY <1>4, <1>5, <1>6, <1>8, <1>9 DEF CycleStep

\* What a step or a failed call does to the rows.
LEMMA StepFits ==
    ASSUME TradingInv, RowsFit, CyclesFit, NEW t \in Cycles, CycleStep(t) \/ CallFails(t)
    PROVE  RowsFit'
<1>0. Shapes
    BY DEF TradingInv
<1>1. CASE UNCHANGED <<approvals, paperOrders>>
    BY <1>1, SameRowsFit
<1>2. ASSUME CycleAt(t, "close"), UNCHANGED approvals,
             paperOrders' = [paperOrders EXCEPT ![cycle[t].order].status = "CLOSED"]
      PROVE  RowsFit'
    <2>1. cycle[t].order \in Candles
        BY <1>2, <1>0 DEF CycleAt, Shapes
    <2> QED BY <1>0, <1>2, <2>1, CloseFits
<1>3. ASSUME CycleAt(t, "approve"), UNCHANGED paperOrders,
             approvals' = [approvals EXCEPT ![cycle[t].candle] = [status |-> "ACTIVE",
                              snapshot |-> cycle[t].snapshot, notional |-> cycle[t].notional]]
      PROVE  RowsFit'
    <2>1. cycle[t].candle \in Candles /\ Fits(cycle[t].snapshot, cycle[t].notional)
        BY <1>3, <1>0 DEF CycleAt, Shapes, CyclesFit
    <2> QED BY <1>0, <1>3, <2>1, IssueFits
<1>4. ASSUME CycleAt(t, "consume"), MayConsumeApproval(cycle[t].candle),
             ConsumedRows(cycle[t].candle)
      PROVE  RowsFit'
    <2>1. cycle[t].candle \in Candles
        BY <1>4, <1>0 DEF CycleAt, Shapes
    <2> QED BY <1>0, <1>4, <2>1, ConsumeFits
<1>5. CASE CallFails(t)
    BY <1>1, <1>2, <1>3, <1>4, <1>5 DEF CallFails, CommittedAnyway, tradingRows
<1>6. CASE SaveClose(t) \/ IssueApproval(t) \/ ConsumeApproval(t)
    BY <1>1, <1>2, <1>3, <1>4, <1>6 DEF SaveClose, IssueApproval, ConsumeApproval
<1>7. CASE \/ StoreCandle(t) \/ BeginMonitoring(t) \/ BeginClose(t) \/ BookClose(t)
           \/ PassGate(t) \/ RunAgents(t) \/ Decide(t) \/ CheckRisk(t) \/ SubmitOrder(t)
           \/ AcceptOrder(t)
    <2>1. UNCHANGED <<approvals, paperOrders>>
        BY <1>7 DEF StoreCandle, BeginMonitoring, BeginClose, BookClose, PassGate, RunAgents,
           Decide, CheckRisk, SubmitOrder, AcceptOrder, tradingRows
    <2> QED BY <2>1, <1>1
<1> QED BY <1>5, <1>6, <1>7 DEF CycleStep

\* Every step keeps both.
LEMMA FitsKept ==
    ASSUME TradingInv, RowsFit, CyclesFit, [TradingNext]_tradingVars
    PROVE  RowsFit' /\ CyclesFit'
<1>1. ASSUME NEW t \in Cycles, NEW c \in Candles, CandleArrives(t, c)
      PROVE  RowsFit' /\ CyclesFit'
    <2>1. UNCHANGED <<approvals, paperOrders>>
        BY <1>1 DEF CandleArrives, tradingRows
    <2> QED BY <1>1, <2>1, SameRowsFit, OthersFit
<1>2. ASSUME NEW t \in Cycles, CycleStep(t) \/ CallFails(t) PROVE RowsFit' /\ CyclesFit'
    <2>1. RowsFit'
        BY <1>2, StepFits
    <2>2. CyclesFit'
        BY <1>2, CheckFits, OthersFit
    <2> QED BY <2>1, <2>2
<1>3. CASE CrashTrading
    <2>1. UNCHANGED <<approvals, paperOrders>> /\ \A t \in Cycles : cycle'[t].step = "idle"
        BY <1>3, IdleRecord DEF CrashTrading, tradingRows
    <2> QED BY <2>1, SameRowsFit DEF CyclesFit
<1>4. CASE GateRecovers \/ UNCHANGED tradingVars
    <2>1. UNCHANGED <<approvals, paperOrders, cycle>>
        BY <1>4 DEF GateRecovers, tradingVars, tradingRows
    <2> QED BY <2>1, SameRowsFit DEF CyclesFit
<1> QED BY <1>1, <1>2, <1>3, <1>4 DEF TradingNext

\* There are no positions and no approvals at first.
LEMMA FitsInit == ASSUME TradingInit PROVE RowsFit /\ CyclesFit
<1>1. DurableExposures = {}
    BY DEF TradingInit, DurableExposures, FilledOrders, NoRow
<1>2. Cardinality({}) = 0 /\ IsFiniteSet({})
    BY FS_EmptySet
<1>3. PICK g : IsSum(g, {}, [p \in {} |-> p[2]])
    BY <1>2, SumExists
<1>4. Gross({}) = 0
    BY <1>2, <1>3, GrossIsSum, SumStep
<1>5. ExposureWithinLimits
    BY <1>1, <1>2, <1>4, TradingAssumption DEF ExposureWithinLimits
<1>6. \A c \in Candles : approvals[c].status # "ACTIVE"
    BY DEF TradingInit, NoApproval
<1>7. \A t \in Cycles : cycle[t].step # "approve"
    BY IdleRecord DEF TradingInit
<1> QED BY <1>5, <1>6, <1>7 DEF RowsFit, CyclesFit

\* risk/manager.py check and consume_approval, consume_order_approval: the open
\* orders of the database never exceed the gross exposure or the number of
\* positions allowed, although concurrent cycles are checked against the same
\* portfolio, answers are lost and the process restarts.
THEOREM LimitsHold == TradingSpec => []ExposureWithinLimits
<1>1. TradingInit => TradingInv /\ RowsFit /\ CyclesFit
    BY TradingInitInv, FitsInit
<1>2. TradingInv /\ RowsFit /\ CyclesFit /\ [TradingNext]_tradingVars
        => (TradingInv /\ RowsFit /\ CyclesFit)'
    BY TradingStepInv, FitsKept
<1>3. RowsFit => ExposureWithinLimits
    BY DEF RowsFit
<1> QED BY <1>1, <1>2, <1>3, PTL DEF TradingSpec

-----------------------------------------------------------------------------
(* Consensus: the active experiment and its veto *)

Activations(events) == {e \in events : e.type = "ACTIVATED"}

\* Events have a time, and if one is an activation there is a latest one.
Dated(events) ==
    /\ \A e \in events : e.time \in Nat
    /\ \/ Activations(events) = {}
       \/ \E e \in Activations(events) : \A f \in Activations(events) : f.time <= e.time

Activated(experiment) == \E e \in Activations(lifecycleRows) : e.experiment = experiment

\* Memory holds only stored events, and all of them unless an answer was lost.
\* What an evaluation acts on was activated, and a veto is one.
ConsensusInv ==
    /\ writesLost \in Nat
    /\ caller = [c \in Callers |-> caller[c]] /\ \A c \in Callers : caller[c].time \in Nat
    /\ Dated(lifecycle) /\ Dated(lifecycleRows)
    /\ lifecycle \subseteq lifecycleRows
    /\ writesLost = 0 => lifecycle = lifecycleRows
    /\ evaluating # NoEvaluation /\ evaluating.experiment \in Confirming =>
          Activated(evaluating.experiment)
    /\ consensus.final # consensus.baseline =>
          /\ consensus.final = "WAIT" /\ consensus.experiment \in Confirming
          /\ Activated(consensus.experiment)

\* The latest activation is one of the events.
LEMMA ActiveIsActivated ==
    ASSUME NEW events, Dated(events), ActivatedExperiment(events) # Default
    PROVE  \E e \in Activations(events) : e.experiment = ActivatedExperiment(events)
<1> DEFINE last == CHOOSE e \in Activations(events) : \A f \in Activations(events) : f.time <= e.time
<1>1. Activations(events) # {} /\ ActivatedExperiment(events) = last.experiment
    BY DEF ActivatedExperiment, Activations
<1>2. last \in Activations(events)
    <2>1. \E e \in Activations(events) : \A f \in Activations(events) : f.time <= e.time
        BY <1>1 DEF Dated
    <2> QED BY <2>1
<1> HIDE DEF last
<1> QED BY <1>1, <1>2

\* One more event keeps a latest activation.
LEMMA DatedGrows ==
    ASSUME NEW events, Dated(events), NEW event, event.time \in Nat
    PROVE  Dated(events \cup {event})
<1> DEFINE more == events \cup {event}
<1>1. \A e \in more : e.time \in Nat
    BY DEF Dated
<1>2. CASE event.type # "ACTIVATED"
    <2>1. Activations(more) = Activations(events)
        BY <1>2 DEF Activations
    <2> QED BY <1>1, <2>1 DEF Dated
<1>3. CASE event.type = "ACTIVATED"
    <2>1. Activations(more) = Activations(events) \cup {event}
        BY <1>3 DEF Activations
    <2>2. \E e \in Activations(more) : \A f \in Activations(more) : f.time <= e.time
        <3>1. CASE Activations(events) = {}
            <4>1. \A f \in Activations(more) : f.time <= event.time
                BY <2>1, <3>1
            <4> QED BY <2>1, <4>1
        <3>2. CASE Activations(events) # {}
            <4>1. PICK e \in Activations(events) : \A f \in Activations(events) : f.time <= e.time
                BY <3>2 DEF Dated
            <4>2. e.time \in Nat /\ \A f \in Activations(events) : f.time \in Nat
                BY <1>1 DEF Activations
            <4>3. CASE event.time <= e.time
                BY <2>1, <4>1, <4>2, <4>3
            <4>4. CASE ~(event.time <= e.time)
                <5>1. \A f \in Activations(more) : f.time <= event.time
                    BY <2>1, <4>1, <4>2, <4>4
                <5> QED BY <2>1, <5>1
            <4> QED BY <4>3, <4>4
        <3> QED BY <3>1, <3>2
    <2> QED BY <1>1, <2>2 DEF Dated
<1> QED BY <1>2, <1>3

LEMMA BeginsInv ==
    ASSUME ConsensusInv, NEW c \in Callers, NEW event, event.time \in Nat, Begins(c, event)
    PROVE  ConsensusInv'
<1>1. UNCHANGED <<lifecycleRows, lifecycle, evaluating, consensus, writesLost>>
    BY DEF Begins, registry
<1>2. /\ caller' = [d \in Callers |-> caller'[d]]
      /\ \A d \in Callers : caller'[d].time \in Nat
    BY DEF Begins, ConsensusInv
<1> QED BY <1>1, <1>2 DEF ConsensusInv, Dated, Activated

\* The event of a call reaches the rows, and with its answer the memory.
LEMMA SaveLifecycleInv ==
    ASSUME ConsensusInv, NEW c \in Callers, SaveLifecycle(c) \/ SaveLifecycleFails(c)
    PROVE  ConsensusInv'
<1> DEFINE event == caller[c]
<1>1. /\ event.time \in Nat /\ caller' = [caller EXCEPT ![c] = NoCall] /\ UNCHANGED <<evaluating, consensus>>
    BY DEF SaveLifecycle, SaveLifecycleFails, ConsensusInv
<1>2. /\ caller' = [d \in Callers |-> caller'[d]]
      /\ \A d \in Callers : caller'[d].time \in Nat
    BY <1>1 DEF ConsensusInv, NoCall
<1>3. \/ UNCHANGED <<lifecycleRows, lifecycle, writesLost>>
      \/ /\ lifecycleRows' = lifecycleRows \cup {event} /\ lifecycle' = lifecycle \cup {event}
         /\ writesLost' = writesLost
      \/ /\ lifecycleRows' = lifecycleRows \cup {event} /\ lifecycle' = lifecycle
         /\ writesLost' = writesLost + 1
    BY DEF SaveLifecycle, SaveLifecycleFails, SavedRows, registry
<1>4. Dated(lifecycle \cup {event}) /\ Dated(lifecycleRows \cup {event})
    BY <1>1, DatedGrows DEF ConsensusInv
<1> HIDE DEF event
<1>5. /\ Dated(lifecycle') /\ Dated(lifecycleRows')
      /\ lifecycleRows \subseteq lifecycleRows' /\ lifecycle' \subseteq lifecycleRows'
      /\ writesLost' \in Nat /\ (writesLost' = 0 => lifecycle' = lifecycleRows')
    <2>1. CASE UNCHANGED <<lifecycleRows, lifecycle, writesLost>>
        BY <2>1 DEF ConsensusInv, Dated
    <2>2. CASE /\ lifecycleRows' = lifecycleRows \cup {event} /\ lifecycle' = lifecycle \cup {event}
               /\ writesLost' = writesLost
        BY <1>4, <2>2 DEF ConsensusInv
    <2>3. CASE /\ lifecycleRows' = lifecycleRows \cup {event} /\ lifecycle' = lifecycle
               /\ writesLost' = writesLost + 1
        BY <1>4, <2>3 DEF ConsensusInv
    <2> QED BY <1>3, <2>1, <2>2, <2>3
<1>6. \A x : Activated(x) => Activated(x)'
    BY <1>5 DEF Activated, Activations
<1> QED BY <1>1, <1>2, <1>5, <1>6 DEF ConsensusInv, Dated

LEMMA EvaluationInv ==
    ASSUME ConsensusInv,
           FinishEvaluation \/ \E baseline \in {"BUY", "WAIT"} : BeginEvaluation(baseline)
    PROVE  ConsensusInv'
<1>1. UNCHANGED <<lifecycleRows, lifecycle, caller, writesLost>>
    BY DEF FinishEvaluation, BeginEvaluation, registry
<1>2. \A x : Activated(x) => Activated(x)'
    BY <1>1 DEF Activated
<1>3. CASE FinishEvaluation
    <2>1. consensus'.final # consensus'.baseline =>
              /\ consensus'.final = "WAIT" /\ consensus'.experiment \in Confirming
              /\ consensus'.experiment = evaluating.experiment
        <3>1. PICK eligible \in SUBSET ShadowAgents : FinishEvaluation!2!(eligible)
            BY <1>3 DEF FinishEvaluation
        <3>2. CASE Cardinality(eligible) < MinEligible
            BY <3>1, <3>2 DEF NoConsensus
        <3>3. CASE ~(Cardinality(eligible) < MinEligible)
            <4>1. PICK scores, signal :
                    consensus' = [status |-> "READY", experiment |-> evaluating.experiment,
                                  baseline |-> evaluating.baseline,
                                  final |-> FinalAction(evaluating.experiment, evaluating.baseline,
                                                        signal),
                                  scores |-> scores, capped |-> CappedAgents(scores)]
                BY <3>1, <3>3, Zenon
            <4>2. /\ consensus'.final = FinalAction(evaluating.experiment, evaluating.baseline, signal)
                  /\ consensus'.experiment = evaluating.experiment
                  /\ consensus'.baseline = evaluating.baseline
                BY <4>1
            <4> QED BY <4>2 DEF FinalAction
        <3> QED BY <3>2, <3>3
    <2>2. evaluating # NoEvaluation /\ evaluating' = NoEvaluation
        BY <1>3 DEF FinishEvaluation
    <2> QED BY <1>1, <1>2, <2>1, <2>2 DEF ConsensusInv, Dated
<1>4. ASSUME NEW baseline \in {"BUY", "WAIT"}, BeginEvaluation(baseline) PROVE ConsensusInv'
    <2>1. evaluating'.experiment = ActivatedExperiment(lifecycle) /\ consensus' = consensus
        BY <1>4 DEF BeginEvaluation
    <2>2. evaluating'.experiment \in Confirming => Activated(evaluating'.experiment)
        <3>1. Default \notin Confirming
            BY ConsensusAssumption
        <3>2. evaluating'.experiment \in Confirming =>
                 \E e \in Activations(lifecycle) : e.experiment = evaluating'.experiment
            BY <2>1, <3>1, ActiveIsActivated DEF ConsensusInv
        <3> QED BY <3>2 DEF ConsensusInv, Activated, Activations
    <2> QED BY <1>1, <1>2, <2>1, <2>2 DEF ConsensusInv, Dated
<1> QED BY <1>3, <1>4

LEMMA ConsensusStepInv == ASSUME ConsensusInv, [ConsensusNext]_consensusVars PROVE ConsensusInv'
<1>1. CASE UNCHANGED consensusVars
    BY <1>1 DEF consensusVars, registry, ConsensusInv, Dated, Activated
<1>2. CASE RestartConsensus
    <2>1. \A c \in Callers : caller'[c].time \in Nat
        BY <1>2 DEF RestartConsensus, NoCall
    <2>2. consensus'.final = consensus'.baseline
        BY <1>2 DEF RestartConsensus, NoConsensus
    <2> QED BY <1>2, <2>1, <2>2 DEF RestartConsensus, ConsensusInv, Dated
<1>3. ASSUME NEW c \in Callers, NEW e \in Experiments, NEW t \in EventTimes,
             \/ RegisterExperiment(c, e, t)
             \/ \E type \in {"ACTIVATED", "RETIRED"} : RecordLifecycle(c, type, e, t)
      PROVE  ConsensusInv'
    <2>1. PICK type : Begins(c, [type |-> type, experiment |-> e, time |-> t])
        BY <1>3 DEF RegisterExperiment, RecordLifecycle
    <2>2. [type |-> type, experiment |-> e, time |-> t].time \in Nat
        BY ConsensusAssumption
    <2> QED BY <2>1, <2>2, BeginsInv
<1> QED BY <1>1, <1>2, <1>3, SaveLifecycleInv, EvaluationInv DEF ConsensusNext

LEMMA ConsensusInvariant == ConsensusSpec => []ConsensusInv
<1>1. ConsensusInit => ConsensusInv
    BY DEF ConsensusInit, ConsensusInv, Dated, Activations, NoCall, NoConsensus
<1> QED BY <1>1, ConsensusStepInv, PTL DEF ConsensusSpec

\* A direction is vetoed only in CONFIRMATION mode under an experiment whose
\* activation is stored, whatever calls, lost answers and restarts interleave
\* with the evaluation (orchestrator/portfolio_consensus.py evaluate).
THEOREM VetoesNeedActivation == ConsensusSpec => []VetoNeedsActivation
<1>1. ConsensusInv => VetoNeedsActivation
    BY DEF ConsensusInv, VetoNeedsActivation, Activated, Activations
<1> QED BY <1>1, ConsensusInvariant, PTL

\* ConsensusExperimentService.initialize restores the experiment that was
\* active, unless an answer was lost.
THEOREM RestartsKeepExperiment == ConsensusSpec => RestartKeepsExperiment
<1> DEFINE Kept == RestartConsensus /\ writesLost = 0 =>
                      ActivatedExperiment(lifecycle') = ActivatedExperiment(lifecycle)
<1>1. ConsensusInv /\ [ConsensusNext]_consensusVars => [Kept]_consensusVars
    BY DEF ConsensusInv, RestartConsensus
<1> QED BY <1>1, ConsensusInvariant, PTL DEF ConsensusSpec, RestartKeepsExperiment

-----------------------------------------------------------------------------
(* Consensus: the weights.  Each round of _capped_weights leaves weight to *)
(* distribute, so it never runs out of agents, and after as many rounds as *)
(* there are agents nobody is left to cap.                                 *)

\* The scores of a set of agents, and the weight left beside the capped ones,
\* in units of 1 / CapDen.
Total(scores, S) == MapThenSumSet(LAMBDA a : scores[a], S)
Mass(capped) == CapDen - CapNum * Cardinality(capped)

\* Total is a sum.
LEMMA TotalIsSum ==
    ASSUME NEW w, NEW U, IsFiniteSet(U), NEW g, IsSum(g, U, w), NEW S, S \subseteq U
    PROVE  Total(w, S) = g[S]
<1> DEFINE h == CHOOSE k : IsSum(k, S, w)
<1>1. Total(w, S) = h[S]
    BY DEF Total, MapThenSumSet, MapThenFoldSet, IsSum, Chosen
<1>2. IsFiniteSet(S)
    BY FS_Subset
<1>3. IsSum(h, S, w)
    BY <1>2, SumExists
<1> HIDE DEF h
<1>4. PICK k : k = h
    OBVIOUS
<1>5. S \subseteq S
    OBVIOUS
<1>6. g[S] = k[S]
    BY <1>2, <1>3, <1>4, <1>5, SumUnique
<1> QED BY <1>1, <1>4, <1>6

\* It adds up, in any order.
LEMMA TotalSplit ==
    ASSUME NEW w, NEW S, IsFiniteSet(S), \A a \in S : w[a] \in Nat
    PROVE  Total(w, S) \in Nat /\ \A x \in S : Total(w, S) = w[x] + Total(w, S \ {x})
<1>1. PICK g : IsSum(g, S, w)
    BY SumExists
<1>2. \A T \in SUBSET S : Total(w, T) = g[T]
    BY <1>1, TotalIsSum
<1>0. S \subseteq S
    OBVIOUS
<1>3. g[S] \in Nat /\ \A x \in S : g[S] = w[x] + g[S \ {x}]
    <2> DEFINE T == S
    <2>1. IsFiniteSet(S) /\ (\A a \in S : w[a] \in Nat) /\ IsSum(g, S, w) /\ T \subseteq S
        BY <1>1
    <2> HIDE DEF T
    <2>2. g[T] \in Nat /\ \A x \in T : g[T] = w[x] + g[T \ {x}]
        BY <2>1, SumSplit
    <2> QED BY <2>2 DEF T
<1>4. S \in SUBSET S /\ \A x \in S : S \ {x} \in SUBSET S
    OBVIOUS
<1> QED BY <1>2, <1>3, <1>4

\* More agents weigh no less.
LEMMA TotalMonotone ==
    ASSUME NEW w, NEW S, IsFiniteSet(S), \A a \in S : w[a] \in Nat, NEW T, T \subseteq S
    PROVE  Total(w, T) <= Total(w, S)
<1> DEFINE Good(R) == \A Q \in SUBSET R : Total(w, Q) <= Total(w, R)
           B == {R \in SUBSET S : ~Good(R)}
<1> SUFFICES ASSUME B # {} PROVE FALSE
    OBVIOUS
<1>0. B \subseteq SUBSET S
    OBVIOUS
<1>1. PICK R \in B : \A Q \in B : Q \subseteq R => Q = R
    <2> HIDE DEF B
    <2> QED BY <1>0, MinimalSet
<1>2. PICK Q \in SUBSET R : ~(Total(w, Q) <= Total(w, R))
    OBVIOUS
<1>3. \A P \in SUBSET S : /\ Total(w, P) \in Nat
                          /\ \A x \in P : Total(w, P) = w[x] + Total(w, P \ {x})
    <2> SUFFICES ASSUME NEW P \in SUBSET S
                 PROVE  /\ Total(w, P) \in Nat
                        /\ \A x \in P : Total(w, P) = w[x] + Total(w, P \ {x})
        OBVIOUS
    <2>1. IsFiniteSet(P) /\ \A a \in P : w[a] \in Nat
        BY FS_Subset
    <2> QED BY <2>1, TotalSplit
<1>4. PICK x \in R : x \notin Q
    BY <1>2, <1>3
<1>5. Good(R \ {x})
    <2>1. R \ {x} \in SUBSET S /\ R \ {x} \subseteq R /\ R \ {x} # R
        OBVIOUS
    <2> HIDE DEF Good
    <2> QED BY <1>1, <2>1
<1>6. Q \in SUBSET (R \ {x})
    BY <1>4
<1>7. Total(w, Q) <= Total(w, R \ {x})
    BY <1>5, <1>6
<1>8. /\ Total(w, R) = w[x] + Total(w, R \ {x}) /\ w[x] \in Nat
      /\ Total(w, R \ {x}) \in Nat /\ Total(w, Q) \in Nat /\ Total(w, R) \in Nat
    BY <1>3
<1> QED BY <1>2, <1>7, <1>8

\* A bound on every member is one on the average.
LEMMA TotalAtLeast ==
    ASSUME NEW w, NEW S, IsFiniteSet(S), \A a \in S : w[a] \in Nat, NEW m \in Nat, NEW k \in Nat,
           \A a \in S : m * w[a] >= k
    PROVE  m * Total(w, S) >= k * Cardinality(S)
<1> DEFINE Good(R) == m * Total(w, R) >= k * Cardinality(R)
           B == {R \in SUBSET S : ~Good(R)}
<1> SUFFICES ASSUME B # {} PROVE FALSE
    OBVIOUS
<1>0. B \subseteq SUBSET S
    OBVIOUS
<1>1. PICK R \in B : \A Q \in B : Q \subseteq R => Q = R
    <2> HIDE DEF B
    <2> QED BY <1>0, MinimalSet
<1>2. IsFiniteSet(R) /\ Cardinality(R) \in Nat /\ \A a \in R : w[a] \in Nat
    BY FS_Subset, FS_CardinalityType
<1>3. Total(w, R) \in Nat /\ \A x \in R : Total(w, R) = w[x] + Total(w, R \ {x})
    BY <1>2, TotalSplit
<1>4. R # {}
    <2> SUFFICES ASSUME R = {} PROVE Good(R)
        BY <1>1
    <2>1. Cardinality(R) = 0
        BY FS_EmptySet
    <2>2. m * Total(w, R) >= 0 /\ k * 0 = 0
        BY <1>3
    <2> QED BY <2>1, <2>2
<1>5. PICK x \in R : TRUE
    BY <1>4
<1> DEFINE Q == R \ {x}
<1>6. Good(Q)
    <2>1. Q \in SUBSET S /\ Q \subseteq R /\ Q # R
        OBVIOUS
    <2> HIDE DEF Good, Q
    <2> QED BY <1>1, <2>1
<1>7. /\ IsFiniteSet(Q) /\ Cardinality(Q) \in Nat /\ Cardinality(R) = Cardinality(Q) + 1
      /\ Total(w, Q) \in Nat /\ Total(w, R) = w[x] + Total(w, Q)
    <2>1. IsFiniteSet(Q) /\ Cardinality(Q) = Cardinality(R) - 1
        BY <1>2, FS_RemoveElement
    <2>2. Cardinality(Q) \in Nat /\ \A a \in Q : w[a] \in Nat
        BY <1>2, <2>1, FS_CardinalityType
    <2>3. Total(w, Q) \in Nat
        BY <2>1, <2>2, TotalSplit
    <2> QED BY <1>2, <1>3, <2>1, <2>2, <2>3
<1>8. m * w[x] >= k /\ w[x] \in Nat
    OBVIOUS
<1>9. Good(R)
    <2> DEFINE q == Cardinality(Q)  t == Total(w, Q)  v == w[x]
    <2>1. /\ q \in Nat /\ t \in Nat /\ v \in Nat
          /\ Cardinality(R) = q + 1 /\ Total(w, R) = v + t
          /\ m * t >= k * q /\ m * v >= k
        BY <1>6, <1>7, <1>8
    <2> HIDE DEF q, t, v
    <2>2. m * (v + t) = m * v + m * t /\ k * (q + 1) = k * q + k
        BY <2>1
    <2>3. m * v \in Nat /\ m * t \in Nat /\ k * q \in Nat
        BY <2>1
    <2> QED BY <2>1, <2>2, <2>3
<1> QED BY <1>1, <1>9

\* The rounds of _capped_weights, up to the n-th.
IsRounds(g, n, scores) ==
    g = [r \in 0..n |-> IF r = 0 THEN {} ELSE MoreCapped(scores, g[r - 1])]

\* Two calculations agree as far as both go.
LEMMA RoundsUnique ==
    ASSUME NEW scores, NEW n \in Nat, NEW m \in Nat, NEW g, NEW h,
           IsRounds(g, n, scores), IsRounds(h, m, scores)
    PROVE  \A r \in Nat : r <= n /\ r <= m => g[r] = h[r]
<1> DEFINE P == {r \in Nat : r <= n /\ r <= m => g[r] = h[r]}
<1>1. 0 \in P
    BY DEF IsRounds
<1>2. ASSUME NEW r \in Nat, r \in P PROVE r + 1 \in P
    <2> SUFFICES ASSUME r + 1 <= n, r + 1 <= m PROVE g[r + 1] = h[r + 1]
        OBVIOUS
    <2>1. g[r] = h[r]
        BY <1>2
    <2>2. r + 1 \in 0..n /\ r + 1 \in 0..m /\ r + 1 # 0 /\ (r + 1) - 1 = r
        OBVIOUS
    <2>3. g[r + 1] = MoreCapped(scores, g[r]) /\ h[r + 1] = MoreCapped(scores, h[r])
        BY <2>2 DEF IsRounds
    <2> QED BY <2>1, <2>3
<1> HIDE DEF P
<1>3. \A r \in Nat : r \in P
    BY <1>1, <1>2, Induct
<1> QED BY <1>3 DEF P

\* There are rounds of any number.
LEMMA RoundsExist ==
    ASSUME NEW scores
    PROVE  \A n \in Nat : \E g : IsRounds(g, n, scores)
<1> DEFINE P == {n \in Nat : \E g : IsRounds(g, n, scores)}
<1>1. 0 \in P
    <2> DEFINE g == [r \in 0..0 |-> {}]
    <2>1. g = [r \in 0..0 |-> IF r = 0 THEN {} ELSE MoreCapped(scores, g[r - 1])]
        OBVIOUS
    <2> QED BY <2>1 DEF IsRounds
<1>2. ASSUME NEW n \in Nat, n \in P PROVE n + 1 \in P
    <2>1. PICK g : IsRounds(g, n, scores)
        BY <1>2
    <2> DEFINE h == [r \in 0..n + 1 |-> IF r = n + 1 THEN MoreCapped(scores, g[n]) ELSE g[r]]
    <2>2. \A r \in 0..n + 1 : h[r] = IF r = 0 THEN {} ELSE MoreCapped(scores, h[r - 1])
        <3> SUFFICES ASSUME NEW r \in 0..n + 1
                     PROVE  h[r] = IF r = 0 THEN {} ELSE MoreCapped(scores, h[r - 1])
            OBVIOUS
        <3>1. CASE r = n + 1
            <4>1. r # 0 /\ n \in 0..n + 1 /\ n # n + 1 /\ r - 1 = n
                BY <3>1
            <4>2. h[r] = MoreCapped(scores, g[n]) /\ h[n] = g[n]
                BY <3>1, <4>1
            <4> QED BY <4>1, <4>2
        <3>2. CASE r # n + 1
            <4>1. r \in 0..n
                BY <3>2
            <4>2. h[r] = g[r]
                BY <3>2
            <4>3. g[r] = IF r = 0 THEN {} ELSE MoreCapped(scores, g[r - 1])
                BY <2>1, <4>1 DEF IsRounds
            <4>4. r # 0 => r - 1 \in 0..n + 1 /\ r - 1 # n + 1
                BY <4>1
            <4>5. r # 0 => h[r - 1] = g[r - 1]
                BY <4>4
            <4> HIDE DEF h
            <4> QED BY <4>2, <4>3, <4>5
        <3> QED BY <3>1, <3>2
    <2>3. h = [r \in 0..n + 1 |-> IF r = 0 THEN {} ELSE MoreCapped(scores, h[r - 1])]
        <3>1. h = [r \in 0..n + 1 |-> h[r]]
            OBVIOUS
        <3> HIDE DEF h
        <3> QED BY <2>2, <3>1
    <2> HIDE DEF h
    <2>4. IsRounds(h, n + 1, scores)
        BY <2>3 DEF IsRounds
    <2> QED BY <2>4
<1> HIDE DEF P
<1>3. \A n \in Nat : n \in P
    BY <1>1, <1>2, Induct
<1> QED BY <1>3 DEF P

\* The recursive function of CappedAgents exists, so it is what it says.
LEMMA CappedIsRounds ==
    ASSUME NEW scores
    PROVE  \E f : /\ f[0] = {}
                  /\ \A r \in Nat : f[r + 1] = MoreCapped(scores, f[r])
                  /\ CappedAgents(scores) = f[Cardinality(DOMAIN scores)]
<1> DEFINE IsAll(f) == f = [r \in Nat |-> IF r = 0 THEN {} ELSE MoreCapped(scores, f[r - 1])]
           f == CHOOSE k : IsAll(k)
           G(n) == CHOOSE g : IsRounds(g, n, scores)
           h == [n \in Nat |-> G(n)[n]]
<1>1. \A n \in Nat : IsRounds(G(n), n, scores)
    BY RoundsExist
<1> HIDE DEF G
<1>2. \A n \in Nat : h[n] = IF n = 0 THEN {} ELSE MoreCapped(scores, h[n - 1])
    <2> SUFFICES ASSUME NEW n \in Nat
                 PROVE  h[n] = IF n = 0 THEN {} ELSE MoreCapped(scores, h[n - 1])
        OBVIOUS
    <2>1. n \in 0..n /\ h[n] = G(n)[n]
        OBVIOUS
    <2>2. h[n] = IF n = 0 THEN {} ELSE MoreCapped(scores, G(n)[n - 1])
        BY <1>1, <2>1 DEF IsRounds
    <2>3. ASSUME n # 0 PROVE G(n)[n - 1] = h[n - 1]
        <3>1. n - 1 \in Nat /\ n - 1 <= n /\ n - 1 <= n - 1
            BY <2>3
        <3>2. h[n - 1] = G(n - 1)[n - 1]
            BY <3>1
        <3>3. PICK a, b, m : a = G(n) /\ b = G(n - 1) /\ m = n - 1
            OBVIOUS
        <3>4. IsRounds(a, n, scores) /\ IsRounds(b, m, scores) /\ m \in Nat
            BY <1>1, <3>1, <3>3
        <3>5. a[m] = b[m]
            BY <3>1, <3>3, <3>4, RoundsUnique
        <3> QED BY <3>2, <3>3, <3>5
    <2> HIDE DEF h
    <2> QED BY <2>2, <2>3
<1>3. IsAll(h)
    <2>1. h = [n \in Nat |-> h[n]]
        OBVIOUS
    <2> HIDE DEF h
    <2> QED BY <1>2, <2>1
<1> HIDE DEF h
<1>4. IsAll(f)
    <2> HIDE DEF IsAll
    <2> QED BY <1>3
<1>5. CappedAgents(scores) = f[Cardinality(DOMAIN scores)]
    BY DEF CappedAgents
<1> HIDE DEF f
<1>6. PICK k : k = f
    OBVIOUS
<1>7. \A n \in Nat : k[n] = IF n = 0 THEN {} ELSE MoreCapped(scores, k[n - 1])
    BY <1>4, <1>6
<1>8. k[0] = {}
    BY <1>7
<1>9. \A r \in Nat : k[r + 1] = MoreCapped(scores, k[r])
    BY <1>7
<1> QED BY <1>5, <1>6, <1>8, <1>9

\* The scores an evaluation can have.
Eligible(scores) ==
    /\ IsFiniteSet(DOMAIN scores) /\ \A a \in DOMAIN scores : scores[a] \in Nat \ {0}
    /\ Cardinality(DOMAIN scores) \in Nat
    /\ CapNum * Cardinality(DOMAIN scores) >= CapDen

\* Part of the agents, that leaves weight to distribute.
LeavesWeight(scores, capped) == capped \subseteq DOMAIN scores /\ Mass(capped) > 0

\* A round in terms of totals.
LEMMA RoundIs ==
    ASSUME NEW scores, NEW capped
    PROVE  MoreCapped(scores, capped)
             = capped \cup {a \in DOMAIN scores \ capped :
                              Mass(capped) * scores[a] > CapNum * Total(scores, DOMAIN scores \ capped)}
BY DEF MoreCapped, Mass, Total

\* If part u of t, m times, is more than b shares of c times t, then m is more
\* than b times c.
LEMMA Products ==
    ASSUME NEW m \in Nat, NEW t \in Nat, NEW u \in Nat, NEW b \in Nat, NEW c \in Nat,
           b > 0, u <= t, m * u >= (c * t + 1) * b
    PROVE  m > c * b
<1> SUFFICES ASSUME m <= c * b PROVE FALSE
    OBVIOUS
<1>1. m * u <= m * t
    OBVIOUS
<1>2. PICK d \in Nat : d = c * b
    OBVIOUS
<1>3. m * t <= d * t
    BY <1>2
<1>4. (c * t + 1) * b = c * t * b + b /\ d * t = c * t * b
    BY <1>2
<1>5. c * t * b \in Nat /\ m * u \in Nat /\ m * t \in Nat /\ d * t \in Nat
    BY <1>2
<1>6. m * u >= d * t + b
    BY <1>4, <1>5
<1> QED BY <1>1, <1>3, <1>5, <1>6

\* A round leaves weight: each agent it caps has more than the cap of what
\* is distributed.
LEMMA RoundLeavesWeight ==
    ASSUME NEW scores, Eligible(scores), NEW capped, LeavesWeight(scores, capped)
    PROVE  LeavesWeight(scores, MoreCapped(scores, capped))
<1> DEFINE free == DOMAIN scores \ capped
           t == Total(scores, free)
           m == Mass(capped)
           B == {a \in free : m * scores[a] > CapNum * t}
<1>0. CapNum \in Nat \ {0} /\ CapDen \in Nat \ {0}
    BY ConsensusAssumption
<1>1. /\ IsFiniteSet(free) /\ IsFiniteSet(B) /\ IsFiniteSet(capped)
      /\ Cardinality(B) \in Nat /\ Cardinality(capped) \in Nat
      /\ Cardinality(capped \cup B) = Cardinality(capped) + Cardinality(B)
    <2>1. free \subseteq DOMAIN scores /\ B \subseteq DOMAIN scores
             /\ capped \subseteq DOMAIN scores /\ capped \cap B = {}
        BY DEF LeavesWeight
    <2> HIDE DEF B, free
    <2>2. IsFiniteSet(free) /\ IsFiniteSet(B) /\ IsFiniteSet(capped)
        BY <2>1, FS_Subset DEF Eligible
    <2>3. Cardinality(B) \in Nat /\ Cardinality(capped) \in Nat /\ Cardinality({}) = 0
        BY <2>2, FS_CardinalityType, FS_EmptySet
    <2>4. Cardinality(capped \cup B)
            = Cardinality(capped) + Cardinality(B) - Cardinality(capped \cap B)
        BY <2>2, FS_Union
    <2>5. Cardinality(capped \cap B) = 0
        BY <2>1, <2>3
    <2>6. Cardinality(capped \cup B) = Cardinality(capped) + Cardinality(B)
        BY <2>3, <2>4, <2>5
    <2> QED BY <2>2, <2>3, <2>6
<1>2. MoreCapped(scores, capped) = capped \cup B
    BY RoundIs
<1>3. m \in Nat /\ m > 0
    BY <1>0, <1>1 DEF LeavesWeight, Mass
<1>4. (\A a \in free : scores[a] \in Nat) /\ (\A a \in B : scores[a] \in Nat) /\ B \subseteq free
    BY DEF Eligible
<1> DEFINE u == Total(scores, B)
           b == Cardinality(B)
<1>5. t \in Nat /\ u \in Nat
    <2> HIDE DEF B, free
    <2> QED BY <1>1, <1>4, TotalSplit
<1>6. u <= t
    <2> HIDE DEF B, free
    <2> QED BY <1>1, <1>4, TotalMonotone
<1>7. m * u >= (CapNum * t + 1) * b
    <2> HIDE DEF t, m
    <2>1. CapNum * t + 1 \in Nat
        BY <1>0, <1>5
    <2>2. \A a \in B : m * scores[a] >= CapNum * t + 1
        <3> SUFFICES ASSUME NEW a \in B PROVE m * scores[a] >= CapNum * t + 1
            OBVIOUS
        <3>1. m * scores[a] > CapNum * t /\ scores[a] \in Nat
            BY <1>4
        <3>2. m * scores[a] \in Nat /\ CapNum * t \in Nat
            BY <1>0, <1>3, <1>5, <3>1
        <3> QED BY <3>1, <3>2
    <2> HIDE DEF B
    <2>3. PICK k, v : k = CapNum * t + 1 /\ v = m
        OBVIOUS
    <2>4. k \in Nat /\ v \in Nat /\ \A a \in B : v * scores[a] >= k
        BY <1>3, <2>1, <2>2, <2>3
    <2>5. v * Total(scores, B) >= k * Cardinality(B)
        BY <1>1, <1>4, <2>4, TotalAtLeast
    <2> QED BY <2>3, <2>5
<1>8. m > CapNum * b
    <2>1. CASE b = 0
        BY <1>0, <1>3, <2>1
    <2>2. CASE b # 0
        <3>1. b \in Nat /\ b > 0
            BY <1>1, <2>2
        <3> HIDE DEF b, u, t, m
        <3> QED BY <1>0, <1>3, <1>5, <1>6, <1>7, <3>1, Products
    <2> QED BY <2>1, <2>2
<1>9. Mass(capped \cup B) > 0
    <2>1. Mass(capped \cup B) = CapDen - CapNum * (Cardinality(capped) + b)
        BY <1>1 DEF Mass
    <2>2. CapNum * (Cardinality(capped) + b) = CapNum * Cardinality(capped) + CapNum * b
        BY <1>0, <1>1
    <2>3. m = CapDen - CapNum * Cardinality(capped)
        BY DEF Mass
    <2>4. CapNum * Cardinality(capped) \in Nat /\ CapNum * b \in Nat
        BY <1>0, <1>1
    <2> HIDE DEF m, b
    <2> QED BY <1>0, <1>3, <1>8, <2>1, <2>2, <2>3, <2>4
<1>10. capped \cup B \subseteq DOMAIN scores
    BY DEF LeavesWeight
<1> QED BY <1>2, <1>9, <1>10 DEF LeavesWeight

\* After as many rounds as there are agents, one more caps nobody: until then
\* each has capped one more agent, and they cannot all be.
LEMMA CappingEnds ==
    ASSUME NEW scores, Eligible(scores)
    PROVE  /\ LeavesWeight(scores, CappedAgents(scores))
           /\ MoreCapped(scores, CappedAgents(scores)) = CappedAgents(scores)
<1> DEFINE N == Cardinality(DOMAIN scores)
<1>0. /\ CapNum \in Nat \ {0} /\ CapDen \in Nat \ {0} /\ N \in Nat /\ IsFiniteSet(DOMAIN scores)
      /\ CapNum * N >= CapDen
    BY ConsensusAssumption DEF Eligible
<1>1. PICK f : /\ f[0] = {} /\ \A r \in Nat : f[r + 1] = MoreCapped(scores, f[r])
               /\ CappedAgents(scores) = f[N]
    BY CappedIsRounds
<1> DEFINE P == {n \in Nat : /\ LeavesWeight(scores, f[n])
                             /\ Cardinality(f[n]) >= n \/ f[n + 1] = f[n]}
<1>2. 0 \in P
    <2>1. Cardinality({}) = 0
        BY FS_EmptySet
    <2>2. Mass({}) = CapDen
        BY <1>0, <2>1 DEF Mass
    <2> QED BY <1>0, <1>1, <2>1, <2>2 DEF LeavesWeight
<1>3. ASSUME NEW n \in Nat, n \in P PROVE n + 1 \in P
    <2>1. LeavesWeight(scores, f[n]) /\ f[n + 1] = MoreCapped(scores, f[n])
             /\ (n + 1) + 1 \in Nat /\ f[(n + 1) + 1] = MoreCapped(scores, f[n + 1])
        BY <1>1, <1>3
    <2>2. LeavesWeight(scores, f[n + 1])
        <3>1. PICK c : c = f[n]
            OBVIOUS
        <3> QED BY <2>1, <3>1, RoundLeavesWeight
    <2>3. n + 1 \in Nat
        OBVIOUS
    <2>4. CASE f[n + 1] = f[n]
        <3>1. MoreCapped(scores, f[n + 1]) = f[n + 1]
            BY <2>1, <2>4
        <3>2. f[(n + 1) + 1] = f[n + 1]
            BY <2>1, <3>1
        <3> QED BY <2>2, <2>3, <3>2
    <2>5. CASE f[n + 1] # f[n]
        <3>1. Cardinality(f[n]) >= n
            BY <1>3, <2>5
        <3>2. f[n] \subseteq f[n + 1]
            BY <2>1 DEF MoreCapped
        <3>3. IsFiniteSet(f[n + 1]) /\ Cardinality(f[n + 1]) \in Nat /\ Cardinality(f[n]) \in Nat
            BY <1>0, <2>1, <2>2, FS_Subset, FS_CardinalityType DEF LeavesWeight
        <3>4. Cardinality(f[n]) <= Cardinality(f[n + 1]) /\ Cardinality(f[n]) # Cardinality(f[n + 1])
            BY <2>5, <3>2, <3>3, FS_Subset
        <3>5. Cardinality(f[n + 1]) >= n + 1
            BY <3>1, <3>3, <3>4
        <3> QED BY <2>2, <2>3, <3>5
    <2> QED BY <2>4, <2>5
<1>4. N \in P
    <2> HIDE DEF P, N
    <2>1. \A n \in Nat : n \in P
        BY <1>2, <1>3, Induct
    <2> QED BY <1>0, <2>1
<1>5. LeavesWeight(scores, f[N])
    BY <1>4
<1>6. f[N + 1] = f[N]
    <2> SUFFICES ASSUME Cardinality(f[N]) >= N PROVE FALSE
        BY <1>4
    <2>1. f[N] \subseteq DOMAIN scores
        BY <1>5 DEF LeavesWeight
    <2>2. f[N] = DOMAIN scores
        <3>1. PICK C : C = f[N]
            OBVIOUS
        <3>2. IsFiniteSet(C) /\ Cardinality(C) \in Nat /\ Cardinality(C) <= N
                /\ (Cardinality(DOMAIN scores) = Cardinality(C) => C = DOMAIN scores)
            BY <1>0, <2>1, <3>1, FS_Subset, FS_CardinalityType
        <3> QED BY <1>0, <3>1, <3>2
    <2>3. Mass(f[N]) <= 0
        BY <1>0, <2>2 DEF Mass
    <2>4. Mass(f[N]) > 0
        BY <1>5 DEF LeavesWeight
    <2>5. Mass(f[N]) \in Int
        BY <1>0, <2>2 DEF Mass
    <2> QED BY <2>3, <2>4, <2>5
<1> QED BY <1>0, <1>1, <1>5, <1>6

\* What a READY consensus was computed from and with.
Computed == consensus.status = "READY" => /\ Eligible(consensus.scores)
                                          /\ consensus.capped = CappedAgents(consensus.scores)

\* An evaluation that is READY has enough agents for the cap.
LEMMA EnoughAgents ==
    ASSUME NEW eligible \in SUBSET ShadowAgents, ~(Cardinality(eligible) < MinEligible),
           NEW scores \in [eligible -> Scores]
    PROVE  Eligible(scores)
<1> DEFINE n == Cardinality(eligible)
<1>1. IsFiniteSet(eligible) /\ n \in Nat
    BY ConsensusAssumption, FS_Subset, FS_CardinalityType
<1>2. DOMAIN scores = eligible /\ \A a \in eligible : scores[a] \in Nat \ {0}
    BY ConsensusAssumption
<1>3. CapNum * n >= CapDen
    <2>1. CapNum \in Nat /\ CapDen \in Nat /\ MinEligible \in Nat /\ MinEligible * CapNum >= CapDen
        BY ConsensusAssumption
    <2>2. n >= MinEligible
        BY <1>1, <2>1
    <2> HIDE DEF n
    <2>3. CapNum * n >= CapNum * MinEligible
        BY <1>1, <2>1, <2>2
    <2>4. CapNum * n \in Nat /\ CapNum * MinEligible \in Nat
          /\ CapNum * MinEligible = MinEligible * CapNum
        BY <1>1, <2>1
    <2> QED BY <2>1, <2>3, <2>4
<1> QED BY <1>1, <1>2, <1>3 DEF Eligible

\* Every step keeps it.
LEMMA ComputedStep == Computed /\ [ConsensusNext]_consensusVars => Computed'
<1> SUFFICES ASSUME Computed, [ConsensusNext]_consensusVars PROVE Computed'
    OBVIOUS
<1>1. ASSUME UNCHANGED consensus PROVE Computed'
    BY <1>1 DEF Computed
<1>2. CASE FinishEvaluation
    <2>1. PICK eligible \in SUBSET ShadowAgents : FinishEvaluation!2!(eligible)
        BY <1>2 DEF FinishEvaluation
    <2>2. CASE Cardinality(eligible) < MinEligible
        BY <2>1, <2>2 DEF Computed, NoConsensus
    <2>3. CASE ~(Cardinality(eligible) < MinEligible)
        <3>1. PICK scores \in [eligible -> Scores] :
                 consensus'.scores = scores /\ consensus'.capped = CappedAgents(scores)
            BY <2>1, <2>3
        <3> QED BY <2>3, <3>1, EnoughAgents DEF Computed
    <2> QED BY <2>2, <2>3
<1>3. CASE RestartConsensus
    BY <1>3 DEF RestartConsensus, Computed, NoConsensus
<1>4. CASE \E c \in Callers : SaveLifecycle(c) \/ SaveLifecycleFails(c)
    BY <1>1, <1>4 DEF SaveLifecycle, SaveLifecycleFails
<1>5. CASE \E baseline \in {"BUY", "WAIT"} : BeginEvaluation(baseline)
    BY <1>1, <1>5 DEF BeginEvaluation
<1>6. CASE \E c \in Callers, e \in Experiments, t \in EventTimes :
              \/ RegisterExperiment(c, e, t)
              \/ \E type \in {"ACTIVATED", "RETIRED"} : RecordLifecycle(c, type, e, t)
    BY <1>1, <1>6 DEF RegisterExperiment, RecordLifecycle, Begins
<1>7. CASE UNCHANGED consensusVars
    BY <1>1, <1>7 DEF consensusVars
<1> QED BY <1>2, <1>3, <1>4, <1>5, <1>6, <1>7 DEF ConsensusNext

\* Nobody's weight exceeds the cap, and there is always an agent left that
\* shares what capping frees.
LEMMA ComputedIsCapped == Computed => WeightsCapped
<1> SUFFICES ASSUME Computed, consensus.status = "READY" PROVE WeightsCapped
    BY DEF WeightsCapped
<1> DEFINE capped == consensus.capped
           free == DOMAIN consensus.scores \ capped
<1>1. PICK scores : scores = consensus.scores
    OBVIOUS
<1>2. Eligible(scores) /\ capped = CappedAgents(scores)
    BY <1>1 DEF Computed
<1>3. LeavesWeight(scores, capped) /\ MoreCapped(scores, capped) = capped
    BY <1>2, CappingEnds
<1>4. CapNum \in Nat \ {0} /\ CapDen \in Nat \ {0}
    BY ConsensusAssumption
<1>5. /\ IsFiniteSet(DOMAIN scores) /\ IsFiniteSet(free)
      /\ Cardinality(capped) \in Nat /\ Mass(capped) \in Nat /\ Mass(capped) > 0
    <2>1. IsFiniteSet(DOMAIN scores) /\ capped \subseteq DOMAIN scores /\ free \subseteq DOMAIN scores
        BY <1>1, <1>2, <1>3 DEF Eligible, LeavesWeight
    <2>2. IsFiniteSet(free) /\ IsFiniteSet(capped)
        <3> HIDE DEF free, capped
        <3> QED BY <2>1, FS_Subset
    <2>3. Cardinality(capped) \in Nat
        BY <2>2, FS_CardinalityType
    <2>4. Mass(capped) \in Int /\ Mass(capped) > 0
        BY <1>3, <1>4, <2>3 DEF LeavesWeight, Mass
    <2> QED BY <2>1, <2>2, <2>3, <2>4
<1>6. free # {}
    <2> SUFFICES ASSUME capped = DOMAIN scores PROVE FALSE
        BY <1>1, <1>3 DEF LeavesWeight
    <2>1. CapNum * Cardinality(capped) >= CapDen
        BY <1>2 DEF Eligible
    <2> QED BY <1>4, <1>5, <2>1 DEF Mass
<1>7. ASSUME NEW a \in free PROVE Mass(capped) * scores[a] <= CapNum * Total(scores, free)
    <2>1. ~(Mass(capped) * scores[a] > CapNum * Total(scores, free))
        BY <1>1, <1>3, <1>7, RoundIs
    <2>2. scores[a] \in Nat /\ Total(scores, free) \in Nat
        <3>1. \A b \in free : scores[b] \in Nat
            BY <1>1, <1>2 DEF Eligible
        <3> HIDE DEF free
        <3> QED BY <1>5, <1>7, <3>1, TotalSplit
    <2> HIDE DEF free, capped
    <2>3. Mass(capped) * scores[a] \in Int /\ CapNum * Total(scores, free) \in Int
        BY <1>4, <1>5, <2>2
    <2> QED BY <2>1, <2>3
<1>8. /\ Total(scores, free) = MapThenSumSet(LAMBDA a : consensus.scores[a], free)
      /\ Mass(capped) = CapDen - CapNum * Cardinality(consensus.capped)
    BY <1>1 DEF Total, Mass
<1>9. \A a \in free : Mass(capped) * consensus.scores[a] <= CapNum * Total(scores, free)
    BY <1>1, <1>7
<1>10. Mass(capped) >= 0
    BY <1>5
<1> QED BY <1>6, <1>8, <1>9, <1>10, Zenon DEF WeightsCapped

\* portfolio_consensus.py _capped_weights: no agent weighs more than
\* maximum_agent_weight and the weights sum to one, for any scores, any cap
\* and any number of agents from the minimum on.
THEOREM WeightsStayCapped == ConsensusSpec => []WeightsCapped
<1>1. ConsensusInit => Computed
    BY DEF ConsensusInit, Computed, NoConsensus
<1> QED BY <1>1, ComputedStep, ComputedIsCapped, PTL DEF ConsensusSpec
=============================================================================
