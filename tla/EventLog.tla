------------------------------ MODULE EventLog ------------------------------
(***************************************************************************)
(* The event bus of one API process over the durable journal, its outbox,  *)
(* the outbox dispatcher and the Redis Streams transport                   *)
(* (core/event_bus.py, core/outbox.py, core/transports/redis_streams.py).  *)
(*                                                                         *)
(* Publisher tasks and the dispatcher share publication_lock; every step   *)
(* between two awaits under it is an action.  A database or broker call    *)
(* may fail before its effect, or after it with its answer lost, and the   *)
(* process may crash; each of these costs one of MaxFaults.                *)
(***************************************************************************)
EXTENDS Naturals, Sequences, FiniteSets

CONSTANTS
    Events,         \* event ids
    Oversize,       \* events whose encoding exceeds max_message_bytes
    Publishers,     \* tasks that call EventBus.publish
    BatchSize,      \* OutboxDispatcher batch_size
    MaxRemembered,  \* max_processed_event_ids
    MaxFaults       \* bound on the failures of a behaviour

\* BatchSize bounds how many messages that can never be sent a poll skips.
ASSUME EventLogAssumption ==
    /\ IsFiniteSet(Events)
    /\ Oversize \subseteq Events
    /\ BatchSize \in Nat /\ Cardinality(Oversize) < BatchSize
    /\ MaxRemembered \in Nat \ {0}
    /\ MaxFaults \in Nat
    /\ "nobody" \notin Publishers /\ "dispatcher" \notin Publishers

VARIABLES
    journal,            \* event_journal, in created_at order
    outbox,             \* event_outbox: no row, a row without or with published_at
    stream,             \* every XADD the broker accepted (external)
    required,           \* transport_required
    remembered,         \* EventBus._processed_event_ids, oldest first
    holder,             \* who holds publication_lock
    task,               \* what each publisher is doing, with which event
    batch, drain,       \* the dispatcher: messages left, its step and its message
    delivered,          \* history: handler runs per event (2 stands for more)
    faults              \* history: failures so far

durable == <<journal, outbox, stream>>
eventLogVars == <<journal, outbox, stream, required, remembered, holder, task,
                  batch, drain, delivered, faults>>

OutboxStates == {"absent", "failed", "published"}
TaskSteps == {"idle", "lock", "broker", "mark", "failed", "deliver"}
DrainSteps == {"idle", "broker", "mark", "failed"}
NoEvent == "none"
IdleTask == [step |-> "idle", event |-> NoEvent]

Elements(s) == {s[i] : i \in DOMAIN s}

\* _remember: the newest id goes last, the oldest ones beyond the limit go.
Remember(s, e) ==
    LET kept == SelectSeq(s, LAMBDA x : x # e) \o <<e>>
    IN  IF Len(kept) > MaxRemembered
        THEN SubSeq(kept, Len(kept) - MaxRemembered + 1, Len(kept))
        ELSE kept

\* save_bus_message inserts the event unless it is there.
Journaled(e) == IF e \in Elements(journal) THEN journal ELSE Append(journal, e)

\* Mutant: recording a failure also clears published_at.
MarkedFailedClearing(e) == [outbox EXCEPT ![e] = "failed"]

\* mark_bus_message_published / mark_bus_message_failed: a failure never
\* clears published_at.
MarkedPublished(e) == [outbox EXCEPT ![e] = "published"]
MarkedFailed(e) == [outbox EXCEPT ![e] = IF @ = "published" THEN @ ELSE "failed"]

\* In the order of created_at, which is that of the journal.
Before(e, f) == \E i, j \in DOMAIN journal : i < j /\ journal[i] = e /\ journal[j] = f
Earliest(messages) == {e \in messages : \A f \in messages : ~Before(f, e)}
FirstOf(messages, limit) ==
    {e \in messages : Cardinality({f \in messages : Before(f, e)}) < limit}

\* Mutant: rows with a failed attempt are not listed again.
PendingUntried == FirstOf({e \in Elements(journal) : outbox[e] = "absent"}, BatchSize)

\* list_pending_bus_messages
PendingMessages == FirstOf({e \in Elements(journal) : outbox[e] # "published"}, BatchSize)

Fault == faults < MaxFaults /\ faults' = faults + 1
NoFault == faults' = faults

EventLogInit ==
    /\ journal = <<>> /\ stream = <<>>
    /\ outbox = [e \in Events |-> "absent"]
    /\ required \in BOOLEAN
    /\ remembered = <<>> /\ holder = "nobody"
    /\ task = [p \in Publishers |-> IdleTask]
    /\ batch = {} /\ drain = IdleTask
    /\ delivered = [e \in Events |-> 0]
    /\ faults = 0

Goto(p, step) == task' = [task EXCEPT ![p].step = step]
Return(p) == task' = [task EXCEPT ![p] = IdleTask]
Unlock == holder' = "nobody"

-----------------------------------------------------------------------------
(* EventBus.publish *)

\* A remembered event is a duplicate and returns at once; any other waits for
\* the publication lock.
PublishCall(p, e) ==
    /\ task[p].step = "idle"
    /\ e \notin Elements(remembered)
    /\ task' = [task EXCEPT ![p] = [step |-> "lock", event |-> e]]
    /\ UNCHANGED <<durable, required, remembered, holder, batch, drain, delivered, faults>>

\* save_bus_message under the lock.  A new event goes on; a known one goes on
\* only while the broker has not confirmed it.
JournalStep(p) ==
    LET e == task[p].event
    IN  /\ task[p].step = "lock" /\ holder = "nobody"
        /\ \/ /\ e \notin Elements(journal)
              /\ journal' = Journaled(e)
              /\ holder' = p /\ Goto(p, "broker")
              /\ UNCHANGED remembered
           \/ /\ e \in Elements(journal) /\ outbox[e] # "published"
              /\ holder' = p /\ Goto(p, "broker")
              /\ UNCHANGED <<journal, remembered>>
           \/ /\ e \in Elements(journal) /\ outbox[e] = "published"
              /\ remembered' = Remember(remembered, e)
              /\ Return(p)
              /\ UNCHANGED <<journal, holder>>
        /\ NoFault
        /\ UNCHANGED <<outbox, stream, required, batch, drain, delivered>>

\* The journal write fails, perhaps after its commit: publish raises and no
\* handler sees the event.
JournalFails(p) ==
    LET e == task[p].event
    IN  /\ task[p].step = "lock" /\ holder = "nobody"
        /\ Fault
        /\ Return(p)
        /\ journal' \in {journal, Journaled(e)}
        /\ UNCHANGED <<outbox, stream, required, remembered, holder, batch, drain, delivered>>

\* RedisStreamTransport.publish for event e: outcome "ok" or "error".
XADD(e, outcome) ==
    \/ /\ e \notin Oversize /\ outcome = "ok"
       /\ stream' = Append(stream, e) /\ NoFault
    \/ /\ e \in Oversize /\ outcome = "error"
       /\ UNCHANGED stream /\ NoFault
    \/ /\ e \notin Oversize /\ outcome = "error" /\ Fault
       /\ stream' \in {stream, Append(stream, e)}

\* A database write of the outbox row, perhaps failing before or after it.
WriteRow(row, outcome) ==
    \/ outcome = "ok" /\ outbox' = row /\ NoFault
    \/ outcome = "error" /\ outbox' \in {outbox, row} /\ Fault

BrokerStep(p) ==
    /\ task[p].step = "broker"
    /\ \E outcome \in {"ok", "error"} :
          /\ XADD(task[p].event, outcome)
          /\ Goto(p, IF outcome = "ok" THEN "mark" ELSE "failed")
    /\ UNCHANGED <<journal, outbox, required, remembered, holder, batch, drain, delivered>>

MarkStep(p) ==
    /\ task[p].step = "mark"
    /\ \E outcome \in {"ok", "error"} :
          /\ WriteRow(MarkedPublished(task[p].event), outcome)
          /\ IF outcome = "ok" THEN Goto(p, "deliver") /\ Unlock
                               ELSE Goto(p, "failed") /\ UNCHANGED holder
    /\ UNCHANGED <<journal, stream, required, remembered, batch, drain, delivered>>

\* mark_failed, whose own failure is only logged; a required transport raises.
MarkFailedStep(p) ==
    /\ task[p].step = "failed"
    /\ \E outcome \in {"ok", "error"} : WriteRow(MarkedFailed(task[p].event), outcome)
    /\ IF required THEN Return(p) ELSE Goto(p, "deliver")
    /\ Unlock
    /\ UNCHANGED <<journal, stream, required, remembered, batch, drain, delivered>>

\* Outside the lock: remember the event, then run the topic's handlers (a
\* handler that raises sends the message to the dead-letter handlers).
DeliverStep(p) ==
    LET e == task[p].event
    IN  /\ task[p].step = "deliver"
        /\ remembered' = Remember(remembered, e)
        /\ delivered' = [delivered EXCEPT ![e] = IF @ = 2 THEN 2 ELSE @ + 1]
        /\ Return(p)
        /\ UNCHANGED <<durable, required, holder, batch, drain, faults>>

-----------------------------------------------------------------------------
(* OutboxDispatcher.drain_once *)

\* The loop takes the next of the messages, or leaves the lock after the last.
DrainNext(messages) ==
    \/ \E e \in Earliest(messages) :
          /\ drain' = [step |-> "broker", event |-> e]
          /\ batch' = messages \ {e} /\ holder' = "dispatcher"
    \/ messages = {} /\ batch' = {} /\ drain' = IdleTask /\ Unlock

\* Mutant: the dispatcher polls without the publication lock.
DrainStartUnlocked ==
    /\ drain = IdleTask /\ PendingMessages # {}
    /\ DrainNext(PendingMessages)
    /\ UNCHANGED <<durable, required, remembered, task, delivered, faults>>

DrainStart ==
    /\ drain = IdleTask /\ holder = "nobody" /\ PendingMessages # {}
    /\ DrainNext(PendingMessages)
    /\ UNCHANGED <<durable, required, remembered, task, delivered, faults>>

DrainGoto(step) == drain' = [drain EXCEPT !.step = step]

DrainBroker ==
    /\ drain.step = "broker"
    /\ \E outcome \in {"ok", "error"} :
          /\ XADD(drain.event, outcome)
          /\ DrainGoto(IF outcome = "ok" THEN "mark" ELSE "failed")
    /\ UNCHANGED <<journal, outbox, required, remembered, holder, task, batch, delivered>>

DrainMark ==
    /\ drain.step = "mark"
    /\ \E outcome \in {"ok", "error"} :
          /\ WriteRow(MarkedPublished(drain.event), outcome)
          /\ IF outcome = "ok" THEN DrainNext(batch)
                               ELSE DrainGoto("failed") /\ UNCHANGED <<batch, holder>>
    /\ UNCHANGED <<journal, stream, required, remembered, task, delivered>>

\* A failure to record the failure ends this poll; run() polls again.
DrainFailed ==
    /\ drain.step = "failed"
    /\ \E outcome \in {"ok", "error"} :
          /\ WriteRow(MarkedFailed(drain.event), outcome)
          /\ DrainNext(IF outcome = "ok" THEN batch ELSE {})
    /\ UNCHANGED <<journal, stream, required, remembered, task, delivered>>

\* The process dies: everything not durable is gone.
EventLogCrash ==
    /\ Fault
    /\ remembered' = <<>> /\ holder' = "nobody"
    /\ task' = [p \in Publishers |-> IdleTask]
    /\ batch' = {} /\ drain' = IdleTask
    /\ UNCHANGED <<durable, required, delivered>>

PublisherStep(p) ==
    \/ JournalStep(p) \/ BrokerStep(p) \/ MarkStep(p)
    \/ MarkFailedStep(p) \/ DeliverStep(p)

DrainStep == DrainBroker \/ DrainMark \/ DrainFailed

EventLogNext ==
    \/ \E p \in Publishers, e \in Events : PublishCall(p, e)
    \/ \E p \in Publishers : PublisherStep(p) \/ JournalFails(p)
    \/ DrainStart \/ DrainStep \/ EventLogCrash

EventLogSpec == EventLogInit /\ [][EventLogNext]_eventLogVars

\* A publisher's awaits end, and run() polls for ever: asyncio.Lock is first
\* come first served, so a dispatcher that keeps asking for it gets it although
\* publishers take it again and again (strong fairness).
EventLogFairness ==
    /\ \A p \in Publishers : WF_eventLogVars(PublisherStep(p))
    /\ SF_eventLogVars(DrainStart) /\ WF_eventLogVars(DrainStep)

-----------------------------------------------------------------------------
(* Properties *)

EventLogTypeOK ==
    /\ journal \in Seq(Events) /\ stream \in Seq(Events) /\ remembered \in Seq(Events)
    /\ outbox \in [Events -> OutboxStates]
    /\ required \in BOOLEAN
    /\ holder \in Publishers \cup {"nobody", "dispatcher"}
    /\ task \in [Publishers -> [step : TaskSteps, event : Events \cup {NoEvent}]]
    /\ \A p \in Publishers : task[p].step # "idle" => task[p].event \in Events
    /\ batch \subseteq Events /\ drain \in [step : DrainSteps, event : Events \cup {NoEvent}]
    /\ delivered \in [Events -> 0..2]
    /\ faults \in 0..MaxFaults

\* An event is in the journal before the broker or any handler gets it (the
\* comment at event_bus.py:126), and its outbox row says published only once
\* the broker has it: the event bus, its dispatcher and their recovery after a
\* crash implement DurableLog.
Log == INSTANCE DurableLog WITH
           LogEvents <- Events,
           accepted <- Elements(journal),
           sent <- Elements(stream),
           confirmed <- {e \in Events : outbox[e] = "published"},
           handled <- {e \in Events : delivered[e] > 0}
ImplementsDurableLog == Log!LogSpec

\* The publication lock keeps publisher and dispatcher from sending the same
\* event: a second XADD of an event takes a failed call or a crash.
DuplicatesNeedAFault == Len(stream) <= Cardinality(Elements(stream)) + faults

\* Every journaled event the transport can carry is confirmed in the end,
\* whatever failed and whichever oversize events stay pending before it.
EveryEventConfirmed ==
    \A e \in Events \ Oversize :
        (e \in Elements(journal)) ~> (outbox[e] = "published")
=============================================================================
