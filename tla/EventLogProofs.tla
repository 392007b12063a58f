--------------------------- MODULE EventLogProofs ---------------------------
(***************************************************************************)
(* The event bus with its outbox implements DurableLog, for any number of  *)
(* events, publishers and faults and any batch size.  What the refinement  *)
(* needs of the publishers and the dispatcher is only what they are about  *)
(* to do: whoever sends or handles an event has it from the journal, and   *)
(* whoever marks a row has sent its event.  The publication lock plays no  *)
(* part in it, nor does the memory of processed ids.                       *)
(*                                                                         *)
(* The lock matters for repetitions.  LockInv: one task at a time is       *)
(* between the journal and the mark, and it read its row after it got the  *)
(* lock.  Count: an event that is sent, not confirmed and not about to be, *)
(* is loose and will be sent again; each fault lets loose at most one.     *)
(***************************************************************************)
EXTENDS EventLog, FiniteSetTheorems, TLAPS

TaskRecord == [step : TaskSteps, event : Events \cup {NoEvent}]

Shape ==
    /\ journal \in Seq(Events) /\ stream \in Seq(Events)
    /\ outbox \in [Events -> OutboxStates]
    /\ task \in [Publishers -> TaskRecord] /\ drain \in TaskRecord
    /\ delivered \in [Events -> Nat]

\* A task with this record has its event from the journal, and has sent it before
\* it marks the row.
Entitled(record) ==
    /\ record.step # "idle" => record.event \in Events
    /\ record.step \notin {"idle", "lock"} => record.event \in Elements(journal)
    /\ record.step = "mark" => record.event \in Elements(stream)

LogInv ==
    /\ Shape
    /\ \A p \in Publishers : Entitled(task[p])
    /\ Entitled(drain) /\ drain.step \in DrainSteps
    /\ batch \subseteq Elements(journal)

-----------------------------------------------------------------------------
(* Sequences and records *)

\* The journal and the stream are sequences of events that grow at the end.
LEMMA AppendElements ==
    ASSUME NEW s \in Seq(Events), NEW e \in Events
    PROVE  Append(s, e) \in Seq(Events) /\ Elements(Append(s, e)) = Elements(s) \cup {e}
<1> DEFINE n == Len(s) + 1
<1>1. Append(s, e) \in Seq(Events)
  OBVIOUS
<1>2. /\ n \in Nat /\ DOMAIN s = 1..(n - 1) /\ DOMAIN Append(s, e) = 1..n
      /\ \A i \in 1..(n - 1) : Append(s, e)[i] = s[i]
      /\ Append(s, e)[n] = e
  OBVIOUS
<1> HIDE DEF n
<1>3. Elements(Append(s, e)) = Elements(s) \cup {e}
  BY <1>2 DEF Elements
<1> QED BY <1>1, <1>3

\* save_bus_message adds the event unless it is there.
LEMMA JournaledElements ==
    ASSUME journal \in Seq(Events), NEW e \in Events
    PROVE  Journaled(e) \in Seq(Events) /\ Elements(Journaled(e)) = Elements(journal) \cup {e}
BY AppendElements DEF Journaled

\* The record of an idle task.
LEMMA IdleTaskRecord == IdleTask \in TaskRecord /\ IdleTask.step = "idle"
BY DEF IdleTask, TaskRecord, TaskSteps

\* Goto changes the step of one task.
LEMMA GotoFacts ==
    ASSUME task \in [Publishers -> TaskRecord], NEW p \in Publishers, NEW s \in TaskSteps,
           Goto(p, s)
    PROVE  /\ task' \in [Publishers -> TaskRecord]
           /\ \A q \in Publishers : q # p => task'[q] = task[q]
           /\ task'[p].step = s /\ task'[p].event = task[p].event
BY DEF Goto, TaskRecord

\* Return ends one task.
LEMMA ReturnFacts ==
    ASSUME task \in [Publishers -> TaskRecord], NEW p \in Publishers, Return(p)
    PROVE  /\ task' \in [Publishers -> TaskRecord]
           /\ \A q \in Publishers : q # p => task'[q] = task[q]
           /\ task'[p].step = "idle"
BY IdleTaskRecord DEF Return

\* DrainGoto changes the step of the dispatcher.
LEMMA DrainGotoFacts ==
    ASSUME drain \in TaskRecord, NEW s \in TaskSteps, DrainGoto(s)
    PROVE  drain' \in TaskRecord /\ drain'.step = s /\ drain'.event = drain.event
BY DEF DrainGoto, TaskRecord

-----------------------------------------------------------------------------
(* The steps of DurableLog *)

Confirmed == {e \in Events : outbox[e] = "published"}
Handled == {e \in Events : delivered[e] > 0}
Sets == <<Elements(journal), Elements(stream), Confirmed, Handled>>

LogStep == [Log!LogNext]_(Log!logVars)

\* A step that changes none of the four sets is a stutter.
LEMMA Stutters == ASSUME UNCHANGED Sets PROVE LogStep
BY DEF Sets, LogStep, Log!logVars, Confirmed, Handled

\* A step that journals an event accepts it.
LEMMA Accepts ==
    ASSUME NEW e \in Events, Elements(journal)' = Elements(journal) \cup {e},
           UNCHANGED <<Elements(stream), Confirmed, Handled>>
    PROVE  LogStep
<1>1. CASE e \in Elements(journal)
  BY <1>1, Stutters DEF Sets
<1>2. CASE e \notin Elements(journal)
  BY <1>2 DEF LogStep, Log!LogNext, Log!Accept, Confirmed, Handled
<1> QED BY <1>1, <1>2

\* A step that adds an accepted event to the stream sends it.
LEMMA Sends ==
    ASSUME NEW e \in Events, e \in Elements(journal),
           Elements(stream)' = Elements(stream) \cup {e},
           UNCHANGED <<Elements(journal), Confirmed, Handled>>
    PROVE  LogStep
BY DEF LogStep, Log!LogNext, Log!Send, Confirmed, Handled

\* A step that marks the row of a sent event confirms it.
LEMMA Confirms ==
    ASSUME NEW e \in Events, e \in Elements(stream), Confirmed' = Confirmed \cup {e},
           UNCHANGED <<Elements(journal), Elements(stream), Handled>>
    PROVE  LogStep
BY DEF LogStep, Log!LogNext, Log!Confirm, Confirmed, Handled

\* A step that runs the handlers of an accepted event handles it.
LEMMA Handles ==
    ASSUME NEW e \in Events, e \in Elements(journal), Handled' = Handled \cup {e},
           UNCHANGED <<Elements(journal), Elements(stream), Confirmed>>
    PROVE  LogStep
BY DEF LogStep, Log!LogNext, Log!Handle, Confirmed, Handled

-----------------------------------------------------------------------------
(* Effects of the calls *)

\* RedisStreamTransport.publish: the stream grows by the event or not at all,
\* and it grows when the answer is good.
LEMMA XADDEffect ==
    ASSUME stream \in Seq(Events), NEW e \in Events, NEW outcome, XADD(e, outcome)
    PROVE  /\ stream' \in Seq(Events)
           /\ \/ stream' = stream
              \/ Elements(stream') = Elements(stream) \cup {e}
           /\ outcome = "ok" => e \in Elements(stream')
<1>1. stream' = stream \/ stream' = Append(stream, e)
  BY DEF XADD
<1>2. outcome = "ok" => stream' = Append(stream, e)
  BY DEF XADD
<1> QED BY <1>1, <1>2, AppendElements

\* Marking a row published confirms the event; marking it failed confirms and
\* takes back nothing.  A write that fails did one of the two or nothing.
LEMMA MarkEffect ==
    ASSUME outbox \in [Events -> OutboxStates], NEW e \in Events, NEW outcome,
           WriteRow(MarkedPublished(e), outcome)
    PROVE  /\ outbox' \in [Events -> OutboxStates]
           /\ Confirmed' = Confirmed \/ Confirmed' = Confirmed \cup {e}
<1>1. outbox' = outbox \/ outbox' = MarkedPublished(e)
  BY DEF WriteRow
<1> QED BY <1>1 DEF MarkedPublished, Confirmed, OutboxStates

\* See MarkEffect.
LEMMA MarkFailedEffect ==
    ASSUME outbox \in [Events -> OutboxStates], NEW e \in Events, NEW outcome,
           WriteRow(MarkedFailed(e), outcome)
    PROVE  outbox' \in [Events -> OutboxStates] /\ Confirmed' = Confirmed
<1>1. outbox' = outbox \/ outbox' = MarkedFailed(e)
  BY DEF WriteRow
<1> QED BY <1>1 DEF MarkedFailed, Confirmed, OutboxStates

\* drain_once takes a message it read from the journal, or ends.
LEMMA DrainNextFacts ==
    ASSUME NEW messages, messages \subseteq Events, messages \subseteq Elements(journal),
           DrainNext(messages)
    PROVE  /\ drain' \in TaskRecord /\ drain'.step \in {"idle", "broker"}
           /\ drain'.step # "idle" => drain'.event \in messages
           /\ batch' \subseteq messages
<1>1. CASE messages = {} /\ batch' = {} /\ drain' = IdleTask /\ Unlock
  BY <1>1, IdleTaskRecord
<1>2. ASSUME NEW e \in Earliest(messages), drain' = [step |-> "broker", event |-> e],
             batch' = messages \ {e}
      PROVE  /\ drain' \in TaskRecord /\ drain'.step = "broker"
             /\ drain'.event \in messages /\ batch' \subseteq messages
  BY <1>2 DEF Earliest, TaskRecord, TaskSteps
<1> QED BY <1>1, <1>2 DEF DrainNext

\* The rows of the journal are events.
LEMMA JournalOfEvents == ASSUME journal \in Seq(Events) PROVE Elements(journal) \subseteq Events
BY DEF Elements

-----------------------------------------------------------------------------
(* What a step leaves to the others *)

\* A publisher's step that takes nothing from the journal or the stream leaves
\* every other task entitled to what it is about to do.
LEMMA PublisherFrame ==
    ASSUME LogInv, NEW p \in Publishers, Shape',
           Elements(journal) \subseteq Elements(journal'),
           Elements(stream) \subseteq Elements(stream'),
           \A q \in Publishers : q # p => task'[q] = task[q],
           Entitled(task[p])', UNCHANGED <<batch, drain>>
    PROVE  LogInv'
<1>1. \A q \in Publishers : Entitled(task[q])'
  <2> SUFFICES ASSUME NEW q \in Publishers, q # p PROVE Entitled(task[q])'
    OBVIOUS
  <2>1. Entitled(task[q]) /\ task'[q] = task[q]
    BY DEF LogInv
  <2> QED BY <2>1 DEF Entitled
<1>2. Entitled(drain)'
  BY DEF LogInv, Entitled
<1> QED BY <1>1, <1>2 DEF LogInv

\* The same for a step of the dispatcher.
LEMMA DispatcherFrame ==
    ASSUME LogInv, Shape', UNCHANGED <<journal, task>>,
           Elements(stream) \subseteq Elements(stream'),
           Entitled(drain)', drain'.step \in DrainSteps, batch' \subseteq Elements(journal)
    PROVE  LogInv'
<1>1. \A q \in Publishers : Entitled(task[q])'
  BY DEF LogInv, Entitled
<1> QED BY <1>1 DEF LogInv

-----------------------------------------------------------------------------
(* The publishers' steps *)

\* publish starts.
LEMMA PublishCallStep ==
    ASSUME LogInv, NEW p \in Publishers, NEW e \in Events, PublishCall(p, e)
    PROVE  LogInv' /\ LogStep
<1> USE DEF PublishCall, durable
<1>1. task' \in [Publishers -> TaskRecord] /\ task'[p] = [step |-> "lock", event |-> e]
  BY DEF LogInv, Shape, TaskRecord, TaskSteps
<1>2. Entitled(task[p])'
  BY <1>1 DEF Entitled
<1>3. Shape'
  BY <1>1 DEF LogInv, Shape
<1>4. \A q \in Publishers : q # p => task'[q] = task[q]
  BY DEF LogInv, Shape
<1>5. LogInv'
  BY <1>2, <1>3, <1>4, PublisherFrame
<1>6. UNCHANGED Sets
  BY DEF Sets, Confirmed, Handled
<1> QED BY <1>5, <1>6, Stutters

\* The event of a task that is not idle.
LEMMA TaskEvent ==
    ASSUME LogInv, NEW p \in Publishers, task[p].step # "idle"
    PROVE  task[p].event \in Events
BY DEF LogInv, Entitled

\* The journal write and what follows it under the lock.
LEMMA JournalStepStep ==
    ASSUME LogInv, NEW p \in Publishers, JournalStep(p)
    PROVE  LogInv' /\ LogStep
<1> DEFINE e == task[p].event
<1>0. e \in Events /\ Shape /\ journal \in Seq(Events) /\ task \in [Publishers -> TaskRecord]
  BY TaskEvent DEF JournalStep, LogInv, Shape
<1>1. UNCHANGED <<outbox, stream, drain, batch, delivered>>
  BY DEF JournalStep
<1>2. UNCHANGED <<Elements(stream), Confirmed, Handled>>
  BY <1>1 DEF Confirmed, Handled
<1>3. CASE e \notin Elements(journal) /\ journal' = Journaled(e) /\ Goto(p, "broker")
  <2>1. journal' \in Seq(Events) /\ Elements(journal') = Elements(journal) \cup {e}
    BY <1>0, <1>3, JournaledElements
  <2>2. /\ task' \in [Publishers -> TaskRecord]
        /\ \A q \in Publishers : q # p => task'[q] = task[q]
        /\ task'[p].step = "broker" /\ task'[p].event = e
    BY <1>0, <1>3, GotoFacts, "broker" \in TaskSteps DEF TaskSteps
  <2>3. Entitled(task[p])'
    BY <1>0, <2>1, <2>2 DEF Entitled
  <2>4. Shape'
    BY <1>0, <1>1, <2>1, <2>2 DEF Shape
  <2>5. LogInv'
    BY <1>1, <2>1, <2>2, <2>3, <2>4, PublisherFrame
  <2> QED BY <1>0, <1>2, <2>1, <2>5, Accepts
<1>4. CASE e \in Elements(journal) /\ journal' = journal /\ Goto(p, "broker")
  <2>2. /\ task' \in [Publishers -> TaskRecord]
        /\ \A q \in Publishers : q # p => task'[q] = task[q]
        /\ task'[p].step = "broker" /\ task'[p].event = e
    BY <1>0, <1>4, GotoFacts, "broker" \in TaskSteps DEF TaskSteps
  <2>3. Entitled(task[p])'
    BY <1>0, <1>4, <2>2 DEF Entitled
  <2>4. Shape'
    BY <1>0, <1>1, <1>4, <2>2 DEF Shape
  <2>5. LogInv'
    BY <1>1, <1>4, <2>2, <2>3, <2>4, PublisherFrame
  <2> QED BY <1>2, <1>4, <2>5, Stutters DEF Sets
<1>5. CASE journal' = journal /\ Return(p)
  <2>2. /\ task' \in [Publishers -> TaskRecord]
        /\ \A q \in Publishers : q # p => task'[q] = task[q]
        /\ task'[p].step = "idle"
    BY <1>0, <1>5, ReturnFacts
  <2>3. Entitled(task[p])'
    BY <2>2 DEF Entitled
  <2>4. Shape'
    BY <1>0, <1>1, <1>5, <2>2 DEF Shape
  <2>5. LogInv'
    BY <1>1, <1>5, <2>2, <2>3, <2>4, PublisherFrame
  <2> QED BY <1>2, <1>5, <2>5, Stutters DEF Sets
<1> QED BY <1>3, <1>4, <1>5 DEF JournalStep

\* The journal write that fails, after its commit or before.
LEMMA JournalFailsStep ==
    ASSUME LogInv, NEW p \in Publishers, JournalFails(p)
    PROVE  LogInv' /\ LogStep
<1> DEFINE e == task[p].event
<1>0. e \in Events /\ Shape /\ journal \in Seq(Events) /\ task \in [Publishers -> TaskRecord]
  BY TaskEvent DEF JournalFails, LogInv, Shape
<1>1. UNCHANGED <<outbox, stream, drain, batch, delivered>>
  BY DEF JournalFails
<1>2. UNCHANGED <<Elements(stream), Confirmed, Handled>>
  BY <1>1 DEF Confirmed, Handled
<1>3. /\ task' \in [Publishers -> TaskRecord]
      /\ \A q \in Publishers : q # p => task'[q] = task[q]
      /\ task'[p].step = "idle"
  BY <1>0, ReturnFacts DEF JournalFails
<1>4. Entitled(task[p])'
  BY <1>3 DEF Entitled
<1>5. \/ journal' = journal
      \/ journal' \in Seq(Events) /\ Elements(journal') = Elements(journal) \cup {e}
  BY <1>0, JournaledElements DEF JournalFails
<1>6. Shape'
  BY <1>0, <1>1, <1>3, <1>5 DEF Shape
<1>7. LogInv'
  BY <1>1, <1>3, <1>4, <1>5, <1>6, PublisherFrame
<1>8. CASE journal' = journal
  BY <1>2, <1>7, <1>8, Stutters DEF Sets
<1>9. CASE Elements(journal') = Elements(journal) \cup {e}
  BY <1>0, <1>2, <1>7, <1>9, Accepts
<1> QED BY <1>5, <1>8, <1>9

\* XADD by a publisher.
LEMMA BrokerStepStep ==
    ASSUME LogInv, NEW p \in Publishers, BrokerStep(p)
    PROVE  LogInv' /\ LogStep
<1> DEFINE e == task[p].event
<1>0. /\ e \in Events /\ e \in Elements(journal)
      /\ Shape /\ stream \in Seq(Events) /\ task \in [Publishers -> TaskRecord]
  BY TaskEvent DEF BrokerStep, LogInv, Shape, Entitled
<1>1. UNCHANGED <<journal, outbox, drain, batch, delivered>>
  BY DEF BrokerStep
<1>2. UNCHANGED <<Elements(journal), Confirmed, Handled>>
  BY <1>1 DEF Confirmed, Handled
<1>3. PICK outcome \in {"ok", "error"} :
          XADD(e, outcome) /\ Goto(p, IF outcome = "ok" THEN "mark" ELSE "failed")
  BY DEF BrokerStep
<1>4. /\ stream' \in Seq(Events)
      /\ stream' = stream \/ Elements(stream') = Elements(stream) \cup {e}
      /\ outcome = "ok" => e \in Elements(stream')
  BY <1>0, <1>3, XADDEffect
<1> DEFINE s == IF outcome = "ok" THEN "mark" ELSE "failed"
<1>5. s \in TaskSteps /\ s # "idle" /\ (s = "mark" => outcome = "ok")
  BY DEF TaskSteps
<1> HIDE DEF s
<1>6. /\ task' \in [Publishers -> TaskRecord]
      /\ \A q \in Publishers : q # p => task'[q] = task[q]
      /\ task'[p].step = s /\ task'[p].event = e
  BY <1>0, <1>3, <1>5, GotoFacts DEF s
<1>7. Entitled(task[p])'
  BY <1>0, <1>1, <1>4, <1>5, <1>6 DEF Entitled
<1>8. Shape'
  BY <1>0, <1>1, <1>4, <1>6 DEF Shape
<1>9. LogInv'
  BY <1>1, <1>4, <1>6, <1>7, <1>8, PublisherFrame
<1>10. CASE stream' = stream
  BY <1>2, <1>9, <1>10, Stutters DEF Sets
<1>11. CASE Elements(stream') = Elements(stream) \cup {e}
  BY <1>0, <1>2, <1>9, <1>11, Sends
<1> QED BY <1>4, <1>10, <1>11

\* mark_published by a publisher.
LEMMA MarkStepStep ==
    ASSUME LogInv, NEW p \in Publishers, MarkStep(p)
    PROVE  LogInv' /\ LogStep
<1> DEFINE e == task[p].event
<1>0. /\ e \in Events /\ e \in Elements(journal) /\ e \in Elements(stream)
      /\ Shape /\ outbox \in [Events -> OutboxStates] /\ task \in [Publishers -> TaskRecord]
  BY TaskEvent DEF MarkStep, LogInv, Shape, Entitled
<1>1. UNCHANGED <<journal, stream, drain, batch, delivered>>
  BY DEF MarkStep
<1>2. UNCHANGED <<Elements(journal), Elements(stream), Handled>>
  BY <1>1 DEF Handled
<1>3. PICK outcome \in {"ok", "error"} :
          WriteRow(MarkedPublished(e), outcome) /\ (Goto(p, "deliver") \/ Goto(p, "failed"))
  BY DEF MarkStep
<1>4. outbox' \in [Events -> OutboxStates] /\ (Confirmed' = Confirmed \/ Confirmed' = Confirmed \cup {e})
  BY <1>0, <1>3, MarkEffect
<1>5. /\ task' \in [Publishers -> TaskRecord]
      /\ \A q \in Publishers : q # p => task'[q] = task[q]
      /\ task'[p].step \in {"deliver", "failed"} /\ task'[p].event = e
  BY <1>0, <1>3, GotoFacts, {"deliver", "failed"} \subseteq TaskSteps DEF TaskSteps
<1>6. Entitled(task[p])'
  BY <1>0, <1>1, <1>5 DEF Entitled
<1>7. Shape'
  BY <1>0, <1>1, <1>4, <1>5 DEF Shape
<1>8. LogInv'
  BY <1>1, <1>5, <1>6, <1>7, PublisherFrame
<1>9. CASE Confirmed' = Confirmed
  BY <1>2, <1>8, <1>9, Stutters DEF Sets
<1>10. CASE Confirmed' = Confirmed \cup {e}
  BY <1>0, <1>2, <1>8, <1>10, Confirms
<1> QED BY <1>4, <1>9, <1>10

\* mark_failed by a publisher.
LEMMA MarkFailedStepStep ==
    ASSUME LogInv, NEW p \in Publishers, MarkFailedStep(p)
    PROVE  LogInv' /\ LogStep
<1> DEFINE e == task[p].event
<1>0. /\ e \in Events /\ e \in Elements(journal)
      /\ Shape /\ outbox \in [Events -> OutboxStates] /\ task \in [Publishers -> TaskRecord]
  BY TaskEvent DEF MarkFailedStep, LogInv, Shape, Entitled
<1>1. UNCHANGED <<journal, stream, drain, batch, delivered>>
  BY DEF MarkFailedStep
<1>2. UNCHANGED <<Elements(journal), Elements(stream), Handled>>
  BY <1>1 DEF Handled
<1>3. PICK outcome \in {"ok", "error"} : WriteRow(MarkedFailed(e), outcome)
  BY DEF MarkFailedStep
<1>4. outbox' \in [Events -> OutboxStates] /\ Confirmed' = Confirmed
  BY <1>0, <1>3, MarkFailedEffect
<1>5. Return(p) \/ Goto(p, "deliver")
  BY Zenon DEF MarkFailedStep
<1>6. /\ task' \in [Publishers -> TaskRecord]
      /\ \A q \in Publishers : q # p => task'[q] = task[q]
      /\ task'[p].step = "idle" \/ (task'[p].step = "deliver" /\ task'[p].event = e)
  BY <1>0, <1>5, ReturnFacts, GotoFacts, "deliver" \in TaskSteps DEF TaskSteps
<1>7. Entitled(task[p])'
  BY <1>0, <1>1, <1>6 DEF Entitled
<1>8. Shape'
  BY <1>0, <1>1, <1>4, <1>6 DEF Shape
<1>9. LogInv'
  BY <1>1, <1>6, <1>7, <1>8, PublisherFrame
<1> QED BY <1>2, <1>4, <1>9, Stutters DEF Sets

\* The handlers run.
LEMMA DeliverStepStep ==
    ASSUME LogInv, NEW p \in Publishers, DeliverStep(p)
    PROVE  LogInv' /\ LogStep
<1> DEFINE e == task[p].event
<1>0. /\ e \in Events /\ e \in Elements(journal)
      /\ Shape /\ delivered \in [Events -> Nat] /\ task \in [Publishers -> TaskRecord]
  BY TaskEvent DEF DeliverStep, LogInv, Shape, Entitled
<1>1. UNCHANGED <<journal, stream, outbox, drain, batch>>
  BY DEF DeliverStep, durable
<1>2. UNCHANGED <<Elements(journal), Elements(stream), Confirmed>>
  BY <1>1 DEF Confirmed
<1>3. /\ delivered' \in [Events -> Nat]
      /\ delivered'[e] > 0 /\ \A f \in Events : f # e => delivered'[f] = delivered[f]
  BY <1>0 DEF DeliverStep
<1>4. Handled' = Handled \cup {e}
  BY <1>0, <1>3 DEF Handled
<1>5. /\ task' \in [Publishers -> TaskRecord]
      /\ \A q \in Publishers : q # p => task'[q] = task[q]
      /\ task'[p].step = "idle"
  BY <1>0, ReturnFacts DEF DeliverStep
<1>6. Entitled(task[p])'
  BY <1>5 DEF Entitled
<1>7. Shape'
  BY <1>0, <1>1, <1>3, <1>5 DEF Shape
<1>8. LogInv'
  BY <1>1, <1>5, <1>6, <1>7, PublisherFrame
<1> QED BY <1>0, <1>2, <1>4, <1>8, Handles

-----------------------------------------------------------------------------
(* The dispatcher's steps, and a crash *)

\* What the dispatcher holds: its message when it is not idle, and the rest of
\* its batch, all from the journal.
LEMMA DispatcherHolds ==
    ASSUME LogInv
    PROVE  /\ Shape /\ stream \in Seq(Events) /\ outbox \in [Events -> OutboxStates]
           /\ drain \in TaskRecord /\ batch \subseteq Events /\ batch \subseteq Elements(journal)
           /\ Elements(journal) \subseteq Events
           /\ drain.step # "idle" => drain.event \in Events /\ drain.event \in Elements(journal)
           /\ drain.step = "mark" => drain.event \in Elements(stream)
<1>1. Elements(journal) \subseteq Events
  BY JournalOfEvents DEF LogInv, Shape
<1>2. drain.step # "idle" => drain.event \in Events /\ drain.event \in Elements(journal)
  BY DEF LogInv, Entitled, DrainSteps
<1> QED BY <1>1, <1>2 DEF LogInv, Shape, Entitled

\* Taking the next of some journaled messages keeps the dispatcher entitled.
LEMMA DrainNextEntitled ==
    ASSUME LogInv, NEW messages, messages \subseteq Elements(journal), DrainNext(messages),
           UNCHANGED <<journal, stream, task, delivered>>, outbox' \in [Events -> OutboxStates]
    PROVE  LogInv'
<1>1. messages \subseteq Events
  BY DispatcherHolds
<1>2. /\ drain' \in TaskRecord /\ drain'.step \in {"idle", "broker"}
      /\ drain'.step # "idle" => drain'.event \in messages
      /\ batch' \subseteq messages
  BY <1>1, DrainNextFacts
<1>3. Entitled(drain)'
  BY <1>1, <1>2 DEF Entitled
<1>4. Shape'
  BY <1>2 DEF LogInv, Shape
<1> QED BY <1>2, <1>3, <1>4, DispatcherFrame DEF DrainSteps

\* drain_once lists pending messages.
LEMMA DrainStartStep == ASSUME LogInv, DrainStart PROVE LogInv' /\ LogStep
<1>1. PendingMessages \subseteq Elements(journal)
  BY DEF PendingMessages, FirstOf
<1>2. LogInv'
  BY <1>1, DrainNextEntitled, DispatcherHolds DEF DrainStart, durable
<1>3. UNCHANGED Sets
  BY DEF DrainStart, durable, Sets, Confirmed, Handled
<1> QED BY <1>2, <1>3, Stutters

\* XADD by the dispatcher.
LEMMA DrainBrokerStep == ASSUME LogInv, DrainBroker PROVE LogInv' /\ LogStep
<1> DEFINE e == drain.event
<1>0. e \in Events /\ e \in Elements(journal)
  BY DispatcherHolds DEF DrainBroker
<1>1. UNCHANGED <<journal, outbox, task, batch, delivered>>
  BY DEF DrainBroker
<1>2. UNCHANGED <<Elements(journal), Confirmed, Handled>>
  BY <1>1 DEF Confirmed, Handled
<1>3. PICK outcome \in {"ok", "error"} :
          XADD(e, outcome) /\ DrainGoto(IF outcome = "ok" THEN "mark" ELSE "failed")
  BY DEF DrainBroker
<1>4. /\ stream' \in Seq(Events)
      /\ stream' = stream \/ Elements(stream') = Elements(stream) \cup {e}
      /\ outcome = "ok" => e \in Elements(stream')
  BY <1>0, <1>3, XADDEffect, DispatcherHolds
<1> DEFINE s == IF outcome = "ok" THEN "mark" ELSE "failed"
<1>5. s \in TaskSteps /\ s \in DrainSteps /\ s # "idle" /\ (s = "mark" => outcome = "ok")
  BY DEF TaskSteps, DrainSteps
<1> HIDE DEF s
<1>6. drain' \in TaskRecord /\ drain'.step = s /\ drain'.event = e
  BY <1>3, <1>5, DrainGotoFacts, DispatcherHolds DEF s
<1>7. Entitled(drain)'
  BY <1>0, <1>1, <1>4, <1>5, <1>6 DEF Entitled
<1>8. Shape'
  BY <1>1, <1>4, <1>6 DEF LogInv, Shape
<1>9. LogInv'
  BY <1>1, <1>4, <1>5, <1>6, <1>7, <1>8, DispatcherHolds, DispatcherFrame
<1>10. CASE stream' = stream
  BY <1>2, <1>9, <1>10, Stutters DEF Sets
<1>11. CASE Elements(stream') = Elements(stream) \cup {e}
  BY <1>0, <1>2, <1>9, <1>11, Sends
<1> QED BY <1>4, <1>10, <1>11

\* mark_published by the dispatcher.
LEMMA DrainMarkStep == ASSUME LogInv, DrainMark PROVE LogInv' /\ LogStep
<1> DEFINE e == drain.event
<1>0. e \in Events /\ e \in Elements(journal) /\ e \in Elements(stream)
  BY DispatcherHolds DEF DrainMark
<1>1. UNCHANGED <<journal, stream, task, delivered>>
  BY DEF DrainMark
<1>2. UNCHANGED <<Elements(journal), Elements(stream), Handled>>
  BY <1>1 DEF Handled
<1>3. PICK outcome \in {"ok", "error"} :
          /\ WriteRow(MarkedPublished(e), outcome)
          /\ DrainNext(batch) \/ (DrainGoto("failed") /\ batch' = batch)
  BY DEF DrainMark
<1>4. outbox' \in [Events -> OutboxStates] /\ (Confirmed' = Confirmed \/ Confirmed' = Confirmed \cup {e})
  BY <1>0, <1>3, MarkEffect, DispatcherHolds
<1>5. ASSUME DrainNext(batch) PROVE LogInv'
  BY <1>1, <1>4, <1>5, DrainNextEntitled, DispatcherHolds
<1>6. ASSUME DrainGoto("failed"), batch' = batch PROVE LogInv'
  <2>1. drain' \in TaskRecord /\ drain'.step = "failed" /\ drain'.event = e
    BY <1>6, DrainGotoFacts, DispatcherHolds, "failed" \in TaskSteps DEF TaskSteps
  <2>2. Entitled(drain)'
    BY <1>0, <1>1, <2>1 DEF Entitled
  <2>3. Shape'
    BY <1>1, <1>4, <2>1 DEF LogInv, Shape
  <2> QED BY <1>1, <1>6, <2>1, <2>2, <2>3, DispatcherHolds, DispatcherFrame DEF DrainSteps
<1>7. ASSUME Confirmed' = Confirmed PROVE LogStep
  BY <1>2, <1>7, Stutters DEF Sets
<1>8. ASSUME Confirmed' = Confirmed \cup {e} PROVE LogStep
  BY <1>0, <1>2, <1>8, Confirms
<1> QED BY <1>3, <1>4, <1>5, <1>6, <1>7, <1>8

\* mark_failed by the dispatcher.
LEMMA DrainFailedStep == ASSUME LogInv, DrainFailed PROVE LogInv' /\ LogStep
<1> DEFINE e == drain.event
<1>0. e \in Events
  BY DispatcherHolds DEF DrainFailed
<1>1. UNCHANGED <<journal, stream, task, delivered>>
  BY DEF DrainFailed
<1>2. UNCHANGED <<Elements(journal), Elements(stream), Handled>>
  BY <1>1 DEF Handled
<1>3. PICK outcome \in {"ok", "error"} :
          WriteRow(MarkedFailed(e), outcome) /\ (DrainNext(batch) \/ DrainNext({}))
  BY DEF DrainFailed
<1>4. outbox' \in [Events -> OutboxStates] /\ Confirmed' = Confirmed
  BY <1>0, <1>3, MarkFailedEffect, DispatcherHolds
<1>5. LogInv'
  BY <1>1, <1>3, <1>4, DrainNextEntitled, DispatcherHolds
<1> QED BY <1>2, <1>4, <1>5, Stutters DEF Sets

\* After a crash nobody is about to do anything.
LEMMA CrashStep == ASSUME LogInv, EventLogCrash PROVE LogInv' /\ LogStep
<1> USE DEF EventLogCrash, durable
<1>1. Shape'
  BY IdleTaskRecord DEF LogInv, Shape
<1>2. LogInv'
  BY <1>1, IdleTaskRecord DEF LogInv, Entitled, DrainSteps
<1>3. UNCHANGED Sets
  BY DEF Sets, Confirmed, Handled
<1> QED BY <1>2, <1>3, Stutters

-----------------------------------------------------------------------------
(* The theorem *)

\* Nothing has happened yet.
LEMMA LogStart == ASSUME EventLogInit PROVE LogInv /\ Log!LogInit
<1> USE DEF EventLogInit
<1>1. Shape
  BY IdleTaskRecord DEF Shape, OutboxStates
<1>2. LogInv
  BY <1>1, IdleTaskRecord DEF LogInv, Entitled, DrainSteps
<1>3. Elements(journal) = {} /\ Elements(stream) = {}
  BY DEF Elements
<1>4. Confirmed = {} /\ Handled = {}
  BY DEF Confirmed, Handled
<1> QED BY <1>2, <1>3, <1>4 DEF Log!LogInit, Confirmed, Handled

\* Every step keeps the invariant and is a step of the durable log.
LEMMA LogSteps == ASSUME LogInv, [EventLogNext]_eventLogVars PROVE LogInv' /\ LogStep
<1>1. CASE UNCHANGED eventLogVars
  <2> USE <1>1 DEF eventLogVars
  <2>1. LogInv'
    BY DEF LogInv, Shape, Entitled
  <2>2. UNCHANGED Sets
    BY DEF Sets, Confirmed, Handled
  <2> QED BY <2>1, <2>2, Stutters
<1>2. ASSUME NEW p \in Publishers, PublisherStep(p) \/ JournalFails(p)
      PROVE  LogInv' /\ LogStep
  BY <1>2, JournalStepStep, JournalFailsStep, BrokerStepStep, MarkStepStep,
     MarkFailedStepStep, DeliverStepStep DEF PublisherStep
<1>3. CASE DrainStart \/ DrainStep \/ EventLogCrash
  BY <1>3, DrainStartStep, DrainBrokerStep, DrainMarkStep, DrainFailedStep, CrashStep
     DEF DrainStep
<1> QED BY <1>1, <1>2, <1>3, PublishCallStep DEF EventLogNext

\* The event bus, its outbox dispatcher and their recovery implement the durable
\* log: whatever fails, only journaled events reach the broker or a handler, only
\* events the broker has are marked published, and nothing is ever taken back.
THEOREM BusImplementsLog == EventLogSpec => ImplementsDurableLog
<1>1. EventLogInit => LogInv /\ Log!LogInit
  BY LogStart
<1>2. LogInv /\ [EventLogNext]_eventLogVars => LogInv' /\ [Log!LogNext]_(Log!logVars)
  BY LogSteps DEF LogStep
<1> QED BY <1>1, <1>2, PTL DEF EventLogSpec, ImplementsDurableLog, Log!LogSpec

-----------------------------------------------------------------------------
(* The publication lock, and how often the broker gets an event *)

\* A task inside publication_lock, with an event.
Holding(record) == record.step \in {"broker", "mark", "failed"}

\* The event just sent, whose row is about to be marked; and those that were
\* sent, are not confirmed and not about to be: each will be sent again.
Marking ==
    {e \in Events : \/ drain.step = "mark" /\ drain.event = e
                    \/ \E p \in Publishers : task[p].step = "mark" /\ task[p].event = e}
Loose == {e \in Elements(stream) \ Marking : outbox[e] # "published"}

\* What the lock keeps: one task at a time, which read its row after it got the
\* lock, so nobody confirms an event that another is about to send.
LockInv ==
    /\ \A p \in Publishers : /\ Holding(task[p]) => holder = p
                             /\ task[p].step = "broker" => outbox[task[p].event] # "published"
    /\ drain.step # "idle" \/ batch # {} => holder = "dispatcher"
    /\ drain.step = "broker" => outbox[drain.event] # "published"
    /\ drain.step # "idle" => drain.event \notin batch
    /\ \A e \in batch : outbox[e] # "published"
    /\ \A e \in Events : outbox[e] = "published" => e \in Elements(journal)

\* Every fault leaves at most one event to be sent again.
Count ==
    /\ faults \in Nat
    /\ Len(stream) + Cardinality(Loose) <= Cardinality(Elements(stream)) + faults

\* Sets of events are finite.
LEMMA FiniteSets ==
    ASSUME Shape
    PROVE  /\ IsFiniteSet(Elements(stream)) /\ Cardinality(Elements(stream)) \in Nat
           /\ IsFiniteSet(Loose) /\ Cardinality(Loose) \in Nat
           /\ Len(stream) \in Nat
<1>1. Elements(stream) \in SUBSET Events
  BY DEF Elements, Shape
<1>2. IsFiniteSet(Elements(stream))
  BY <1>1, FS_Subset, EventLogAssumption
<1>3. Loose \in SUBSET Elements(stream)
  BY DEF Loose
<1>4. IsFiniteSet(Loose)
  BY <1>2, <1>3, FS_Subset
<1>5. Len(stream) \in Nat
  BY DEF Shape
<1> QED BY <1>2, <1>4, <1>5, FS_CardinalityType

\* The stream as a list and as a set after one more XADD.
LEMMA StreamGrows ==
    ASSUME Shape, NEW e \in Events
    PROVE  /\ Len(Append(stream, e)) = Len(stream) + 1
           /\ Cardinality(Elements(Append(stream, e)))
                = IF e \in Elements(stream) THEN Cardinality(Elements(stream))
                                            ELSE Cardinality(Elements(stream)) + 1
<1>1. stream \in Seq(Events)
  BY DEF Shape
<1>2. Elements(Append(stream, e)) = Elements(stream) \cup {e}
  BY <1>1, AppendElements
<1>3. Cardinality(Elements(Append(stream, e)))
        = IF e \in Elements(stream) THEN Cardinality(Elements(stream))
                                    ELSE Cardinality(Elements(stream)) + 1
  BY <1>2, FiniteSets, FS_AddElement
<1>4. Len(Append(stream, e)) = Len(stream) + 1
  BY <1>1
<1> QED BY <1>3, <1>4

-----------------------------------------------------------------------------
(* What a step does to the count *)

\* A step that sends nothing and leaves no event loose.
LEMMA CountQuiet ==
    ASSUME Shape, Shape', Count, UNCHANGED stream, Loose' \subseteq Loose,
           faults' \in Nat, faults' >= faults
    PROVE  Count'
<1>1. Cardinality(Loose') <= Cardinality(Loose)
  BY FiniteSets, FS_Subset
<1>2. Cardinality(Loose') \in Nat
  BY <1>1, FiniteSets, FS_Subset, FS_CardinalityType
<1>3. Elements(stream') = Elements(stream)
  OBVIOUS
<1> QED BY <1>1, <1>2, <1>3, FiniteSets DEF Count

\* A fault that leaves one event loose.
LEMMA CountFault ==
    ASSUME Shape, Shape', Count, UNCHANGED stream, NEW e, Loose' \subseteq Loose \cup {e},
           faults' = faults + 1
    PROVE  Count'
<1>0. /\ IsFiniteSet(Loose \cup {e})
      /\ Cardinality(Loose \cup {e}) = IF e \in Loose THEN Cardinality(Loose)
                                                      ELSE Cardinality(Loose) + 1
  BY FiniteSets, FS_AddElement
<1>1. IsFiniteSet(Loose \cup {e}) /\ Cardinality(Loose \cup {e}) <= Cardinality(Loose) + 1
  BY <1>0, FiniteSets
<1>2. Cardinality(Loose') <= Cardinality(Loose \cup {e}) /\ IsFiniteSet(Loose')
  BY <1>1, FS_Subset
<1>3. Cardinality(Loose') \in Nat /\ Cardinality(Loose \cup {e}) \in Nat
  BY <1>1, <1>2, FS_CardinalityType
<1>4. Elements(stream') = Elements(stream)
  OBVIOUS
<1> QED BY <1>1, <1>2, <1>3, <1>4, FiniteSets DEF Count

\* The broker accepts an event that is new or was loose, and its row is marked
\* next.
LEMMA CountSent ==
    ASSUME Shape, Shape', Count, NEW e \in Events, stream' = Append(stream, e),
           e \in Elements(stream) => e \in Loose, Loose' \subseteq Loose \ {e},
           faults' = faults
    PROVE  Count'
<1>1. /\ IsFiniteSet(Loose \ {e})
      /\ Cardinality(Loose \ {e}) = IF e \in Loose THEN Cardinality(Loose) - 1
                                                   ELSE Cardinality(Loose)
  BY FiniteSets, FS_RemoveElement
<1>2. Cardinality(Loose') <= Cardinality(Loose \ {e}) /\ IsFiniteSet(Loose')
  BY <1>1, FS_Subset
<1>3. Cardinality(Loose') \in Nat /\ Cardinality(Loose \ {e}) \in Nat
  BY <1>1, <1>2, FS_CardinalityType
<1>4. /\ Len(stream') = Len(stream) + 1
      /\ Cardinality(Elements(stream'))
            = IF e \in Elements(stream) THEN Cardinality(Elements(stream))
                                        ELSE Cardinality(Elements(stream)) + 1
  BY StreamGrows
<1> QED BY <1>1, <1>2, <1>3, <1>4, FiniteSets DEF Count

\* The broker accepts it and its answer is lost.
LEMMA CountSentLost ==
    ASSUME Shape, Shape', Count, NEW e \in Events, stream' = Append(stream, e),
           e \in Elements(stream) => e \in Loose, Loose' \subseteq Loose \cup {e},
           faults' = faults + 1
    PROVE  Count'
<1>1. /\ IsFiniteSet(Loose \cup {e})
      /\ Cardinality(Loose \cup {e}) = IF e \in Loose THEN Cardinality(Loose)
                                                      ELSE Cardinality(Loose) + 1
  BY FiniteSets, FS_AddElement
<1>2. Cardinality(Loose') <= Cardinality(Loose \cup {e}) /\ IsFiniteSet(Loose')
  BY <1>1, FS_Subset
<1>3. Cardinality(Loose') \in Nat /\ Cardinality(Loose \cup {e}) \in Nat
  BY <1>1, <1>2, FS_CardinalityType
<1>4. /\ Len(stream') = Len(stream) + 1
      /\ Cardinality(Elements(stream'))
            = IF e \in Elements(stream) THEN Cardinality(Elements(stream))
                                        ELSE Cardinality(Elements(stream)) + 1
  BY StreamGrows
<1> QED BY <1>1, <1>2, <1>3, <1>4, FiniteSets DEF Count

\* XADD by the one task under the lock, of an event nobody has confirmed.
LEMMA BrokerCount ==
    ASSUME Shape, Shape', Count, NEW e \in Events, NEW outcome \in {"ok", "error"},
           XADD(e, outcome), outbox[e] # "published", UNCHANGED outbox,
           Marking = {}, Marking' = IF outcome = "ok" THEN {e} ELSE {}
    PROVE  Count'
<1>0. e \in Elements(stream) => e \in Loose
  BY DEF Loose
<1>1. Elements(Append(stream, e)) = Elements(stream) \cup {e}
  BY AppendElements DEF Shape
<1>2. CASE outcome = "ok"
  <2>1. stream' = Append(stream, e) /\ faults' = faults
    BY <1>2 DEF XADD, NoFault
  <2>2. Loose' \subseteq Loose \ {e}
    BY <1>1, <1>2, <2>1 DEF Loose
  <2> QED BY <1>0, <2>1, <2>2, CountSent
<1>3. CASE outcome = "error" /\ UNCHANGED stream
  <2>1. Loose' \subseteq Loose /\ Loose' \subseteq Loose \cup {e}
    BY <1>3 DEF Loose
  <2>2. faults' = faults \/ faults' = faults + 1
    BY DEF XADD, Fault, NoFault
  <2> QED BY <1>3, <2>1, <2>2, CountQuiet DEF Count
<1>4. CASE outcome = "error" /\ stream' = Append(stream, e) /\ stream' # stream
  <2>1. faults' = faults + 1
    BY <1>4 DEF XADD, Fault
  <2>2. Loose' \subseteq Loose \cup {e}
    BY <1>1, <1>4 DEF Loose
  <2> QED BY <1>0, <1>4, <2>1, <2>2, CountSentLost
<1> QED BY <1>2, <1>3, <1>4 DEF XADD

\* A row is marked: the event is confirmed, or a fault has left it loose.
LEMMA MarkCount ==
    ASSUME Shape, Shape', Count, NEW e \in Events, NEW outcome \in {"ok", "error"},
           WriteRow(MarkedPublished(e), outcome), UNCHANGED stream,
           Marking = {e}, Marking' = {}
    PROVE  Count'
<1>0. Elements(stream) \subseteq Events
  BY DEF Elements, Shape
<1>1. CASE outcome = "ok"
  <2>1. outbox' = MarkedPublished(e) /\ faults' = faults
    BY <1>1 DEF WriteRow, NoFault
  <2>2. \A f \in Events : f # e => outbox'[f] = outbox[f]
    BY <2>1 DEF MarkedPublished, Shape
  <2>3. outbox'[e] = "published"
    BY <2>1 DEF MarkedPublished, Shape
  <2>4. Loose' \subseteq Loose
    BY <1>0, <2>2, <2>3 DEF Loose
  <2> QED BY <2>1, <2>4, CountQuiet DEF Count
<1>2. CASE outcome = "error"
  <2>1. outbox' \in {outbox, MarkedPublished(e)} /\ faults' = faults + 1
    BY <1>2 DEF WriteRow, Fault
  <2>2. \A f \in Events : f # e => outbox'[f] = outbox[f]
    BY <2>1 DEF MarkedPublished, Shape
  <2>3. Loose' \subseteq Loose \cup {e}
    BY <1>0, <2>2 DEF Loose
  <2> QED BY <2>1, <2>3, CountFault
<1> QED BY <1>1, <1>2

\* A failure recorded in a row leaves nothing loose that was not.
LEMMA MarkFailedCount ==
    ASSUME Shape, Shape', Count, NEW e \in Events, NEW outcome \in {"ok", "error"},
           WriteRow(MarkedFailed(e), outcome), UNCHANGED stream,
           Marking = {}, Marking' = {}
    PROVE  Count'
<1>0. Elements(stream) \subseteq Events
  BY DEF Elements, Shape
<1>1. outbox' \in {outbox, MarkedFailed(e)} /\ (faults' = faults \/ faults' = faults + 1)
  BY DEF WriteRow, Fault, NoFault
<1>2. \A f \in Events : outbox'[f] = "published" <=> outbox[f] = "published"
  BY <1>1 DEF MarkedFailed, Shape
<1>3. Loose' \subseteq Loose
  BY <1>0, <1>2 DEF Loose
<1> QED BY <1>1, <1>3, CountQuiet DEF Count

-----------------------------------------------------------------------------
(* Under the lock *)

\* While a publisher acts under the lock, nobody else does.
LEMMA PublisherAlone ==
    ASSUME LogInv, LockInv, NEW p \in Publishers, Holding(task[p]) \/ holder = "nobody"
    PROVE  /\ \A q \in Publishers : q # p => ~Holding(task[q])
           /\ drain.step = "idle" /\ batch = {}
           /\ Marking = IF task[p].step = "mark" THEN {task[p].event} ELSE {}
<1>1. holder = p \/ holder = "nobody"
  BY DEF LockInv
<1>2. \A q \in Publishers : q # p => ~Holding(task[q])
  BY <1>1, EventLogAssumption DEF LockInv
<1>3. drain.step = "idle" /\ batch = {}
  BY <1>1, EventLogAssumption DEF LockInv
<1>4. task[p].step = "mark" => task[p].event \in Events
  BY DEF LogInv, Entitled
<1> QED BY <1>2, <1>3, <1>4 DEF Marking, Holding

\* What such a step owes the others: the lock while it goes on, and a row
\* that is not confirmed before it sends.
LEMMA PublisherLock ==
    ASSUME LogInv, LogInv', LockInv, NEW p \in Publishers,
           Holding(task[p]) \/ holder = "nobody",
           \A q \in Publishers : q # p => task'[q] = task[q], UNCHANGED <<drain, batch>>,
           Holding(task'[p]) => holder' = p,
           task'[p].step = "broker" => outbox'[task'[p].event] # "published",
           \A f \in Events : outbox'[f] = "published" => f \in Elements(journal')
    PROVE  LockInv' /\ Marking' = IF task'[p].step = "mark" THEN {task'[p].event} ELSE {}
<1>1. /\ \A q \in Publishers : q # p => ~Holding(task'[q])
      /\ drain'.step = "idle" /\ batch' = {}
  BY PublisherAlone
<1>2. task'[p].step = "mark" => task'[p].event \in Events
  BY DEF LogInv, Entitled
<1>3. Marking' = IF task'[p].step = "mark" THEN {task'[p].event} ELSE {}
  BY <1>1, <1>2 DEF Marking, Holding
<1>4. LockInv'
  BY <1>1 DEF LockInv, Holding
<1> QED BY <1>3, <1>4

\* The same for the dispatcher.
LEMMA DispatcherAlone ==
    ASSUME LogInv, LockInv, drain.step # "idle" \/ holder = "nobody"
    PROVE  /\ \A q \in Publishers : ~Holding(task[q])
           /\ Marking = IF drain.step = "mark" THEN {drain.event} ELSE {}
<1>1. \A q \in Publishers : ~Holding(task[q])
  BY EventLogAssumption DEF LockInv
<1>2. drain.step = "mark" => drain.event \in Events
  BY DispatcherHolds
<1> QED BY <1>1, <1>2 DEF Marking, Holding

\* See PublisherLock.
LEMMA DispatcherLock ==
    ASSUME LogInv, LogInv', LockInv, drain.step # "idle" \/ holder = "nobody",
           UNCHANGED <<task, journal>>,
           drain'.step # "idle" \/ batch' # {} => holder' = "dispatcher",
           drain'.step = "broker" => outbox'[drain'.event] # "published",
           drain'.step # "idle" => drain'.event \notin batch',
           \A f \in batch' : outbox'[f] # "published",
           \A f \in Events : outbox'[f] = "published" => f \in Elements(journal)
    PROVE  LockInv' /\ Marking' = IF drain'.step = "mark" THEN {drain'.event} ELSE {}
<1>1. \A q \in Publishers : ~Holding(task'[q])
  BY DispatcherAlone
<1>2. drain'.step = "mark" => drain'.event \in Events
  BY DEF LogInv, Entitled
<1>3. Marking' = IF drain'.step = "mark" THEN {drain'.event} ELSE {}
  BY <1>1, <1>2 DEF Marking, Holding
<1>4. LockInv'
  BY <1>1 DEF LockInv, Holding
<1> QED BY <1>3, <1>4

\* A publisher's step outside the lock.
LEMMA OutsideLock ==
    ASSUME LogInv, LogInv', LockInv, Count, NEW p \in Publishers,
           ~Holding(task[p]), ~Holding(task'[p]),
           \A q \in Publishers : q # p => task'[q] = task[q],
           UNCHANGED <<outbox, stream, holder, drain, batch>>,
           Elements(journal) \subseteq Elements(journal'), faults' \in Nat, faults' >= faults
    PROVE  LockInv' /\ Count'
<1>1. LockInv'
  BY DEF LockInv, Holding
<1>2. Marking' = Marking
  BY DEF Marking, Holding
<1>3. Loose' \subseteq Loose
  BY <1>2 DEF Loose
<1> QED BY <1>1, <1>3, CountQuiet DEF LogInv

\* No lock is needed for publish to start, nor for the handlers.
LEMMA UnlockedSteps ==
    ASSUME LogInv, LogInv', LockInv, Count, NEW p \in Publishers,
           \/ \E e \in Events : PublishCall(p, e)
           \/ DeliverStep(p) \/ JournalFails(p)
    PROVE  LockInv' /\ Count'
<1>0. task \in [Publishers -> TaskRecord] /\ journal \in Seq(Events) /\ faults \in Nat
  BY DEF LogInv, Shape, Count
<1>1. ASSUME NEW e \in Events, PublishCall(p, e) PROVE LockInv' /\ Count'
  <2>1. task[p].step = "idle" /\ task'[p].step = "lock" /\ \A q \in Publishers : q # p => task'[q] = task[q]
    BY <1>0, <1>1 DEF PublishCall
  <2>2. UNCHANGED <<journal, outbox, stream, holder, drain, batch, faults>>
    BY <1>1 DEF PublishCall, durable
  <2> QED BY <1>0, <2>1, <2>2, OutsideLock DEF Holding
<1>2. CASE DeliverStep(p)
  <2>1. task[p].step = "deliver" /\ task'[p].step = "idle" /\ \A q \in Publishers : q # p => task'[q] = task[q]
    BY <1>0, <1>2, ReturnFacts DEF DeliverStep
  <2>2. UNCHANGED <<journal, outbox, stream, holder, drain, batch, faults>>
    BY <1>2 DEF DeliverStep, durable
  <2> QED BY <1>0, <2>1, <2>2, OutsideLock DEF Holding
<1>3. CASE JournalFails(p)
  <2>1. task[p].step = "lock" /\ task'[p].step = "idle" /\ \A q \in Publishers : q # p => task'[q] = task[q]
    BY <1>0, <1>3, ReturnFacts DEF JournalFails
  <2>2. UNCHANGED <<outbox, stream, holder, drain, batch>> /\ faults' = faults + 1
    BY <1>3 DEF JournalFails, Fault
  <2>3. Elements(journal) \subseteq Elements(journal')
    BY <1>0, <1>3, TaskEvent, JournaledElements DEF JournalFails
  <2> QED BY <1>0, <2>1, <2>2, <2>3, OutsideLock DEF Holding
<1> QED BY <1>1, <1>2, <1>3

\* save_bus_message: whoever goes on has read that the broker has not confirmed
\* the event.
LEMMA JournalStepLock ==
    ASSUME LogInv, LogInv', LockInv, Count, NEW p \in Publishers, JournalStep(p)
    PROVE  LockInv' /\ Count'
<1> DEFINE e == task[p].event
<1>0. /\ task \in [Publishers -> TaskRecord] /\ journal \in Seq(Events) /\ faults \in Nat
      /\ e \in Events /\ task[p].step = "lock" /\ holder = "nobody" /\ faults' = faults
      /\ UNCHANGED <<outbox, stream, drain, batch>>
  BY TaskEvent DEF JournalStep, NoFault, LogInv, Shape, Count
<1>1. Elements(journal) \subseteq Elements(journal')
  BY <1>0, JournaledElements DEF JournalStep
<1>2. ASSUME holder' = p, Goto(p, "broker"), outbox[e] # "published" PROVE LockInv' /\ Count'
  <2>1. /\ task'[p].step = "broker" /\ task'[p].event = e
        /\ \A q \in Publishers : q # p => task'[q] = task[q]
    BY <1>0, <1>2, GotoFacts, "broker" \in TaskSteps DEF TaskSteps
  <2>2. \A f \in Events : outbox'[f] = "published" => f \in Elements(journal')
    BY <1>0, <1>1 DEF LockInv
  <2>3. LockInv' /\ Marking' = {}
    BY <1>0, <1>2, <2>1, <2>2, PublisherLock
  <2>4. Marking = {}
    BY <1>0, PublisherAlone
  <2>5. Loose' \subseteq Loose
    BY <1>0, <2>3, <2>4 DEF Loose
  <2> QED BY <1>0, <2>3, <2>5, CountQuiet DEF LogInv
<1>3. ASSUME UNCHANGED holder, Return(p) PROVE LockInv' /\ Count'
  <2>1. task'[p].step = "idle" /\ \A q \in Publishers : q # p => task'[q] = task[q]
    BY <1>0, <1>3, ReturnFacts
  <2> QED BY <1>0, <1>1, <1>3, <2>1, OutsideLock DEF Holding
<1>4. e \notin Elements(journal) => outbox[e] # "published"
  BY <1>0 DEF LockInv
<1> QED BY <1>2, <1>3, <1>4 DEF JournalStep

\* XADD by a publisher.
LEMMA BrokerStepLock ==
    ASSUME LogInv, LogInv', LockInv, Count, NEW p \in Publishers, BrokerStep(p)
    PROVE  LockInv' /\ Count'
<1> DEFINE e == task[p].event
<1>0. /\ task \in [Publishers -> TaskRecord] /\ e \in Events /\ task[p].step = "broker"
      /\ outbox[e] # "published" /\ Holding(task[p]) /\ holder = p
      /\ UNCHANGED <<journal, outbox, holder, drain, batch>>
  BY TaskEvent DEF BrokerStep, LogInv, Shape, LockInv, Holding
<1>1. PICK outcome \in {"ok", "error"} :
          XADD(e, outcome) /\ Goto(p, IF outcome = "ok" THEN "mark" ELSE "failed")
  BY DEF BrokerStep
<1> DEFINE s == IF outcome = "ok" THEN "mark" ELSE "failed"
<1>2. s \in TaskSteps /\ s # "broker" /\ (s = "mark" <=> outcome = "ok")
  BY DEF TaskSteps
<1> HIDE DEF s
<1>3. /\ task'[p].step = s /\ task'[p].event = e
      /\ \A q \in Publishers : q # p => task'[q] = task[q]
  BY <1>0, <1>1, <1>2, GotoFacts DEF s
<1>4. \A f \in Events : outbox'[f] = "published" => f \in Elements(journal')
  BY <1>0 DEF LockInv
<1>5. LockInv' /\ Marking' = IF outcome = "ok" THEN {e} ELSE {}
  BY <1>0, <1>2, <1>3, <1>4, PublisherLock
<1>6. Marking = {}
  BY <1>0, PublisherAlone
<1>7. Count'
  BY <1>0, <1>1, <1>5, <1>6, BrokerCount DEF LogInv
<1> QED BY <1>5, <1>7

\* A row that a write may mark was journaled.
LEMMA MarkJournaled ==
    ASSUME LogInv, LockInv, NEW e \in Elements(journal), e \in Events, NEW outcome,
           WriteRow(MarkedPublished(e), outcome) \/ WriteRow(MarkedFailed(e), outcome)
    PROVE  /\ \A f \in Events : outbox'[f] = "published" => f \in Elements(journal)
           /\ \A f \in Events : f # e /\ outbox[f] # "published" => outbox'[f] # "published"
<1>1. outbox' = outbox \/ outbox' = MarkedPublished(e) \/ outbox' = MarkedFailed(e)
  BY DEF WriteRow
<1>2. outbox \in [Events -> OutboxStates]
  BY DEF LogInv, Shape
<1>3. \A f \in Events : f # e => (outbox'[f] = "published" <=> outbox[f] = "published")
  BY <1>1, <1>2 DEF MarkedPublished, MarkedFailed
<1> QED BY <1>3 DEF LockInv

\* mark_published by a publisher.
LEMMA MarkStepLock ==
    ASSUME LogInv, LogInv', LockInv, Count, NEW p \in Publishers, MarkStep(p)
    PROVE  LockInv' /\ Count'
<1> DEFINE e == task[p].event
<1>0. /\ task \in [Publishers -> TaskRecord] /\ e \in Events /\ task[p].step = "mark"
      /\ e \in Elements(journal) /\ Holding(task[p]) /\ holder = p
      /\ UNCHANGED <<journal, stream, drain, batch>>
  BY TaskEvent DEF MarkStep, LogInv, Shape, LockInv, Holding, Entitled
<1>1. PICK outcome \in {"ok", "error"} :
          /\ WriteRow(MarkedPublished(e), outcome)
          /\ Goto(p, "deliver") \/ (Goto(p, "failed") /\ UNCHANGED holder)
  BY DEF MarkStep
<1>2. /\ task'[p].step = "deliver" \/ (task'[p].step = "failed" /\ holder' = p)
      /\ \A q \in Publishers : q # p => task'[q] = task[q]
  BY <1>0, <1>1, GotoFacts, {"deliver", "failed"} \subseteq TaskSteps DEF TaskSteps
<1>3. \A f \in Events : outbox'[f] = "published" => f \in Elements(journal')
  BY <1>0, <1>1, MarkJournaled
<1>4. LockInv' /\ Marking' = {}
  BY <1>0, <1>2, <1>3, PublisherLock DEF Holding
<1>5. Marking = {e}
  BY <1>0, PublisherAlone
<1>6. Count'
  BY <1>0, <1>1, <1>4, <1>5, MarkCount DEF LogInv
<1> QED BY <1>4, <1>6

\* mark_failed by a publisher.
LEMMA MarkFailedStepLock ==
    ASSUME LogInv, LogInv', LockInv, Count, NEW p \in Publishers, MarkFailedStep(p)
    PROVE  LockInv' /\ Count'
<1> DEFINE e == task[p].event
<1>0. /\ task \in [Publishers -> TaskRecord] /\ e \in Events /\ task[p].step = "failed"
      /\ e \in Elements(journal) /\ Holding(task[p]) /\ holder = p
      /\ UNCHANGED <<journal, stream, drain, batch>>
  BY TaskEvent DEF MarkFailedStep, LogInv, Shape, LockInv, Holding, Entitled
<1>1. PICK outcome \in {"ok", "error"} : WriteRow(MarkedFailed(e), outcome)
  BY DEF MarkFailedStep
<1>2. Return(p) \/ Goto(p, "deliver")
  BY Zenon DEF MarkFailedStep
<1>3. /\ task'[p].step \in {"idle", "deliver"}
      /\ \A q \in Publishers : q # p => task'[q] = task[q]
  BY <1>0, <1>2, ReturnFacts, GotoFacts, "deliver" \in TaskSteps DEF TaskSteps
<1>4. \A f \in Events : outbox'[f] = "published" => f \in Elements(journal')
  BY <1>0, <1>1, MarkJournaled
<1>5. LockInv' /\ Marking' = {}
  BY <1>0, <1>3, <1>4, PublisherLock DEF Holding
<1>6. Marking = {}
  BY <1>0, PublisherAlone
<1>7. Count'
  BY <1>0, <1>1, <1>5, <1>6, MarkFailedCount DEF LogInv
<1> QED BY <1>5, <1>7

\* The dispatcher takes the next of some messages nobody has confirmed.
LEMMA DrainNextLock ==
    ASSUME LogInv, LogInv', LockInv, NEW messages, messages \subseteq Events,
           DrainNext(messages), drain.step # "idle" \/ holder = "nobody",
           UNCHANGED <<task, journal>>,
           \A f \in messages : outbox'[f] # "published",
           \A f \in Events : outbox'[f] = "published" => f \in Elements(journal)
    PROVE  LockInv' /\ Marking' = {}
<1>1. CASE messages = {} /\ batch' = {} /\ drain' = IdleTask
  BY <1>1, IdleTaskRecord, DispatcherLock
<1>2. ASSUME NEW e \in messages, drain' = [step |-> "broker", event |-> e],
             batch' = messages \ {e}, holder' = "dispatcher"
      PROVE  LockInv' /\ Marking' = {}
  <2>1. drain'.step = "broker" /\ drain'.event = e
    BY <1>2
  <2> QED BY <1>2, <2>1, DispatcherLock
<1> QED BY <1>1, <1>2 DEF DrainNext, Earliest

\* drain_once lists pending messages under the lock.
LEMMA DrainStartLock ==
    ASSUME LogInv, LogInv', LockInv, Count, DrainStart
    PROVE  LockInv' /\ Count'
<1>1. /\ PendingMessages \subseteq Events
      /\ \A f \in PendingMessages : outbox[f] # "published"
  BY DispatcherHolds DEF PendingMessages, FirstOf
<1>2. /\ drain.step = "idle" /\ holder = "nobody" /\ UNCHANGED <<journal, outbox, stream, task, faults>>
  BY IdleTaskRecord DEF DrainStart, durable
<1>3. \A f \in Events : outbox[f] = "published" => f \in Elements(journal)
  BY DEF LockInv
<1>4. LockInv' /\ Marking' = {}
  BY <1>1, <1>2, <1>3, DrainNextLock DEF DrainStart
<1>5. Marking = {}
  BY <1>2, DispatcherAlone
<1>6. Loose' \subseteq Loose
  BY <1>2, <1>4, <1>5 DEF Loose
<1> QED BY <1>2, <1>4, <1>6, CountQuiet DEF Count, LogInv

\* What the dispatcher knows in the middle of its loop.
LEMMA DrainLocked ==
    ASSUME LogInv, LockInv, drain.step # "idle"
    PROVE  /\ drain.event \in Events /\ drain.event \in Elements(journal)
           /\ holder = "dispatcher" /\ batch \subseteq Events
           /\ drain.event \notin batch /\ \A f \in batch : outbox[f] # "published"
BY DispatcherHolds DEF LockInv

\* XADD by the dispatcher.
LEMMA DrainBrokerLock ==
    ASSUME LogInv, LogInv', LockInv, Count, DrainBroker
    PROVE  LockInv' /\ Count'
<1> DEFINE e == drain.event
<1>0. /\ drain \in TaskRecord /\ drain.step = "broker" /\ outbox[e] # "published"
      /\ UNCHANGED <<journal, outbox, holder, task, batch>>
  BY DEF DrainBroker, LogInv, Shape, LockInv
<1>1. /\ e \in Events /\ holder = "dispatcher"
      /\ e \notin batch /\ \A f \in batch : outbox[f] # "published"
  BY <1>0, DrainLocked
<1>2. PICK outcome \in {"ok", "error"} :
          XADD(e, outcome) /\ DrainGoto(IF outcome = "ok" THEN "mark" ELSE "failed")
  BY DEF DrainBroker
<1> DEFINE s == IF outcome = "ok" THEN "mark" ELSE "failed"
<1>3. s \in TaskSteps /\ s # "broker" /\ (s = "mark" <=> outcome = "ok")
  BY DEF TaskSteps
<1> HIDE DEF s
<1>4. drain'.step = s /\ drain'.event = e
  BY <1>0, <1>2, <1>3, DrainGotoFacts DEF s
<1>5. \A f \in Events : outbox'[f] = "published" => f \in Elements(journal)
  BY <1>0 DEF LockInv
<1>6. LockInv' /\ Marking' = IF outcome = "ok" THEN {e} ELSE {}
  BY <1>0, <1>1, <1>3, <1>4, <1>5, DispatcherLock
<1>7. Marking = {}
  BY <1>0, DispatcherAlone
<1>8. Count'
  BY <1>0, <1>1, <1>2, <1>6, <1>7, BrokerCount DEF LogInv
<1> QED BY <1>6, <1>8

\* mark_published by the dispatcher.
LEMMA DrainMarkLock ==
    ASSUME LogInv, LogInv', LockInv, Count, DrainMark
    PROVE  LockInv' /\ Count'
<1> DEFINE e == drain.event
<1>0. drain \in TaskRecord /\ drain.step = "mark" /\ UNCHANGED <<journal, stream, task>>
  BY DEF DrainMark, LogInv, Shape
<1>1. /\ e \in Events /\ e \in Elements(journal) /\ holder = "dispatcher"
      /\ batch \subseteq Events /\ e \notin batch /\ \A f \in batch : outbox[f] # "published"
  BY <1>0, DrainLocked
<1>2. PICK outcome \in {"ok", "error"} :
          /\ WriteRow(MarkedPublished(e), outcome)
          /\ DrainNext(batch) \/ (DrainGoto("failed") /\ UNCHANGED <<batch, holder>>)
  BY DEF DrainMark
<1>3. /\ \A f \in Events : outbox'[f] = "published" => f \in Elements(journal)
      /\ \A f \in batch : outbox'[f] # "published"
  BY <1>1, <1>2, MarkJournaled
<1>4. ASSUME DrainGoto("failed"), UNCHANGED <<batch, holder>> PROVE LockInv' /\ Marking' = {}
  <2>1. drain'.step = "failed" /\ drain'.event = e
    BY <1>0, <1>4, DrainGotoFacts, "failed" \in TaskSteps DEF TaskSteps
  <2> QED BY <1>0, <1>1, <1>3, <1>4, <2>1, DispatcherLock
<1>5. ASSUME DrainNext(batch) PROVE LockInv' /\ Marking' = {}
  BY <1>0, <1>1, <1>3, <1>5, DrainNextLock
<1>6. LockInv' /\ Marking' = {}
  BY <1>2, <1>4, <1>5
<1>7. Marking = {e}
  BY <1>0, DispatcherAlone
<1>8. Count'
  BY <1>0, <1>1, <1>2, <1>6, <1>7, MarkCount DEF LogInv
<1> QED BY <1>6, <1>8

\* mark_failed by the dispatcher.
LEMMA DrainFailedLock ==
    ASSUME LogInv, LogInv', LockInv, Count, DrainFailed
    PROVE  LockInv' /\ Count'
<1> DEFINE e == drain.event
<1>0. drain.step = "failed" /\ UNCHANGED <<journal, stream, task>>
  BY DEF DrainFailed
<1>1. /\ e \in Events /\ e \in Elements(journal)
      /\ batch \subseteq Events /\ e \notin batch /\ \A f \in batch : outbox[f] # "published"
  BY <1>0, DrainLocked
<1>2. PICK outcome \in {"ok", "error"} :
          WriteRow(MarkedFailed(e), outcome) /\ (DrainNext(batch) \/ DrainNext({}))
  BY DEF DrainFailed
<1>3. /\ \A f \in Events : outbox'[f] = "published" => f \in Elements(journal)
      /\ \A f \in batch : outbox'[f] # "published"
  BY <1>1, <1>2, MarkJournaled
<1>4. LockInv' /\ Marking' = {}
  BY <1>0, <1>1, <1>2, <1>3, DrainNextLock
<1>5. Marking = {}
  BY <1>0, DispatcherAlone
<1>6. Count'
  BY <1>0, <1>1, <1>2, <1>4, <1>5, MarkFailedCount DEF LogInv
<1> QED BY <1>4, <1>6

\* A crash leaves loose what the one task under the lock was about to mark.
LEMMA CrashLock ==
    ASSUME LogInv, LogInv', LockInv, Count, EventLogCrash
    PROVE  LockInv' /\ Count'
<1>1. /\ \A p \in Publishers : task'[p].step = "idle"
      /\ drain'.step = "idle" /\ batch' = {} /\ UNCHANGED <<journal, outbox, stream>>
      /\ faults' = faults + 1
  BY IdleTaskRecord DEF EventLogCrash, durable, Fault
<1>2. LockInv'
  BY <1>1 DEF LockInv, Holding
<1>3. PICK e : Marking \subseteq {e}
  <2>1. CASE drain.step = "mark"
    BY <2>1, DispatcherAlone
  <2>2. ASSUME NEW p \in Publishers, task[p].step = "mark" PROVE \E e : Marking \subseteq {e}
    BY <2>2, PublisherAlone DEF Holding
  <2>3. CASE drain.step # "mark" /\ \A p \in Publishers : task[p].step # "mark"
    BY <2>3 DEF Marking
  <2> QED BY <2>1, <2>2, <2>3
<1>4. Loose' \subseteq Loose \cup {e}
  BY <1>1, <1>3 DEF Loose
<1> QED BY <1>1, <1>2, <1>4, CountFault DEF LogInv

-----------------------------------------------------------------------------
\* Nothing was sent and nothing has failed.
LEMMA LockStart == ASSUME EventLogInit PROVE LockInv /\ Count
<1> USE DEF EventLogInit
<1>1. Elements(stream) = {} /\ Len(stream) = 0
  BY DEF Elements
<1>2. Loose = {}
  BY <1>1 DEF Loose
<1>3. Cardinality(Loose) = 0 /\ Cardinality(Elements(stream)) = 0 /\ faults = 0
  BY <1>1, <1>2, FS_EmptySet
<1>4. LockInv
  BY IdleTaskRecord DEF LockInv, Holding
<1>5. Count
  BY <1>1, <1>3 DEF Count
<1> QED BY <1>4, <1>5

\* Every step keeps the lock and the count.
LEMMA LockSteps ==
    ASSUME LogInv, LogInv', LockInv, Count, [EventLogNext]_eventLogVars
    PROVE  LockInv' /\ Count'
<1>1. CASE UNCHANGED eventLogVars
  BY <1>1 DEF eventLogVars, LockInv, Count, Holding, Loose, Marking, Elements
<1>2. CASE EventLogNext
  BY <1>2, UnlockedSteps, JournalStepLock, BrokerStepLock, MarkStepLock, MarkFailedStepLock,
     DrainStartLock, DrainBrokerLock, DrainMarkLock, DrainFailedLock, CrashLock
     DEF EventLogNext, PublisherStep, DrainStep
<1> QED BY <1>1, <1>2

\* The broker gets an event a second time only after a call has failed or the
\* process has crashed (EventBus.publish and OutboxDispatcher under
\* publication_lock): there are no more repetitions than faults.
THEOREM DuplicatesAreFaults == EventLogSpec => []DuplicatesNeedAFault
<1>1. EventLogInit => LogInv /\ LockInv /\ Count
  BY LogStart, LockStart
<1>2. LogInv /\ LockInv /\ Count /\ [EventLogNext]_eventLogVars => (LogInv /\ LockInv /\ Count)'
  BY LogSteps, LockSteps
<1>3. LogInv /\ Count => DuplicatesNeedAFault
  BY FiniteSets DEF LogInv, Count, DuplicatesNeedAFault
<1> QED BY <1>1, <1>2, <1>3, PTL DEF EventLogSpec
=============================================================================
