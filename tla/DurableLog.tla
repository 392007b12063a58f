----------------------------- MODULE DurableLog -----------------------------
(***************************************************************************)
(* What the event journal with its outbox promises to a consumer of the    *)
(* broker and to the handlers of the process: an event is accepted once    *)
(* and for ever, only accepted events are sent or handled, and only sent   *)
(* events count as confirmed.  Sending or handling the same event again is *)
(* allowed (at-least-once) and is a stutter here.                          *)
(***************************************************************************)
CONSTANT LogEvents

VARIABLES accepted, sent, confirmed, handled

logVars == <<accepted, sent, confirmed, handled>>

LogInit == accepted = {} /\ sent = {} /\ confirmed = {} /\ handled = {}

Accept(e) ==
    /\ e \notin accepted
    /\ accepted' = accepted \cup {e}
    /\ UNCHANGED <<sent, confirmed, handled>>

Send(e) ==
    /\ e \in accepted
    /\ sent' = sent \cup {e}
    /\ UNCHANGED <<accepted, confirmed, handled>>

Confirm(e) ==
    /\ e \in sent
    /\ confirmed' = confirmed \cup {e}
    /\ UNCHANGED <<accepted, sent, handled>>

Handle(e) ==
    /\ e \in accepted
    /\ handled' = handled \cup {e}
    /\ UNCHANGED <<accepted, sent, confirmed>>

LogNext == \E e \in LogEvents : Accept(e) \/ Send(e) \/ Confirm(e) \/ Handle(e)

LogSpec == LogInit /\ [][LogNext]_logVars
=============================================================================
