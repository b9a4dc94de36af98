------------------------- MODULE EventTrackerSlices -------------------------
(***************************************************************************)
(* The event tracker with its slices: the order of the queues, duplicates  *)
(* in them, and the re-queue of a failed session one element at a time     *)
(* while other goroutines append.  It is checked to implement              *)
(* EventTracker, where queues are sets and a re-queue is one step.         *)
(*                                                                         *)
(* One goroutine at a time is in RunSession, whose calls come in its order; *)
(* the other methods are called at any moment.                             *)
(***************************************************************************)
EXTENDS Naturals, Sequences, SequencesExt, Triggers

CONSTANTS Keys, NoKey, Paths,
          Triggered,    \* the triggers sessions are started with
          MaxEvents,    \* no event is queued behind this many
          MaxRecords    \* no record is queued with this many undelivered

ASSUME SlicesAssumption ==
    NoKey \notin Keys /\ Triggered \subseteq Trigger /\ MaxEvents \in Nat /\ MaxRecords \in Nat

VARIABLES
    bootstrapDone, bootstrapPending,
    pendingEvents, pendingValueChanges, pendingTransferCompletes,
    pendingDUStateCompletes,
    events, transferCompletes, duStateCompletes, valueChangeList,
    lead,           \* the trigger events was drawn for
    step,           \* the call RunSession makes next
    requeue         \* what requeueUndelivered has still to put back

queues == <<pendingEvents, pendingValueChanges, pendingTransferCompletes,
            pendingDUStateCompletes>>
bootstrap == <<bootstrapDone, bootstrapPending>>
drawn == <<events, transferCompletes, duStateCompletes, valueChangeList, lead>>
slicesVars == <<queues, bootstrap, drawn, step, requeue>>

NothingToRequeue == [events |-> <<>>, transfers |-> <<>>, dustates |-> <<>>]

\* What the abstract tracker has put back already.
PutBack(s) == {e \in ToSet(s) : e.code \notin NotRequeued}
T == INSTANCE EventTracker WITH
       pendingEvents            <- ToSet(pendingEvents) \cup PutBack(requeue.events),
       pendingValueChanges      <- ToSet(pendingValueChanges),
       pendingTransferCompletes <- ToSet(pendingTransferCompletes \o requeue.transfers),
       pendingDUStateCompletes  <- ToSet(pendingDUStateCompletes \o requeue.dustates),
       events                   <- ToSet(events),
       transferCompletes        <- ToSet(transferCompletes),
       duStateCompletes         <- ToSet(duStateCompletes),
       valueChangeList          <- ToSet(valueChangeList)

-----------------------------------------------------------------------------
\* dedupeEvents keeps the first occurrence of each (EventCode, CommandKey).
\* KeptOf(s)[n] is what its loop has kept of the first n.
Keep(kept, e) == IF e \in ToSet(kept) THEN kept ELSE Append(kept, e)
KeptOf(s) ==
    LET kept[n \in 0..Len(s)] == IF n = 0 THEN <<>> ELSE Keep(kept[n - 1], s[n])
    IN  kept
dedupeEvents(s) == KeptOf(s)[Len(s)]

Primary(t) == SetToSeq(T!PrimaryEvents(t))

\* Fault: BOOTSTRAP is put before the trigger's event.
NextSessionEventsBootstrapFirst(t) ==
    LET latch == IF bootstrapDone THEN <<>> ELSE <<T!Plain("0 BOOTSTRAP")>>
        transfer == IF pendingTransferCompletes = <<>> THEN <<>>
                    ELSE <<T!Plain("7 TRANSFER COMPLETE")>>
    IN  /\ step = "events" /\ step' = "transfers"
        /\ events' = dedupeEvents(latch \o Primary(t) \o pendingEvents \o transfer)
        /\ lead' = t
        /\ pendingEvents' = <<>>
        /\ bootstrapPending' = (bootstrapPending \/ ~bootstrapDone)
        /\ UNCHANGED <<bootstrapDone, pendingValueChanges,
                       pendingTransferCompletes, pendingDUStateCompletes,
                       transferCompletes, duStateCompletes, valueChangeList,
                       requeue>>

NextSessionEvents(t) ==
    LET latch == IF bootstrapDone THEN <<>> ELSE <<T!Plain("0 BOOTSTRAP")>>
        queued == IF t = "Retry" THEN pendingEvents \o latch
                                 ELSE Primary(t) \o latch \o pendingEvents
        transfer == IF pendingTransferCompletes = <<>> THEN <<>>
                    ELSE <<T!Plain("7 TRANSFER COMPLETE")>>
    IN  /\ step = "events" /\ step' = "transfers"
        /\ events' = dedupeEvents(queued \o transfer)
        /\ lead' = t
        /\ pendingEvents' = <<>>
        /\ bootstrapPending' = (bootstrapPending \/ ~bootstrapDone)
        /\ UNCHANGED <<bootstrapDone, pendingValueChanges,
                       pendingTransferCompletes, pendingDUStateCompletes,
                       transferCompletes, duStateCompletes, valueChangeList,
                       requeue>>

DrainTransferCompletes ==
    /\ step = "transfers" /\ step' = "dustates"
    /\ transferCompletes' = pendingTransferCompletes
    /\ pendingTransferCompletes' = <<>>
    /\ UNCHANGED <<bootstrap, pendingEvents, pendingValueChanges,
                   pendingDUStateCompletes, events, duStateCompletes,
                   valueChangeList, lead, requeue>>

DrainDUStateChangeCompletes ==
    /\ step = "dustates" /\ step' = "lists"
    /\ duStateCompletes' = pendingDUStateCompletes
    /\ pendingDUStateCompletes' = <<>>
    /\ UNCHANGED <<bootstrap, pendingEvents, pendingValueChanges,
                   pendingTransferCompletes, events, transferCompletes,
                   valueChangeList, lead, requeue>>

SessionParameterLists ==
    /\ step = "lists" /\ step' = "run"
    /\ valueChangeList' = pendingValueChanges
    /\ UNCHANGED <<queues, bootstrap, events, transferCompletes,
                   duStateCompletes, lead, requeue>>

\* Fault: what was queued while the session ran is cleared with what it carried.
AcknowledgeClearsQueue ==
    /\ step = "run" /\ step' = "events"
    /\ pendingValueChanges' = <<>> /\ pendingEvents' = <<>>
    /\ bootstrapDone' = (bootstrapDone \/ bootstrapPending)
    /\ bootstrapPending' = FALSE
    /\ UNCHANGED <<pendingTransferCompletes, pendingDUStateCompletes, drawn, requeue>>

Acknowledge ==
    /\ step = "run" /\ step' = "events"
    /\ pendingValueChanges' = <<>>
    /\ bootstrapDone' = (bootstrapDone \/ bootstrapPending)
    /\ bootstrapPending' = FALSE
    /\ UNCHANGED <<pendingEvents, pendingTransferCompletes,
                   pendingDUStateCompletes, drawn, requeue>>

-----------------------------------------------------------------------------
\* requeueUndelivered, requeueTransferCompletes and requeueDUStateCompletes:
\* entered here, and then one element at a time in that order.
RequeueBegins ==
    /\ step = "run" /\ step' = "requeue"
    /\ requeue' = [events |-> events, transfers |-> transferCompletes,
                   dustates |-> duStateCompletes]
    /\ UNCHANGED <<queues, bootstrap, drawn>>

\* requeueUndelivered: the next event of the array, put back or passed over.
RequeueEvent ==
    /\ requeue.events # <<>>
    /\ pendingEvents' = IF Head(requeue.events).code \in NotRequeued
                        THEN pendingEvents
                        ELSE Append(pendingEvents, Head(requeue.events))
    /\ requeue' = [requeue EXCEPT !.events = Tail(@)]
    /\ UNCHANGED <<bootstrap, pendingValueChanges, pendingTransferCompletes,
                   pendingDUStateCompletes, drawn, step>>

RequeueTransferComplete ==
    /\ requeue.events = <<>> /\ requeue.transfers # <<>>
    /\ pendingTransferCompletes' =
          Append(pendingTransferCompletes, Head(requeue.transfers))
    /\ requeue' = [requeue EXCEPT !.transfers = Tail(@)]
    /\ UNCHANGED <<bootstrap, pendingEvents, pendingValueChanges,
                   pendingDUStateCompletes, drawn, step>>

RequeueDUStateComplete ==
    /\ requeue.events = <<>> /\ requeue.transfers = <<>> /\ requeue.dustates # <<>>
    /\ pendingDUStateCompletes' =
          Append(pendingDUStateCompletes, Head(requeue.dustates))
    /\ requeue' = [requeue EXCEPT !.dustates = Tail(@)]
    /\ UNCHANGED <<bootstrap, pendingEvents, pendingValueChanges,
                   pendingTransferCompletes, drawn, step>>

RequeueEnds ==
    /\ step = "requeue" /\ step' = "events"
    /\ requeue = NothingToRequeue
    /\ UNCHANGED <<queues, bootstrap, drawn, requeue>>

-----------------------------------------------------------------------------
\* queueMethod and QueuePeriodic
QueueEvent(e) ==
    /\ Len(pendingEvents) < MaxEvents
    /\ pendingEvents' = Append(pendingEvents, e)
    /\ UNCHANGED <<bootstrap, pendingValueChanges, pendingTransferCompletes,
                   pendingDUStateCompletes, drawn, step, requeue>>

RecordValueChange(p) ==
    /\ pendingValueChanges' = IF p \in ToSet(pendingValueChanges)
                              THEN pendingValueChanges
                              ELSE Append(pendingValueChanges, p)
    /\ UNCHANGED <<bootstrap, pendingEvents, pendingTransferCompletes,
                   pendingDUStateCompletes, drawn, step, requeue>>

\* The bound on records: queued, in the running session, or being put back.
Undelivered(queued, carried, returning) ==
    Len(queued) + Len(returning)
      + (IF step \in {"dustates", "lists", "run"} THEN Len(carried) ELSE 0) < MaxRecords

QueueTransferComplete(k) ==
    /\ Undelivered(pendingTransferCompletes, transferCompletes, requeue.transfers)
    /\ pendingTransferCompletes' = Append(pendingTransferCompletes, k)
    /\ UNCHANGED <<bootstrap, pendingEvents, pendingValueChanges,
                   pendingDUStateCompletes, drawn, step, requeue>>

QueueDUStateChangeComplete(k) ==
    /\ Undelivered(pendingDUStateCompletes, duStateCompletes, requeue.dustates)
    /\ pendingDUStateCompletes' = Append(pendingDUStateCompletes, k)
    /\ UNCHANGED <<bootstrap, pendingEvents, pendingValueChanges,
                   pendingTransferCompletes, drawn, step, requeue>>

ResetBootstrap ==
    /\ bootstrapDone' = FALSE
    /\ bootstrapPending' = FALSE
    /\ UNCHANGED <<queues, drawn, step, requeue>>

-----------------------------------------------------------------------------
SlicesInit ==
    /\ bootstrapDone = FALSE /\ bootstrapPending = FALSE
    /\ pendingEvents = <<>> /\ pendingValueChanges = <<>>
    /\ pendingTransferCompletes = <<>> /\ pendingDUStateCompletes = <<>>
    /\ events = <<>> /\ transferCompletes = <<>>
    /\ duStateCompletes = <<>> /\ valueChangeList = <<>>
    /\ lead = NoTrigger /\ step = "events" /\ requeue = NothingToRequeue

SlicesNext ==
    \/ \E t \in Triggered : NextSessionEvents(t)
    \/ DrainTransferCompletes \/ DrainDUStateChangeCompletes
    \/ SessionParameterLists \/ Acknowledge \/ ResetBootstrap
    \/ RequeueBegins \/ RequeueEvent \/ RequeueTransferComplete
    \/ RequeueDUStateComplete \/ RequeueEnds
    \/ \E k \in Keys : \/ QueueEvent([code |-> "M Download", key |-> k])
                       \/ QueueTransferComplete(k) \/ QueueDUStateChangeComplete(k)
    \/ QueueEvent(T!Plain("2 PERIODIC"))
    \/ \E p \in Paths : RecordValueChange(p)

SlicesSpec == SlicesInit /\ [][SlicesNext]_slicesVars

-----------------------------------------------------------------------------
\* TR-069 A.3.3.1 and NextSessionEvents: however often an event was queued and
\* re-queued, the Event array of a session repeats no entry and is led by the
\* event of the trigger that started it (a retry has none of its own), and the
\* value-change list of its Inform names a path once.
EventArrayInOrder ==
    /\ \A i, j \in 1..Len(events) : events[i] = events[j] => i = j
    /\ lead \notin {NoTrigger, "Retry"} => events[1] \in T!PrimaryEvents(lead)
    /\ \A i, j \in 1..Len(valueChangeList) :
          valueChangeList[i] = valueChangeList[j] => i = j

\* The set-valued tracker is what the rest of the program sees of the slices.
RefinesTracker == T!TrackerSpec
=============================================================================
