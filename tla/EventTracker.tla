---------------------------- MODULE EventTracker ----------------------------
(***************************************************************************)
(* internal/cwmp/eventtracker.go: what a CPE still has to tell its ACS.    *)
(*                                                                         *)
(* Every method of EventTracker holds t.mu from entry to return, so each   *)
(* is one action here.  The order of a slice is abstracted away: the       *)
(* queue of events is read only by NextSessionEvents, which deduplicates,  *)
(* and the record queues are always drained whole, so what a session       *)
(* carries is a set.  EventTrackerSlices keeps the slices and is checked   *)
(* to implement this module.                                               *)
(*                                                                         *)
(* events, transferCompletes, duStateCompletes and valueChangeList are the *)
(* locals of RunSession that the draining methods return into.             *)
(***************************************************************************)
EXTENDS Naturals, Triggers

CONSTANTS
    Keys,       \* command keys of ACS requests: one per Reboot, Download, ...
    NoKey,      \* the empty CommandKey of events no RPC asked for
    Paths       \* parameters whose Notification attribute is not 0

ASSUME NoKeyAssumption == NoKey \notin Keys

VARIABLES
    bootstrapDone, bootstrapPending, pendingEvents, pendingValueChanges,
    pendingTransferCompletes, pendingDUStateCompletes,
    events, transferCompletes, duStateCompletes, valueChangeList

queueVars == <<pendingEvents, pendingValueChanges, pendingTransferCompletes,
               pendingDUStateCompletes>>
bootstrapVars == <<bootstrapDone, bootstrapPending>>
drawnVars == <<events, transferCompletes, duStateCompletes, valueChangeList>>
trackerVars == <<queueVars, bootstrapVars, drawnVars>>

-----------------------------------------------------------------------------
(* Events *)

MethodCode == {"M Reboot", "M Download", "M Upload", "M ChangeDUState"}

EventCode == {"0 BOOTSTRAP", "1 BOOT", "2 PERIODIC", "4 VALUE CHANGE",
              "6 CONNECTION REQUEST", "7 TRANSFER COMPLETE",
              "11 DU STATE CHANGE COMPLETE"} \cup MethodCode

Event == [code : EventCode, key : Keys \cup {NoKey}]

Plain(code) == [code |-> code, key |-> NoKey]

\* The event a trigger announces itself; a retry announces none.
PrimaryEvents(t) ==
    CASE t = "Startup"               -> {Plain("1 BOOT")}
      [] t = "Periodic"              -> {Plain("2 PERIODIC")}
      [] t = "ConnectionRequest"     -> {Plain("6 CONNECTION REQUEST")}
      [] t = "ValueChange"           -> {Plain("4 VALUE CHANGE")}
      [] t = "TransferComplete"      -> {Plain("7 TRANSFER COMPLETE")}
      [] t = "DUStateChangeComplete" -> {Plain("11 DU STATE CHANGE COMPLETE")}
      [] t = "Retry"                 -> {}

-----------------------------------------------------------------------------
(* What RunSession draws from the tracker before a session *)

SessionEvents(t) ==
    PrimaryEvents(t)
      \cup (IF bootstrapDone THEN {} ELSE {Plain("0 BOOTSTRAP")})
      \cup pendingEvents
      \cup (IF pendingTransferCompletes = {} THEN {}
            ELSE {Plain("7 TRANSFER COMPLETE")})

NextSessionEvents(t) ==
    /\ events' = SessionEvents(t)
    /\ pendingEvents' = {}
    /\ bootstrapPending' = (bootstrapPending \/ ~bootstrapDone)
    /\ UNCHANGED <<bootstrapDone, pendingValueChanges,
                   pendingTransferCompletes, pendingDUStateCompletes,
                   transferCompletes, duStateCompletes, valueChangeList>>

DrainTransferCompletes ==
    /\ transferCompletes' = pendingTransferCompletes
    /\ pendingTransferCompletes' = {}
    /\ UNCHANGED <<bootstrapVars, pendingEvents, pendingValueChanges,
                   pendingDUStateCompletes, events, duStateCompletes,
                   valueChangeList>>

DrainDUStateChangeCompletes ==
    /\ duStateCompletes' = pendingDUStateCompletes
    /\ pendingDUStateCompletes' = {}
    /\ UNCHANGED <<bootstrapVars, pendingEvents, pendingValueChanges,
                   pendingTransferCompletes, events, transferCompletes,
                   valueChangeList>>

\* The list the builder holds for "4 VALUE CHANGE"; nothing is cleared.
SessionParameterLists ==
    /\ valueChangeList' = pendingValueChanges
    /\ UNCHANGED <<queueVars, bootstrapVars, events, transferCompletes,
                   duStateCompletes>>

\* The value-change paths the Inform reports: the builder unions the lists
\* of the events in the array, so the list counts only beside its event.
InformPaths ==
    IF Plain("4 VALUE CHANGE") \in events THEN valueChangeList ELSE {}

-----------------------------------------------------------------------------
(* After a session *)

\* Fault: the latch closes whatever the session carried.
AcknowledgeAlwaysLatches ==
    /\ pendingValueChanges' = {}
    /\ bootstrapDone' = TRUE
    /\ bootstrapPending' = FALSE
    /\ UNCHANGED <<pendingEvents, pendingTransferCompletes,
                   pendingDUStateCompletes, drawnVars>>

Acknowledge ==
    /\ pendingValueChanges' = {}
    /\ bootstrapDone' = (bootstrapDone \/ bootstrapPending)
    /\ bootstrapPending' = FALSE
    /\ UNCHANGED <<pendingEvents, pendingTransferCompletes,
                   pendingDUStateCompletes, drawnVars>>

\* Fault: a failed session puts its records back and forgets its events.
RequeueOnlyRecords ==
    /\ pendingTransferCompletes' = pendingTransferCompletes \cup transferCompletes
    /\ pendingDUStateCompletes' = pendingDUStateCompletes \cup duStateCompletes
    /\ UNCHANGED <<pendingEvents, bootstrapVars, pendingValueChanges, drawnVars>>

\* Fault: a failed session puts its events back and forgets its records.
RequeueOnlyEvents ==
    /\ pendingEvents' = pendingEvents \cup
                            {e \in events : e.code \notin NotRequeued}
    /\ UNCHANGED <<pendingTransferCompletes, pendingDUStateCompletes,
                   bootstrapVars, pendingValueChanges, drawnVars>>

\* requeueUndelivered and the two record re-queues of a failed session.  They
\* take t.mu once per element, but only append, as does every method another
\* goroutine calls meanwhile, so the order they interleave in is invisible.
Requeue ==
    /\ pendingEvents' = pendingEvents \cup
                            {e \in events : e.code \notin NotRequeued}
    /\ pendingTransferCompletes' = pendingTransferCompletes \cup transferCompletes
    /\ pendingDUStateCompletes' = pendingDUStateCompletes \cup duStateCompletes
    /\ UNCHANGED <<bootstrapVars, pendingValueChanges, drawnVars>>

-----------------------------------------------------------------------------
(* What other goroutines and RPC handlers queue *)

\* queueMethod and requeueEvent
QueueEvent(e) ==
    /\ pendingEvents' = pendingEvents \cup {e}
    /\ UNCHANGED <<bootstrapVars, pendingValueChanges, drawnVars,
                   pendingTransferCompletes, pendingDUStateCompletes>>

QueueMethod(code, k) == QueueEvent([code |-> code, key |-> k])

QueuePeriodic == QueueEvent(Plain("2 PERIODIC"))

RecordValueChange(p) ==
    /\ pendingValueChanges' = pendingValueChanges \cup {p}
    /\ UNCHANGED <<bootstrapVars, pendingEvents, drawnVars,
                   pendingTransferCompletes, pendingDUStateCompletes>>

QueueTransferComplete(k) ==
    /\ pendingTransferCompletes' = pendingTransferCompletes \cup {k}
    /\ UNCHANGED <<bootstrapVars, pendingEvents, pendingValueChanges,
                   pendingDUStateCompletes, drawnVars>>

QueueDUStateChangeComplete(k) ==
    /\ pendingDUStateCompletes' = pendingDUStateCompletes \cup {k}
    /\ UNCHANGED <<bootstrapVars, pendingEvents, pendingValueChanges,
                   pendingTransferCompletes, drawnVars>>

ResetBootstrap ==
    /\ bootstrapDone' = FALSE
    /\ bootstrapPending' = FALSE
    /\ UNCHANGED <<queueVars, drawnVars>>

-----------------------------------------------------------------------------
(* The tracker on its own, its methods called in any order *)

TrackerTypeOK ==
    /\ bootstrapDone \in BOOLEAN /\ bootstrapPending \in BOOLEAN
    /\ pendingEvents \subseteq Event /\ events \subseteq Event
    /\ pendingValueChanges \subseteq Paths /\ valueChangeList \subseteq Paths
    /\ pendingTransferCompletes \subseteq Keys /\ transferCompletes \subseteq Keys
    /\ pendingDUStateCompletes \subseteq Keys /\ duStateCompletes \subseteq Keys

\* NewEventTracker: nothing pending, BOOTSTRAP not yet delivered.
TrackerInit ==
    /\ bootstrapDone = FALSE /\ bootstrapPending = FALSE
    /\ pendingEvents = {} /\ pendingValueChanges = {}
    /\ pendingTransferCompletes = {} /\ pendingDUStateCompletes = {}
    /\ events = {} /\ transferCompletes = {}
    /\ duStateCompletes = {} /\ valueChangeList = {}

TrackerNext ==
    \/ \E t \in Trigger : NextSessionEvents(t)
    \/ DrainTransferCompletes \/ DrainDUStateChangeCompletes
    \/ SessionParameterLists \/ Acknowledge \/ Requeue \/ ResetBootstrap
    \/ \E c \in MethodCode, k \in Keys : QueueMethod(c, k)
    \/ QueuePeriodic
    \/ \E p \in Paths : RecordValueChange(p)
    \/ \E k \in Keys : QueueTransferComplete(k) \/ QueueDUStateChangeComplete(k)

TrackerSpec == TrackerInit /\ [][TrackerNext]_trackerVars
=============================================================================
