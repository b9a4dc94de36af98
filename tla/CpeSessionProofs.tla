-------------------------- MODULE CpeSessionProofs --------------------------
(***************************************************************************)
(* The safety properties of CpeSession for every set of command keys,      *)
(* paths and timers, every schedule and every budget.                      *)
(***************************************************************************)
EXTENDS CpeSession, TLAPS

-----------------------------------------------------------------------------
(* Events *)

LEMMA PlainType ==
    ASSUME NEW c \in EventCode
    PROVE  Plain(c) \in Event
  BY DEF Plain, Event

LEMMA PrimaryType ==
    ASSUME NEW t \in Trigger
    PROVE  PrimaryEvents(t) \subseteq Event
  BY PlainType DEF PrimaryEvents, Trigger, EventCode

LEMMA MethodType ==
    ASSUME NEW c \in MethodCode, NEW k \in Keys
    PROVE  [code |-> c, key |-> k] \in Event
  BY DEF Event, EventCode

LEMMA MethodEventType ==
    ASSUME NEW k \in Keys
    PROVE  /\ MethodEvent(k) \in Event
           /\ MethodEvent(k).code \in MethodCode
  BY DEF Event, EventCode, MethodEvent, MethodCode

LEMMA SessionEventsType ==
    ASSUME TrackerTypeOK, NEW t \in Trigger
    PROVE  SessionEvents(t) \subseteq Event
  <1>1. Plain("0 BOOTSTRAP") \in Event /\ Plain("7 TRANSFER COMPLETE") \in Event
    BY PlainType DEF EventCode
  <1> QED BY <1>1, PrimaryType DEF SessionEvents, TrackerTypeOK

-----------------------------------------------------------------------------
(* Types *)

\* The part of TypeOK that a request, wherever it comes from, can disturb.
RequestTypeOK ==
    /\ TrackerTypeOK /\ RunnerTypeOK
    /\ pc \in Progress
    /\ owed \subseteq Event /\ renewed \subseteq Event /\ dropped \subseteq Event

LEMMA RequestType ==
    ASSUME TypeOK, NEW t \in Trigger, RequestSession(t)
    PROVE  RequestTypeOK'
  <1>1. TrackerTypeOK' /\ pc' \in Progress
    <2>1. Plain("2 PERIODIC") \in Event
      BY PlainType DEF EventCode
    <2>2. CASE Defer(t)
      BY <2>1, <2>2 DEF Defer, TypeOK, TrackerTypeOK, QueuePeriodic, QueueEvent,
         trackerVars, queueVars, bootstrapVars, drawnVars
    <2>3. CASE StartSession(t)
      BY <2>3 DEF StartSession, TypeOK, TrackerTypeOK, trackerVars, queueVars,
         bootstrapVars, drawnVars, Progress
    <2> QED BY <2>2, <2>3 DEF RequestSession
  <1>2. RunnerTypeOK'
    BY DEF RequestSession, Defer, StartSession, Latch, RunNow, TypeOK, RunnerTypeOK
  <1>3. owed' \subseteq Event /\ renewed' \subseteq Event
    BY PrimaryType DEF RequestSession, Persistent, TypeOK
  <1>4. DroppedTrigger(t) \subseteq Event
    <2>1. \A u \in {"ValueChange", "DUStateChangeComplete"} : PrimaryEvents(u) \subseteq Event
      BY PrimaryType DEF Trigger
    <2> QED BY <2>1 DEF DroppedTrigger
  <1>5. dropped' \subseteq Event
    BY <1>4 DEF RequestSession, TypeOK
  <1> QED BY <1>1, <1>2, <1>3, <1>5 DEF RequestTypeOK

\* What an environment action spends is counted.
LEMMA SpendType ==
    ASSUME TypeOK, NEW r \in Resource, Spend(r)
    PROVE  left' \in [Resource -> Nat]
  BY DEF Spend, TypeOK

\* The draw of a session's events needs a trigger to draw them for.
LEMMA TypeSession ==
    ASSUME TypeOK, BusyIffRunning, SessionStep \/ ExchangeFails
    PROVE  TypeOK'
  <1> USE DEF TypeOK, TrackerTypeOK, RunnerTypeOK, vars, trackerVars, queueVars,
              bootstrapVars, drawnVars, runnerVars, sessionVars, sourceVars,
              historyVars, Progress
  <1>1. CASE CheckRetry          BY <1>1 DEF CheckRetry
  <1>2. CASE CancelPendingRetry  BY <1>2 DEF CancelPendingRetry
  <1>3. CASE DrawEvents
    <2>1. trigger \in Trigger
      BY <1>3 DEF DrawEvents, BusyIffRunning
    <2>2. SessionEvents(trigger) \subseteq Event
      BY <2>1, SessionEventsType
    <2> QED BY <1>3, <2>2 DEF DrawEvents, NextSessionEvents, Persistent
  <1>4. CASE DrawTransferCompletes
    BY <1>4 DEF DrawTransferCompletes, DrainTransferCompletes
  <1>5. CASE DrawDUStateChangeCompletes
    BY <1>5 DEF DrawDUStateChangeCompletes, DrainDUStateChangeCompletes
  <1>6. CASE DrawParameterLists
    BY <1>6 DEF DrawParameterLists, SessionParameterLists
  <1>7. CASE BuildFails          BY <1>7 DEF BuildFails
  <1>8. CASE InformAccepted      BY <1>8 DEF InformAccepted
  <1>9. ASSUME NEW k \in Keys, RecordAnswered(k) PROVE TypeOK'
    BY <1>9 DEF RecordAnswered
  <1>10. CASE AcsCloses          BY <1>10 DEF AcsCloses
  <1>11. CASE RunAfterSession    BY <1>11 DEF RunAfterSession
  <1>12. CASE AcknowledgeSession BY <1>12 DEF AcknowledgeSession, Acknowledge
  <1>13. CASE ResetRetry         BY <1>13, ConstantsAssumption DEF ResetRetry
  <1>14. CASE RequeueSession     BY <1>14 DEF RequeueSession, Requeue
  <1>15. CASE OnFailure          BY <1>15, ConstantsAssumption DEF OnFailure
  <1>16. CASE ArmRetry           BY <1>16 DEF ArmRetry
  <1>17. CASE EndSession         BY <1>17 DEF EndSession, GoIdle, RunDeferred
  <1>18. CASE ExchangeFails
    <2>1. left' \in [Resource -> Nat]
      BY <1>18, SpendType DEF ExchangeFails, Resource
    <2> QED BY <1>18, <2>1 DEF ExchangeFails
  <1> QED BY <1>1, <1>2, <1>3, <1>4, <1>5, <1>6, <1>7, <1>8, <1>9, <1>10, <1>11,
             <1>12, <1>13, <1>14, <1>15, <1>16, <1>17, <1>18 DEF SessionStep

LEMMA BootEffectType ==
    ASSUME TypeOK, NEW k \in Keys, BootEffect(k)
    PROVE  /\ TrackerTypeOK' /\ owed' \subseteq Event /\ renewed' \subseteq Event
           /\ UNCHANGED dropped
           /\ resetSince' \in BOOLEAN
  <1> DEFINE e == [code |-> "M Reboot", key |-> k]
  <1> USE DEF TypeOK, TrackerTypeOK, queueVars, bootstrapVars, drawnVars
  <1>1. CASE QueueEvent(e) /\ Incur({e}) /\ UNCHANGED resetSince
    <2>1. e \in Event
      BY MethodType DEF MethodCode
    <2>2. /\ pendingEvents' = pendingEvents \cup {e}
          /\ owed' = owed \cup {e} /\ renewed' = renewed \cup {e}
          /\ UNCHANGED dropped
      BY <1>1 DEF QueueEvent, Incur
    <2> HIDE DEF e
    <2> QED BY <1>1, <2>1, <2>2 DEF QueueEvent
  <1>2. CASE ResetBootstrap /\ resetSince' = TRUE /\ NothingIncurred
    BY <1>2 DEF ResetBootstrap, NothingIncurred
  <1> QED BY <1>1, <1>2 DEF BootEffect, QueueMethod

\* Requests of the ACS, and the jobs they start.
LEMMA TypeJob ==
    ASSUME TypeOK, NEW k \in Keys, AcsRequests(k) \/ JobStep(k)
    PROVE  TypeOK'
  <1> USE DEF TypeOK, TrackerTypeOK, RunnerTypeOK, trackerVars, queueVars,
              bootstrapVars, drawnVars, runnerVars, sessionVars, JobState
  <1>1. MethodEvent(k) \in Event
    BY MethodEventType
  <1>2. Kind[k] \in JobKind
    BY ConstantsAssumption
  <1>3. CASE AcsRequests(k)
    <2>1. CASE AcceptReportJob(k)
      BY <1>3, <2>1 DEF AcsRequests, AcceptReportJob
    <2>2. CASE AcceptDelayedBoot(k)
      BY <1>3, <2>2 DEF AcsRequests, AcceptDelayedBoot
    <2>3. CASE AcceptImmediateBoot(k)
      BY <1>3, <2>3, BootEffectType DEF AcsRequests, AcceptImmediateBoot
    <2> QED BY <1>3, <2>1, <2>2, <2>3 DEF AcsRequests
  <1>4. CASE JobStep(k)
    <2>1. CASE ReportQueuesMethod(k)
      BY <1>1, <1>4, <2>1 DEF JobStep, ReportQueuesMethod, QueueEvent, Incur
    <2>2. CASE ReportQueuesRecord(k)
      BY <1>4, <2>2 DEF JobStep, ReportQueuesRecord, QueueTransferComplete,
         QueueDUStateChangeComplete
    <2>3. CASE BootExpires(k)
      BY <1>4, <2>3 DEF JobStep, BootExpires
    <2>4. CASE BootClearsSlot(k)
      <3>1. jobs' \in [Keys -> JobState] /\ slot' \in [BootKind -> Keys \cup {NoKey}]
        BY <2>4 DEF BootClearsSlot
      <3> QED BY <1>4, <2>4, <3>1 DEF JobStep, BootClearsSlot
    <2>5. CASE BootTakesEffect(k)
      BY <1>4, <2>5, BootEffectType DEF JobStep, BootTakesEffect
    <2>6. CASE BootResetsRetry(k)
      BY <1>4, <2>6, ConstantsAssumption DEF JobStep, BootResetsRetry
    <2>7. CASE JobRequests(k)
      <3>1. JobTrigger(k) \in Trigger
        BY DEF JobTrigger, Trigger
      <3>2. RequestTypeOK'
        BY <2>7, <3>1, RequestType DEF JobRequests
      <3> QED BY <1>4, <2>7, <3>2 DEF JobStep, JobRequests, RequestTypeOK
    <2>8. CASE JobBoots(k)
      <3>1. RequestTypeOK'
        BY <2>8, RequestType DEF JobBoots, Trigger
      <3> QED BY <1>4, <2>8, <3>1 DEF JobStep, JobBoots, RequestTypeOK
    <2>9. CASE FirmwareGoesDark(k) \/ FirmwareComesOnline(k)
      BY <1>4, <2>9 DEF JobStep, FirmwareGoesDark, FirmwareComesOnline, setOffline,
         setOnline
    <2> QED BY <1>4, <2>1, <2>2, <2>3, <2>4, <2>5, <2>6, <2>7, <2>8, <2>9 DEF JobStep
  <1> QED BY <1>3, <1>4

LEMMA TypeTimer ==
    ASSUME TypeOK, NEW i \in Timers, TimerStep(i)
    PROVE  TypeOK'
  <1> USE DEF TypeOK, TrackerTypeOK, RunnerTypeOK, trackerVars, queueVars,
              bootstrapVars, drawnVars, runnerVars, sourceVars, historyVars
  <1>1. CASE TimerExpires(i)    BY <1>1 DEF TimerExpires
  <1>2. CASE TimerClearsSlot(i) BY <1>2 DEF TimerClearsSlot
  <1>3. CASE TimerRequests(i)
    <2>1. RequestTypeOK'
      BY <1>3, RequestType DEF TimerRequests, Trigger
    <2> QED BY <1>3, <2>1 DEF TimerRequests, RequestTypeOK
  <1> QED BY <1>1, <1>2, <1>3 DEF TimerStep

LEMMA TypeParameter ==
    ASSUME TypeOK, NEW p \in Paths,
           \/ AcsSetsDeferred(p) \/ AcsSets(p) \/ ParameterChanges(p)
           \/ ObserverRequests(p) \/ ParameterRemoved(p)
    PROVE  TypeOK'
  <1> USE DEF TypeOK, TrackerTypeOK, RunnerTypeOK, trackerVars, queueVars,
              bootstrapVars, drawnVars, runnerVars, sessionVars, historyVars
  <1>1. CASE AcsSetsDeferred(p)
    <2>1. left' \in [Resource -> Nat]
      BY <1>1, SpendType DEF AcsSetsDeferred, Resource
    <2> QED BY <1>1, <2>1 DEF AcsSetsDeferred
  <1>2. CASE AcsSets(p) \/ ParameterChanges(p)
    <2>1. left' \in [Resource -> Nat]
      BY <1>2, SpendType DEF AcsSets, ParameterChanges, Resource
    <2> QED BY <1>2, <2>1 DEF AcsSets, ParameterChanges, RecordValueChange
  <1>3. CASE ObserverRequests(p)
    <2>1. RequestTypeOK'
      BY <1>3, RequestType DEF ObserverRequests, Trigger
    <2> QED BY <1>3, <2>1 DEF ObserverRequests, RequestTypeOK
  <1>4. CASE ParameterRemoved(p)
    <2>1. left' \in [Resource -> Nat]
      BY <1>4, SpendType DEF ParameterRemoved, Resource
    <2> QED BY <1>4, <2>1 DEF ParameterRemoved
  <1> QED BY <1>1, <1>2, <1>3, <1>4

LEMMA TypeSource ==
    ASSUME TypeOK, BootRequests \/ Tick \/ ConnectionRequested
    PROVE  TypeOK'
  <1> USE DEF TypeOK, TrackerTypeOK, RunnerTypeOK, trackerVars, queueVars,
              bootstrapVars, drawnVars, runnerVars, sessionVars, historyVars
  <1>1. CASE BootRequests
    <2>1. left' \in [Resource -> Nat] /\ RequestTypeOK'
      BY <1>1, SpendType, RequestType DEF BootRequests, Resource, Trigger
    <2> QED BY <1>1, <2>1 DEF BootRequests, RequestTypeOK
  <1>2. CASE Tick
    <2>1. left' \in [Resource -> Nat] /\ RequestTypeOK'
      BY <1>2, SpendType, RequestType DEF Tick, Resource, Trigger
    <2> QED BY <1>2, <2>1 DEF Tick, RequestTypeOK
  <1>3. CASE ConnectionRequested
    <2>1. left' \in [Resource -> Nat] /\ RequestTypeOK'
      BY <1>3, SpendType, RequestType DEF ConnectionRequested, Resource, Trigger
    <2> QED BY <1>3, <2>1 DEF ConnectionRequested, RequestTypeOK
  <1> QED BY <1>1, <1>2, <1>3

LEMMA TypeStep ==
    ASSUME TypeOK, BusyIffRunning, [Next]_vars
    PROVE  TypeOK'
  <1>1. CASE UNCHANGED vars
    BY <1>1 DEF TypeOK, TrackerTypeOK, RunnerTypeOK, vars, trackerVars, queueVars,
       bootstrapVars, drawnVars, runnerVars, sessionVars, sourceVars, historyVars
  <1> QED BY <1>1, TypeSession, TypeJob, TypeTimer, TypeParameter, TypeSource DEF Next

-----------------------------------------------------------------------------
(* One goroutine runs the session *)

LEMMA NoTriggerIsNone == NoTrigger \notin Trigger
  BY DEF NoTrigger, Trigger

\* The steps of the running session before its end leave the runner alone.
LEMMA SessionFrame ==
    ASSUME SessionStep \/ ExchangeFails
    PROVE  \/ EndSession
           \/ UNCHANGED runnerVars /\ pc # "idle" /\ pc' # "idle"
  BY DEF SessionStep, CheckRetry, CancelPendingRetry, DrawEvents,
     DrawTransferCompletes, DrawDUStateChangeCompletes, DrawParameterLists,
     BuildFails, InformAccepted, RecordAnswered, AcsCloses, RunAfterSession,
     AcknowledgeSession, ResetRetry, RequeueSession, OnFailure, ArmRetry,
     ExchangeFails

\* A step that starts no session and keeps what retries are under way.
Quiet ==
    /\ UNCHANGED <<busy, deferred, trigger, pc>>
    /\ retryCount' \in {retryCount, 0}
    /\ UNCHANGED timers \/ RetryUnderWay'

\* Every other step leaves the session alone or is a request.
LEMMA OtherFrame ==
    ASSUME TypeOK, Next, ~(SessionStep \/ ExchangeFails)
    PROVE  \/ \E t \in Trigger : RequestSession(t)
           \/ Quiet
  <1> USE DEF runnerVars, sessionVars, sourceVars, Quiet
  <1>1. ASSUME NEW k \in Keys, AcsRequests(k)
        PROVE  Quiet
    BY <1>1 DEF AcsRequests
  <1>2. ASSUME NEW k \in Keys, JobStep(k)
        PROVE  \/ \E t \in Trigger : RequestSession(t)
               \/ Quiet
    <2>1. JobTrigger(k) \in Trigger
      BY DEF JobTrigger, Trigger
    <2> QED BY <1>2, <2>1 DEF JobStep, ReportQueuesMethod, ReportQueuesRecord,
               FirmwareGoesDark, FirmwareComesOnline, setOffline, setOnline,
               BootExpires, BootClearsSlot, BootTakesEffect, BootResetsRetry,
               JobRequests, JobBoots, Trigger
  <1>3. ASSUME NEW i \in Timers, TimerStep(i)
        PROVE  \/ \E t \in Trigger : RequestSession(t)
               \/ Quiet
    <2>1. CASE TimerExpires(i)
      <3>1. RetryUnderWay'
        BY <2>1 DEF TimerExpires, RetryUnderWay, TypeOK
      <3> QED BY <2>1, <3>1 DEF TimerExpires
    <2>2. CASE TimerClearsSlot(i)
      <3>1. RetryUnderWay'
        BY <2>2 DEF TimerClearsSlot, RetryUnderWay, TypeOK
      <3> QED BY <2>2, <3>1 DEF TimerClearsSlot
    <2>3. CASE TimerRequests(i)
      BY <2>3 DEF TimerRequests, Trigger
    <2> QED BY <1>3, <2>1, <2>2, <2>3 DEF TimerStep
  <1>4. ASSUME NEW p \in Paths,
               \/ AcsSetsDeferred(p) \/ AcsSets(p) \/ ParameterChanges(p)
               \/ ObserverRequests(p) \/ ParameterRemoved(p)
        PROVE  \/ \E t \in Trigger : RequestSession(t)
               \/ Quiet
    BY <1>4 DEF AcsSetsDeferred, AcsSets, ParameterChanges, ObserverRequests,
       ParameterRemoved, Trigger
  <1>5. CASE BootRequests \/ Tick \/ ConnectionRequested
    BY <1>5 DEF BootRequests, Tick, ConnectionRequested, Trigger
  <1> QED BY <1>1, <1>2, <1>3, <1>4, <1>5 DEF Next

LEMMA BusyStep ==
    ASSUME TypeOK, BusyIffRunning, [Next]_vars
    PROVE  BusyIffRunning'
  <1> USE NoTriggerIsNone DEF TypeOK, RunnerTypeOK, BusyIffRunning
  <1>1. CASE UNCHANGED vars
    BY <1>1 DEF vars, runnerVars, sessionVars
  <1>2. CASE SessionStep \/ ExchangeFails
    <2>1. CASE EndSession
      BY <2>1 DEF EndSession, GoIdle, RunDeferred
    <2>2. CASE UNCHANGED runnerVars /\ pc # "idle" /\ pc' # "idle"
      BY <2>2 DEF runnerVars
    <2> QED BY <1>2, <2>1, <2>2, SessionFrame
  <1>3. ASSUME NEW t \in Trigger, RequestSession(t) PROVE BusyIffRunning'
    BY <1>3 DEF RequestSession, Defer, StartSession, Latch, RunNow
  <1>4. CASE Quiet
    BY <1>4 DEF Quiet
  <1> QED BY <1>1, <1>2, <1>3, <1>4, OtherFrame

\* The state stays in its types, and the runner's busy flag, its trigger and
\* the session goroutine agree: no two goroutines run a session of one CPE
\* (request and runOne of main.go).
THEOREM TypeCorrect == Spec => [](TypeOK /\ BusyIffRunning)
  <1>1. Init => TypeOK /\ BusyIffRunning
    <2> SUFFICES ASSUME Init PROVE TypeOK /\ BusyIffRunning
      OBVIOUS
    <2>1. TrackerTypeOK /\ RunnerTypeOK
      BY DEF Init, TrackerInit, RunnerInit, TrackerTypeOK, RunnerTypeOK
    <2>2. BusyIffRunning
      BY DEF Init, RunnerInit, BusyIffRunning
    <2>3. /\ pc \in Progress /\ retryCount \in 0..MaxRetryCount
          /\ timers \in [Timers -> {"off", "armed", "fired", "cleared"}]
      BY ConstantsAssumption DEF Init, Progress
    <2>4. /\ jobs \in [Keys -> JobState]
          /\ slot \in [BootKind -> Keys \cup {NoKey}]
          /\ left \in [Resource -> Nat]
      BY ConstantsAssumption DEF Init, JobState
    <2> QED BY <2>1, <2>2, <2>3, <2>4 DEF Init, TypeOK
  <1>2. TypeOK /\ BusyIffRunning /\ [Next]_vars => (TypeOK /\ BusyIffRunning)'
    BY TypeStep, BusyStep
  <1> QED BY <1>1, <1>2, PTL DEF Spec

-----------------------------------------------------------------------------
(* One session at a time, and what it accepted is done when it ends *)

LEMMA OverlapStep ==
    ASSUME TypeOK, BusyIffRunning, [Next]_vars, pc' = "start"
    PROVE  pc \in {"idle", "done", "start"}
  <1>1. CASE UNCHANGED vars
    BY <1>1 DEF vars, sessionVars
  <1>2. CASE SessionStep \/ ExchangeFails
    BY <1>2 DEF SessionStep, CheckRetry, CancelPendingRetry, DrawEvents,
       DrawTransferCompletes, DrawDUStateChangeCompletes, DrawParameterLists,
       BuildFails, InformAccepted, RecordAnswered, AcsCloses, RunAfterSession,
       AcknowledgeSession, ResetRetry, RequeueSession, OnFailure, ArmRetry,
       EndSession, ExchangeFails
  <1>3. ASSUME NEW t \in Trigger, RequestSession(t)
        PROVE  pc \in {"idle", "done", "start"}
    BY <1>3 DEF RequestSession, Defer, StartSession, RunNow, BusyIffRunning
  <1>4. CASE Quiet
    BY <1>4 DEF Quiet
  <1> QED BY <1>1, <1>2, <1>3, <1>4, OtherFrame

\* request and runOne of main.go: no trigger source starts a session of a CPE
\* while another session of it runs.
THEOREM SessionsSerial == Spec => SessionsDoNotOverlap
  <1>1. TypeOK /\ BusyIffRunning /\ [Next]_vars =>
          (pc' = "start" => pc \in {"idle", "done", "start"})
    BY OverlapStep
  <1> QED BY <1>1, TypeCorrect, PTL DEF Spec, SessionsDoNotOverlap

\* Only AcsSetsDeferred, in the drain loop, adds to the deferred writes.
DeferredFrame == UNCHANGED afterSession /\ (pc' = pc \/ pc = "idle")

LEMMA RequestDeferred ==
    ASSUME BusyIffRunning, NEW t \in Trigger, RequestSession(t), UNCHANGED afterSession
    PROVE  DeferredFrame
  BY DEF RequestSession, Defer, StartSession, RunNow, BusyIffRunning, DeferredFrame

LEMMA DeferredOther ==
    ASSUME BusyIffRunning, Next, ~(SessionStep \/ ExchangeFails)
    PROVE  \/ DeferredFrame
           \/ \E p \in Paths : AcsSetsDeferred(p)
  <1> USE DEF sessionVars, sourceVars
  <1>1. ASSUME NEW k \in Keys, AcsRequests(k) PROVE DeferredFrame
    BY <1>1 DEF AcsRequests, DeferredFrame
  <1>2. ASSUME NEW k \in Keys, JobStep(k) PROVE DeferredFrame
    <2>1. JobTrigger(k) \in Trigger
      BY DEF JobTrigger, Trigger
    <2>2. UNCHANGED afterSession
      BY <1>2 DEF JobStep
    <2>3. CASE JobRequests(k) \/ JobBoots(k)
      BY <2>1, <2>2, <2>3, RequestDeferred DEF JobRequests, JobBoots, Trigger
    <2>4. CASE ~(JobRequests(k) \/ JobBoots(k))
      BY <1>2, <2>2, <2>4 DEF JobStep, ReportQueuesMethod, ReportQueuesRecord,
         FirmwareGoesDark, FirmwareComesOnline, BootExpires, BootClearsSlot, BootTakesEffect, BootResetsRetry, DeferredFrame
    <2> QED BY <2>3, <2>4
  <1>3. ASSUME NEW i \in Timers, TimerStep(i) PROVE DeferredFrame
    <2>1. CASE TimerRequests(i)
      BY <2>1, RequestDeferred DEF TimerRequests, Trigger
    <2> QED BY <1>3, <2>1 DEF TimerStep, TimerExpires, TimerClearsSlot, DeferredFrame
  <1>4. ASSUME NEW p \in Paths,
               \/ AcsSets(p) \/ ParameterChanges(p)
               \/ ObserverRequests(p) \/ ParameterRemoved(p)
        PROVE  DeferredFrame
    <2>1. CASE ObserverRequests(p)
      BY <2>1, RequestDeferred DEF ObserverRequests, Trigger
    <2> QED BY <1>4, <2>1 DEF AcsSets, ParameterChanges, ParameterRemoved, DeferredFrame
  <1>5. CASE BootRequests \/ Tick \/ ConnectionRequested
    BY <1>5, RequestDeferred DEF BootRequests, Tick, ConnectionRequested, Trigger
  <1> QED BY <1>1, <1>2, <1>3, <1>4, <1>5 DEF Next

LEMMA DeferredStep ==
    ASSUME BusyIffRunning, DeferredWritesApplied, [Next]_vars
    PROVE  DeferredWritesApplied'
  <1> USE DEF DeferredWritesApplied
  <1>1. CASE UNCHANGED vars
    BY <1>1 DEF vars, sessionVars, sourceVars
  <1>2. CASE SessionStep \/ ExchangeFails
    BY <1>2 DEF SessionStep, CheckRetry, CancelPendingRetry, DrawEvents,
       DrawTransferCompletes, DrawDUStateChangeCompletes, DrawParameterLists,
       BuildFails, InformAccepted, RecordAnswered, AcsCloses, RunAfterSession,
       AcknowledgeSession, ResetRetry, RequeueSession, OnFailure, ArmRetry,
       EndSession, ExchangeFails, sourceVars
  <1>3. CASE DeferredFrame
    BY <1>3 DEF DeferredFrame
  <1>4. ASSUME NEW p \in Paths, AcsSetsDeferred(p) PROVE DeferredWritesApplied'
    BY <1>4 DEF AcsSetsDeferred, sessionVars
  <1> QED BY <1>1, <1>2, <1>3, <1>4, DeferredOther

\* AfterSession.Run: a write the ACS was told is accepted lands with the session
\* that accepted it, whether that session ended well or not.
THEOREM DeferredWritesLand == Spec => []DeferredWritesApplied
  <1>1. Init => DeferredWritesApplied
    BY DEF Init, DeferredWritesApplied
  <1>2. BusyIffRunning /\ DeferredWritesApplied /\ [Next]_vars => DeferredWritesApplied'
    BY DeferredStep
  <1> QED BY <1>1, <1>2, TypeCorrect, PTL DEF Spec

-----------------------------------------------------------------------------
(* A failed session is followed by another *)

LEMMA UnderWayFrame ==
    ASSUME UNCHANGED timers
    PROVE  RetryUnderWay' <=> RetryUnderWay
  BY Zenon DEF RetryUnderWay

\* A request that is not dropped latches or starts a session.
LEMMA RequestComing ==
    ASSUME TypeOK, BusyIffRunning, NEW t \in Trigger, RequestSession(t)
    PROVE  deferred' # NoTrigger \/ pc' = "start"
  BY NoTriggerIsNone DEF TypeOK, RunnerTypeOK, RequestSession, Defer,
     StartSession, Latch, Outranks

\* The session reaches its end only with the count reset or a retry armed.
LEMMA RetrySession ==
    ASSUME TypeOK, RetryAlwaysComing, SessionStep \/ ExchangeFails
    PROVE  RetryAlwaysComing'
  <1> USE DEF RetryAlwaysComing
  <1>1. CASE CheckRetry
    BY <1>1, UnderWayFrame DEF CheckRetry, TypeOK
  <1>2. CASE ResetRetry
    BY <1>2 DEF ResetRetry
  <1>3. CASE ArmRetry
    <2>1. RetryUnderWay'
      BY <1>3 DEF ArmRetry, RetryUnderWay, TypeOK
    <2> QED BY <2>1
  <1>4. CASE EndSession
    BY <1>4, UnderWayFrame DEF EndSession, GoIdle, RunDeferred
  <1>5. CASE ~(CheckRetry \/ ResetRetry \/ ArmRetry \/ EndSession)
    <2>1. pc' \notin {"idle", "done"}
      BY <1>5 DEF SessionStep, CancelPendingRetry, DrawEvents,
         DrawTransferCompletes, DrawDUStateChangeCompletes, DrawParameterLists,
         BuildFails, InformAccepted, RecordAnswered, AcsCloses, RunAfterSession,
         AcknowledgeSession, RequeueSession, OnFailure, ExchangeFails
    <2> QED BY <2>1
  <1> QED BY <1>1, <1>2, <1>3, <1>4, <1>5

LEMMA RetryStep ==
    ASSUME TypeOK, BusyIffRunning, RetryAlwaysComing, [Next]_vars
    PROVE  RetryAlwaysComing'
  <1>1. CASE UNCHANGED vars
    BY <1>1, UnderWayFrame DEF vars, runnerVars, sessionVars, RetryAlwaysComing
  <1>2. ASSUME NEW t \in Trigger, RequestSession(t) PROVE RetryAlwaysComing'
    BY <1>2, RequestComing DEF RetryAlwaysComing
  <1>3. CASE Quiet
    <2>1. retryCount \in Nat
      BY ConstantsAssumption DEF TypeOK
    <2> QED BY <1>3, <2>1, UnderWayFrame DEF Quiet, RetryAlwaysComing
  <1> QED BY <1>1, <1>2, <1>3, RetrySession, OtherFrame

\* main.go, runOne and RunSession: a CPE whose last session failed has a retry
\* one-shot under way or a trigger latched, whatever cancels and supersedes.
THEOREM RetryComing == Spec => []RetryAlwaysComing
  <1>1. Init => RetryAlwaysComing
    BY DEF Init, RetryAlwaysComing
  <1>2. TypeOK /\ BusyIffRunning /\ RetryAlwaysComing /\ [Next]_vars
          => RetryAlwaysComing'
    BY RetryStep
  <1> QED BY <1>1, <1>2, TypeCorrect, PTL DEF Spec

-----------------------------------------------------------------------------
(* The BOOTSTRAP latch *)

\* A step that neither draws, delivers nor resets BOOTSTRAP.
BootstrapFrame ==
    /\ UNCHANGED <<bootstrapDone, bootstrapPending, events, resetSince>>
    /\ Carrying' => Carrying

\* A factory reset opens the latch again and notes that it did.
BootstrapReset == bootstrapDone' = FALSE /\ bootstrapPending' = FALSE

LEMMA RequestBootstrap ==
    ASSUME NEW t \in Trigger, RequestSession(t)
    PROVE  /\ UNCHANGED <<bootstrapDone, bootstrapPending, events>>
           /\ Carrying' => Carrying
  BY DEF RequestSession, Defer, StartSession, QueuePeriodic, QueueEvent,
     trackerVars, bootstrapVars, drawnVars, Carrying

LEMMA BootEffectBootstrap ==
    ASSUME NEW k \in Keys, BootEffect(k)
    PROVE  \/ UNCHANGED <<bootstrapDone, bootstrapPending, events, resetSince>>
           \/ BootstrapReset
  BY DEF BootEffect, QueueMethod, QueueEvent, ResetBootstrap, bootstrapVars,
     drawnVars, BootstrapReset

LEMMA BootstrapSessionFrame ==
    ASSUME SessionStep \/ ExchangeFails
    PROVE  BootstrapFrame \/ DrawEvents \/ AcknowledgeSession
  <1> USE DEF BootstrapFrame, Carrying, trackerVars, bootstrapVars, drawnVars, historyVars
  <1>1. CASE CheckRetry \/ CancelPendingRetry \/ BuildFails \/ InformAccepted
             \/ AcsCloses \/ ResetRetry \/ OnFailure \/ ArmRetry \/ ExchangeFails
    BY <1>1 DEF CheckRetry, CancelPendingRetry, BuildFails, InformAccepted,
       AcsCloses, ResetRetry, OnFailure, ArmRetry, ExchangeFails
  <1>2. CASE DrawTransferCompletes
    BY <1>2 DEF DrawTransferCompletes, DrainTransferCompletes
  <1>3. CASE DrawDUStateChangeCompletes
    BY <1>3 DEF DrawDUStateChangeCompletes, DrainDUStateChangeCompletes
  <1>4. CASE DrawParameterLists
    BY <1>4 DEF DrawParameterLists, SessionParameterLists
  <1>5. ASSUME NEW k \in Keys, RecordAnswered(k) PROVE BootstrapFrame
    BY <1>5 DEF RecordAnswered
  <1>6. CASE RunAfterSession BY <1>6 DEF RunAfterSession
  <1>7. CASE RequeueSession  BY <1>7 DEF RequeueSession, Requeue
  <1>8. CASE EndSession      BY <1>8 DEF EndSession, GoIdle, RunDeferred
  <1> QED BY <1>1, <1>2, <1>3, <1>4, <1>5, <1>6, <1>7, <1>8 DEF SessionStep

LEMMA BootstrapOtherFrame ==
    ASSUME Next, ~(SessionStep \/ ExchangeFails)
    PROVE  BootstrapFrame \/ BootstrapReset
  <1> USE DEF BootstrapFrame, Carrying, trackerVars, bootstrapVars, drawnVars,
              sessionVars, historyVars
  <1>1. ASSUME NEW k \in Keys, AcsRequests(k)
        PROVE  BootstrapFrame \/ BootstrapReset
    <2>1. UNCHANGED pc
      BY <1>1 DEF AcsRequests
    <2>2. CASE AcceptReportJob(k)   BY <2>1, <2>2 DEF AcceptReportJob
    <2>3. CASE AcceptDelayedBoot(k) BY <2>1, <2>3 DEF AcceptDelayedBoot
    <2>4. CASE AcceptImmediateBoot(k)
      BY <2>1, <2>4, BootEffectBootstrap DEF AcceptImmediateBoot
    <2> QED BY <1>1, <2>2, <2>3, <2>4 DEF AcsRequests
  <1>2. ASSUME NEW k \in Keys, JobStep(k)
        PROVE  BootstrapFrame \/ BootstrapReset
    <2>1. CASE ReportQueuesMethod(k)
      BY <2>1 DEF ReportQueuesMethod, QueueEvent
    <2>2. CASE ReportQueuesRecord(k)
      BY <2>2 DEF ReportQueuesRecord, QueueTransferComplete,
         QueueDUStateChangeComplete
    <2>3. CASE FirmwareGoesDark(k) \/ FirmwareComesOnline(k) \/ BootExpires(k)
               \/ BootClearsSlot(k) \/ BootResetsRetry(k)
      BY <2>3 DEF FirmwareGoesDark, FirmwareComesOnline, BootExpires,
         BootClearsSlot, BootResetsRetry
    <2>4. CASE BootTakesEffect(k)
      BY <2>4, BootEffectBootstrap DEF BootTakesEffect
    <2>5. CASE JobRequests(k) \/ JobBoots(k)
      <3>1. JobTrigger(k) \in Trigger
        BY DEF JobTrigger, Trigger
      <3> QED BY <2>5, <3>1, RequestBootstrap DEF JobRequests, JobBoots, Trigger
    <2> QED BY <1>2, <2>1, <2>2, <2>3, <2>4, <2>5 DEF JobStep
  <1>3. ASSUME NEW i \in Timers, TimerStep(i) PROVE BootstrapFrame
    BY <1>3, RequestBootstrap DEF TimerStep, TimerExpires, TimerClearsSlot,
       TimerRequests, Trigger
  <1>4. ASSUME NEW p \in Paths,
               \/ AcsSetsDeferred(p) \/ AcsSets(p) \/ ParameterChanges(p)
               \/ ObserverRequests(p) \/ ParameterRemoved(p)
        PROVE  BootstrapFrame
    BY <1>4, RequestBootstrap DEF AcsSetsDeferred, AcsSets, ParameterChanges,
       RecordValueChange, ObserverRequests, ParameterRemoved, Trigger
  <1>5. CASE BootRequests \/ Tick \/ ConnectionRequested
    BY <1>5, RequestBootstrap DEF BootRequests, Tick, ConnectionRequested, Trigger
  <1> QED BY <1>1, <1>2, <1>3, <1>4, <1>5 DEF Next

LEMMA BootstrapStep ==
    ASSUME TypeOK, BootstrapPendingSound, [Next]_vars
    PROVE  /\ BootstrapPendingSound'
           /\ ~bootstrapDone /\ bootstrapDone' =>
                Plain("0 BOOTSTRAP") \in events /\ ~resetSince
  <1> USE DEF BootstrapPendingSound
  <1>1. CASE BootstrapFrame
    BY <1>1 DEF BootstrapFrame, TypeOK, TrackerTypeOK
  <1>2. CASE BootstrapReset
    BY <1>2 DEF BootstrapReset
  <1>3. CASE DrawEvents
    <2>1. ~bootstrapDone => Plain("0 BOOTSTRAP") \in SessionEvents(trigger)
      BY DEF SessionEvents
    <2> QED BY <1>3, <2>1 DEF DrawEvents, NextSessionEvents, TypeOK, TrackerTypeOK
  <1>4. CASE AcknowledgeSession
    BY <1>4 DEF AcknowledgeSession, Acknowledge, Carrying, TypeOK, TrackerTypeOK
  <1>5. CASE UNCHANGED vars
    BY <1>5 DEF vars, trackerVars, bootstrapVars, drawnVars, sessionVars,
       historyVars, Carrying
  <1> QED BY <1>1, <1>2, <1>3, <1>4, <1>5, BootstrapSessionFrame, BootstrapOtherFrame

\* eventtracker.go, NextSessionEvents, Acknowledge and ResetBootstrap: the
\* latch closes only on a session whose Inform carried "0 BOOTSTRAP" and that
\* no factory reset overtook.
THEOREM BootstrapSound == Spec => []BootstrapPendingSound /\ BootstrapLatchSound
  <1>1. Init => BootstrapPendingSound
    BY DEF Init, TrackerInit, BootstrapPendingSound
  <1>2. TypeOK /\ BootstrapPendingSound /\ [Next]_vars
          => /\ BootstrapPendingSound'
             /\ ~bootstrapDone /\ bootstrapDone' =>
                  Plain("0 BOOTSTRAP") \in events /\ ~resetSince
    BY BootstrapStep
  <1> QED BY <1>1, <1>2, TypeCorrect, PTL DEF Spec, BootstrapLatchSound

-----------------------------------------------------------------------------
(* Coalescing loses no event *)

\* NothingOwedIsLost, and what is owed is what a failure re-queues.
OwedInv ==
    /\ NothingOwedIsLost
    /\ \A e \in owed \cup renewed : e.code \notin NotRequeued

\* Where an event may be that the running session does not carry.
Coming == pendingEvents \cup Awaited \cup dropped

LEMMA PrimaryPersistent ==
    ASSUME NEW t \in Trigger
    PROVE  /\ t \in {"ConnectionRequest", "TransferComplete", "Retry"} =>
                  Persistent(PrimaryEvents(t)) = {}
           /\ t = "Periodic" => PrimaryEvents(t) = {Plain("2 PERIODIC")}
           /\ t = "Retry" => PrimaryEvents(t) = {}
  <1>1. /\ t = "Periodic" => PrimaryEvents(t) = {Plain("2 PERIODIC")}
        /\ t = "Retry" => PrimaryEvents(t) = {}
        /\ t = "ConnectionRequest" => PrimaryEvents(t) = {Plain("6 CONNECTION REQUEST")}
        /\ t = "TransferComplete" => PrimaryEvents(t) = {Plain("7 TRANSFER COMPLETE")}
    BY DEF PrimaryEvents
  <1>2. /\ Plain("6 CONNECTION REQUEST").code \in NotRequeued
        /\ Plain("7 TRANSFER COMPLETE").code \in NotRequeued
    BY DEF Plain, NotRequeued
  <1> QED BY <1>1, <1>2 DEF Persistent

\* The latch: what a request displaces, or is kept out as, is queued if it is a
\* tick and counted as dropped if no queue has it; a boot is never displaced.
LEMMA DeferKeeps ==
    ASSUME TypeOK, NEW t \in Trigger, Defer(t),
           dropped' = (dropped \ PrimaryEvents(t)) \cup DroppedTrigger(t)
    PROVE  /\ pendingEvents \subseteq pendingEvents'
           /\ Persistent(Coming) \subseteq Coming'
           /\ Persistent(PrimaryEvents(t)) \subseteq Coming'
           /\ UNCHANGED <<pc, trigger, events>>
  <1>1. UNCHANGED <<pc, trigger, events>> /\ pendingEvents \subseteq pendingEvents'
    BY DEF Defer, Latch, QueuePeriodic, QueueEvent, trackerVars, queueVars, drawnVars
  <1>2. deferred = NoTrigger \/ deferred \in Trigger
    BY DEF TypeOK, RunnerTypeOK
  <1>3. Displaced(t) = "Periodic" => Plain("2 PERIODIC") \in pendingEvents'
    BY DEF Defer, QueuePeriodic, QueueEvent
  <1>4. deferred' = IF Outranks(t) THEN t ELSE deferred
    BY DEF Defer, Latch
  <1>5. NoTrigger \notin Trigger
    BY NoTriggerIsNone
  <1>6. deferred' \in Trigger
    BY <1>2, <1>4 DEF Outranks
  <1>7. PrimaryEvents(deferred') \subseteq Awaited'
    BY <1>5, <1>6 DEF Awaited
  <1>8. ASSUME NEW u \in Trigger, u = t \/ u = deferred
        PROVE  Persistent(PrimaryEvents(u)) \subseteq Coming'
    <2>1. CASE deferred' = u
      BY <1>7, <2>1 DEF Coming, Persistent
    <2>2. CASE deferred' # u
      <3>1. Displaced(t) = u
        BY <1>2, <1>4, <1>5, <1>8, <2>2 DEF Displaced, Outranks
      <3>2. CASE u = "Startup"
        <4>1. deferred # NoTrigger /\ deferred \in Trigger
          BY <1>2, <1>4, <1>5, <1>8, <2>2 DEF Outranks
        <4>2. FALSE
          BY <1>4, <1>8, <2>2, <3>2, <4>1 DEF Outranks, triggerPriority, Trigger
        <4> QED BY <4>2
      <3>3. CASE u = "Periodic"
        BY <1>3, <3>1, <3>3, PrimaryPersistent DEF Coming, Persistent
      <3>4. CASE u \in {"ValueChange", "DUStateChangeComplete"}
        <4>1. PrimaryEvents(u) \subseteq dropped'
          BY <2>2, <3>1, <3>4 DEF DroppedTrigger
        <4> QED BY <4>1 DEF Coming, Persistent
      <3>5. CASE u \in {"ConnectionRequest", "TransferComplete", "Retry"}
        BY <3>5, PrimaryPersistent
      <3> QED BY <3>2, <3>3, <3>4, <3>5 DEF Trigger
    <2> QED BY <2>1, <2>2
  <1>9. Persistent(PrimaryEvents(t)) \subseteq Coming'
    BY <1>8
  <1>10. Persistent(Awaited) \subseteq Coming'
    <2>1. (IF BeforeDraw THEN PrimaryEvents(trigger) ELSE {}) \subseteq Awaited'
      BY <1>1 DEF Awaited, BeforeDraw
    <2>2. CASE deferred = NoTrigger
      BY <2>1, <2>2 DEF Awaited, Coming, Persistent
    <2>3. CASE deferred \in Trigger
      <3>1. Persistent(PrimaryEvents(deferred)) \subseteq Coming'
        BY <1>8, <2>3
      <3> QED BY <1>5, <2>1, <2>3, <3>1 DEF Awaited, Coming, Persistent
    <2> QED BY <1>2, <2>2, <2>3
  <1>11. Persistent(dropped) \subseteq Coming'
    BY <1>9 DEF Coming, Persistent
  <1>12. Persistent(Coming) \subseteq Coming'
    BY <1>1, <1>10, <1>11 DEF Coming, Persistent
  <1> QED BY <1>1, <1>9, <1>12

LEMMA RequestOwed ==
    ASSUME TypeOK, BusyIffRunning, OwedInv, NEW t \in Trigger, RequestSession(t)
    PROVE  OwedInv'
  <1> DEFINE new == Persistent(PrimaryEvents(t))
  <1>1. /\ owed' = owed \cup new /\ renewed' = renewed \cup new
        /\ \A e \in owed \cup renewed \cup new : e.code \notin NotRequeued
    BY DEF RequestSession, Persistent, OwedInv
  <1>2. \A e \in owed' \cup renewed' : e.code \notin NotRequeued
    BY <1>1
  <1>3. CASE Defer(t) /\ dropped' = (dropped \ PrimaryEvents(t)) \cup DroppedTrigger(t)
    <2>1. /\ Persistent(Coming) \subseteq Coming' /\ new \subseteq Coming'
          /\ UNCHANGED <<pc, trigger, events>>
      BY <1>3, DeferKeeps
    <2>2. (Carrying' <=> Carrying) /\ events' = events
      BY <2>1 DEF Carrying
    <2>3. /\ owed \subseteq Persistent(Coming) \cup (IF Carrying THEN events ELSE {})
          /\ Carrying => renewed \subseteq Persistent(Coming)
      BY DEF OwedInv, NothingOwedIsLost, Coming, Persistent
    <2> HIDE DEF new
    <2>4. /\ owed' \subseteq Coming' \cup (IF Carrying' THEN events' ELSE {})
          /\ Carrying' => renewed' \subseteq Coming'
      BY <1>1, <2>1, <2>2, <2>3
    <2> QED BY <1>2, <2>4 DEF OwedInv, NothingOwedIsLost, Coming
  <1>4. CASE StartSession(t) /\ dropped' = dropped \ PrimaryEvents(t)
    <2>1. pc = "idle" /\ pc' = "start" /\ UNCHANGED <<deferred, pendingEvents>>
          /\ trigger' = t
      BY <1>4 DEF StartSession, RunNow, BusyIffRunning, trackerVars, queueVars
    <2>2. ~Carrying /\ ~Carrying' /\ ~BeforeDraw /\ BeforeDraw'
      BY <2>1 DEF Carrying, BeforeDraw
    <2>3. Awaited \subseteq Awaited' /\ PrimaryEvents(t) \subseteq Awaited'
      BY <2>1, <2>2 DEF Awaited
    <2>4. Coming \subseteq Coming' /\ new \subseteq Coming'
      BY <1>4, <2>1, <2>3 DEF Coming, Persistent
    <2>5. owed' \subseteq Coming'
      BY <1>1, <2>2, <2>4 DEF OwedInv, NothingOwedIsLost, Coming
    <2> QED BY <1>2, <2>2, <2>5 DEF OwedInv, NothingOwedIsLost, Coming
  <1> QED BY <1>3, <1>4 DEF RequestSession

\* An RPC's event is queued as it is incurred.
MethodQueued ==
    /\ \E e : /\ e.code \in MethodCode
              /\ pendingEvents' = pendingEvents \cup {e}
              /\ owed' = owed \cup {e} /\ renewed' = renewed \cup {e}
    /\ UNCHANGED <<events, deferred, trigger, pc, dropped>>

\* Nothing is incurred, queued or drawn, and the session stays in its phase.
OwedFrame ==
    /\ UNCHANGED <<owed, renewed, dropped, pendingEvents, events, deferred, trigger>>
    /\ Carrying' <=> Carrying
    /\ BeforeDraw' <=> BeforeDraw

LEMMA OwedFrameKeeps ==
    ASSUME OwedInv, OwedFrame
    PROVE  OwedInv'
  <1>1. Awaited' = Awaited
    BY DEF Awaited, OwedFrame
  <1> QED BY <1>1 DEF OwedInv, NothingOwedIsLost, OwedFrame

LEMMA MethodQueuedKeeps ==
    ASSUME OwedInv, MethodQueued
    PROVE  OwedInv'
  <1>1. PICK e : /\ e.code \in MethodCode
                 /\ pendingEvents' = pendingEvents \cup {e}
                 /\ owed' = owed \cup {e} /\ renewed' = renewed \cup {e}
    BY DEF MethodQueued
  <1>2. /\ Carrying' <=> Carrying
        /\ Awaited' = Awaited /\ UNCHANGED <<events, dropped>>
    BY DEF MethodQueued, Carrying, Awaited, BeforeDraw
  <1>3. e.code \notin NotRequeued
    BY <1>1 DEF MethodCode, NotRequeued
  <1>4. owed' \subseteq pendingEvents' \cup Awaited' \cup dropped'
                          \cup (IF Carrying' THEN events' ELSE {})
    BY <1>1, <1>2 DEF OwedInv, NothingOwedIsLost
  <1>5. Carrying' => renewed' \subseteq pendingEvents' \cup Awaited' \cup dropped'
    BY <1>1, <1>2 DEF OwedInv, NothingOwedIsLost
  <1>6. \A f \in owed' \cup renewed' : f.code \notin NotRequeued
    BY <1>1, <1>3 DEF OwedInv
  <1> QED BY <1>4, <1>5, <1>6 DEF OwedInv, NothingOwedIsLost

LEMMA OwedSession ==
    ASSUME TypeOK, BusyIffRunning, OwedInv, SessionStep \/ ExchangeFails
    PROVE  OwedInv'
  <1>1. CASE CheckRetry
    <2>1. CASE trigger = "Retry"
      <3>1. PrimaryEvents(trigger) = {}
        BY <2>1, PrimaryPersistent DEF Trigger
      <3>2. Awaited \subseteq Awaited' /\ ~Carrying /\ ~Carrying'
        BY <1>1, <3>1 DEF CheckRetry, Awaited, Carrying, runnerVars
      <3> QED BY <1>1, <3>2 DEF CheckRetry, OwedInv, NothingOwedIsLost, historyVars,
                 trackerVars, queueVars
    <2>2. CASE trigger # "Retry"
      BY <1>1, <2>2, OwedFrameKeeps DEF CheckRetry, OwedFrame, Carrying, BeforeDraw,
         runnerVars, trackerVars, queueVars, drawnVars, historyVars
    <2> QED BY <2>1, <2>2
  <1>2. CASE DrawEvents
    <2>1. trigger \in Trigger
      BY <1>2 DEF DrawEvents, BusyIffRunning, TypeOK, RunnerTypeOK
    <2>2. /\ pendingEvents \subseteq SessionEvents(trigger)
          /\ PrimaryEvents(trigger) \subseteq SessionEvents(trigger)
      BY DEF SessionEvents
    <2>3. ~Carrying /\ BeforeDraw /\ ~BeforeDraw' /\ UNCHANGED <<deferred, trigger>>
      BY <1>2 DEF DrawEvents, Carrying, BeforeDraw, runnerVars
    <2>4. Awaited \subseteq Awaited' \cup SessionEvents(trigger)
      BY <2>2, <2>3 DEF Awaited
    <2>5. owed' \subseteq Awaited' \cup dropped' \cup SessionEvents(trigger)
      BY <1>2, <2>2, <2>3, <2>4 DEF DrawEvents, OwedInv, NothingOwedIsLost, Persistent
    <2>6. SessionEvents(trigger) # {} => Carrying'
      BY <1>2 DEF DrawEvents, Carrying
    <2>7. events' = SessionEvents(trigger) /\ renewed' = {}
      BY <1>2 DEF DrawEvents, NextSessionEvents
    <2>8. \A e \in owed' \cup renewed' : e.code \notin NotRequeued
      BY <1>2 DEF DrawEvents, OwedInv, Persistent
    <2> QED BY <2>5, <2>6, <2>7, <2>8 DEF OwedInv, NothingOwedIsLost
  <1>3. CASE AcknowledgeSession
    <2>1. /\ Carrying /\ ~Carrying' /\ UNCHANGED <<pendingEvents, renewed, dropped>>
          /\ owed' = (owed \ events) \cup renewed
      BY <1>3 DEF AcknowledgeSession, Acknowledge, Carrying
    <2>2. Awaited' = Awaited
      BY <1>3 DEF AcknowledgeSession, Awaited, BeforeDraw, runnerVars
    <2> QED BY <2>1, <2>2 DEF OwedInv, NothingOwedIsLost
  <1>4. CASE RequeueSession
    <2>1. /\ Carrying /\ ~Carrying' /\ UNCHANGED <<owed, renewed, dropped, events>>
          /\ pendingEvents' = pendingEvents \cup
                                {e \in events : e.code \notin NotRequeued}
      BY <1>4 DEF RequeueSession, Requeue, Carrying, historyVars, drawnVars
    <2>2. Awaited' = Awaited
      BY <1>4 DEF RequeueSession, Awaited, BeforeDraw, runnerVars
    <2> QED BY <2>1, <2>2 DEF OwedInv, NothingOwedIsLost
  <1>5. CASE EndSession
    <2>1. ~Carrying /\ ~Carrying' /\ UNCHANGED <<owed, renewed, dropped, pendingEvents>>
      BY <1>5 DEF EndSession, Carrying, historyVars, trackerVars, queueVars
    <2>2. Awaited \subseteq Awaited'
      BY <1>5 DEF EndSession, GoIdle, RunDeferred, Awaited, BeforeDraw
    <2> QED BY <2>1, <2>2 DEF OwedInv, NothingOwedIsLost
  <1>6. CASE ~(CheckRetry \/ DrawEvents \/ AcknowledgeSession \/ RequeueSession
               \/ EndSession)
    <2> USE DEF OwedFrame, Carrying, BeforeDraw, runnerVars, trackerVars, queueVars,
                drawnVars, historyVars
    <2>1. CASE CancelPendingRetry \/ BuildFails \/ InformAccepted \/ AcsCloses
               \/ ResetRetry \/ OnFailure \/ ArmRetry \/ ExchangeFails
      <3>1. OwedFrame
        BY <2>1 DEF CancelPendingRetry, BuildFails, InformAccepted, AcsCloses,
           ResetRetry, OnFailure, ArmRetry, ExchangeFails
      <3> QED BY <3>1, OwedFrameKeeps
    <2>2. CASE DrawTransferCompletes
      BY <2>2, OwedFrameKeeps DEF DrawTransferCompletes, DrainTransferCompletes
    <2>3. CASE DrawDUStateChangeCompletes
      BY <2>3, OwedFrameKeeps
         DEF DrawDUStateChangeCompletes, DrainDUStateChangeCompletes
    <2>4. CASE DrawParameterLists
      BY <2>4, OwedFrameKeeps DEF DrawParameterLists, SessionParameterLists
    <2>5. ASSUME NEW k \in Keys, RecordAnswered(k) PROVE OwedInv'
      BY <2>5, OwedFrameKeeps DEF RecordAnswered
    <2>6. CASE RunAfterSession
      BY <2>6, OwedFrameKeeps DEF RunAfterSession
    <2> QED BY <1>6, <2>1, <2>2, <2>3, <2>4, <2>5, <2>6 DEF SessionStep
  <1> QED BY <1>1, <1>2, <1>3, <1>4, <1>5, <1>6

\* What a boot leaves on the tracker: its event, queued, or an open latch.
LEMMA BootEffectOwed ==
    ASSUME NEW k \in Keys, BootEffect(k), UNCHANGED <<deferred, trigger, pc>>
    PROVE  MethodQueued \/ OwedFrame
  <1>1. CASE QueueMethod("M Reboot", k) /\ Incur({[code |-> "M Reboot", key |-> k]})
    <2> DEFINE e == [code |-> "M Reboot", key |-> k]
    <2>1. e.code \in MethodCode
      BY DEF MethodCode
    <2>2. /\ pendingEvents' = pendingEvents \cup {e}
          /\ owed' = owed \cup {e} /\ renewed' = renewed \cup {e}
          /\ UNCHANGED <<events, dropped>>
      BY <1>1 DEF QueueMethod, QueueEvent, Incur, drawnVars
    <2> QED BY <2>1, <2>2 DEF MethodQueued
  <1>2. CASE ResetBootstrap /\ NothingIncurred
    BY <1>2 DEF ResetBootstrap, NothingIncurred, OwedFrame, queueVars, drawnVars,
       Carrying, BeforeDraw
  <1> QED BY <1>1, <1>2 DEF BootEffect

LEMMA OwedOther ==
    ASSUME TypeOK, BusyIffRunning, OwedInv, Next, ~(SessionStep \/ ExchangeFails)
    PROVE  OwedInv'
  <1> USE DEF OwedFrame, Carrying, BeforeDraw, runnerVars, sessionVars, trackerVars,
              queueVars, drawnVars, historyVars
  <1>1. ASSUME NEW k \in Keys, AcsRequests(k) PROVE OwedInv'
    <2>1. UNCHANGED <<deferred, trigger, pc>>
      BY <1>1 DEF AcsRequests
    <2>2. CASE AcceptReportJob(k)
      BY <2>1, <2>2, OwedFrameKeeps DEF AcceptReportJob
    <2>3. CASE AcceptDelayedBoot(k)
      BY <2>1, <2>3, OwedFrameKeeps DEF AcceptDelayedBoot
    <2>4. CASE AcceptImmediateBoot(k)
      BY <2>1, <2>4, BootEffectOwed, OwedFrameKeeps, MethodQueuedKeeps
         DEF AcceptImmediateBoot
    <2> QED BY <1>1, <2>2, <2>3, <2>4 DEF AcsRequests
  <1>2. ASSUME NEW k \in Keys, JobStep(k) PROVE OwedInv'
    <2>1. CASE ReportQueuesMethod(k)
      <3>1. MethodEvent(k).code \in MethodCode
        BY MethodEventType
      <3>2. MethodQueued
        BY <2>1, <3>1 DEF ReportQueuesMethod, QueueEvent, Incur, MethodQueued
      <3> QED BY <3>2, MethodQueuedKeeps
    <2>2. CASE ReportQueuesRecord(k)
      BY <2>2, OwedFrameKeeps DEF ReportQueuesRecord, QueueTransferComplete,
         QueueDUStateChangeComplete
    <2>3. CASE FirmwareGoesDark(k) \/ FirmwareComesOnline(k) \/ BootExpires(k)
               \/ BootClearsSlot(k) \/ BootResetsRetry(k)
      BY <2>3, OwedFrameKeeps DEF FirmwareGoesDark, setOffline, FirmwareComesOnline,
         setOnline, BootExpires, BootClearsSlot, BootResetsRetry
    <2>4. CASE BootTakesEffect(k)
      BY <2>4, BootEffectOwed, OwedFrameKeeps, MethodQueuedKeeps DEF BootTakesEffect
    <2>5. CASE JobRequests(k) \/ JobBoots(k)
      <3>1. JobTrigger(k) \in Trigger
        BY DEF JobTrigger, Trigger
      <3> QED BY <2>5, <3>1, RequestOwed DEF JobRequests, JobBoots, Trigger
    <2> QED BY <1>2, <2>1, <2>2, <2>3, <2>4, <2>5 DEF JobStep
  <1>3. ASSUME NEW i \in Timers, TimerStep(i) PROVE OwedInv'
    BY <1>3, RequestOwed, OwedFrameKeeps DEF TimerStep, TimerExpires,
       TimerClearsSlot, TimerRequests, Trigger
  <1>4. ASSUME NEW p \in Paths,
               \/ AcsSetsDeferred(p) \/ AcsSets(p) \/ ParameterChanges(p)
               \/ ObserverRequests(p) \/ ParameterRemoved(p)
        PROVE  OwedInv'
    BY <1>4, RequestOwed, OwedFrameKeeps DEF AcsSetsDeferred, AcsSets, ParameterChanges,
       RecordValueChange, ObserverRequests, ParameterRemoved, Trigger
  <1>5. CASE BootRequests \/ Tick \/ ConnectionRequested
    BY <1>5, RequestOwed, OwedFrameKeeps DEF BootRequests, Tick,
       ConnectionRequested, Trigger
  <1> QED BY <1>1, <1>2, <1>3, <1>4, <1>5 DEF Next

LEMMA OwedStep ==
    ASSUME TypeOK, BusyIffRunning, OwedInv, [Next]_vars
    PROVE  OwedInv'
  <1>1. CASE UNCHANGED vars
    BY <1>1, OwedFrameKeeps DEF OwedFrame, vars, runnerVars, sessionVars,
       trackerVars, queueVars, drawnVars, historyVars, Carrying, BeforeDraw
  <1> QED BY <1>1, OwedSession, OwedOther

\* docs/guides/scheduler.md "Nothing is lost by coalescing", request and
\* requeueUndelivered: every event the CPE owes is queued, carried by the
\* running session, the primary event of a session to come, or that of a value
\* change or DU change trigger another pushed out of the latch.
THEOREM CoalescingLosesNothing == Spec => []NothingOwedIsLost
  <1>1. Init => OwedInv
    BY DEF Init, OwedInv, NothingOwedIsLost, Carrying
  <1>2. TypeOK /\ BusyIffRunning /\ OwedInv /\ [Next]_vars => OwedInv'
    BY OwedStep
  <1>3. OwedInv => NothingOwedIsLost
    BY DEF OwedInv
  <1> QED BY <1>1, <1>2, <1>3, TypeCorrect, PTL DEF Spec

-----------------------------------------------------------------------------
(* No record of a transfer or of a DU change is lost *)

\* A slot of pendingScheduledCancels holds a request of its own kind, and only
\* boots pass through the stages of a fired boot one-shot.
JobsInv ==
    /\ \A k \in Keys : jobs[k] \in {"fired", "effect"} => Kind[k] \in BootKind
    /\ \A b \in BootKind : slot[b] \in Keys => Kind[slot[b]] = b

Reported(k) ==
    /\ Kind[k] \notin BootKind
    /\ jobs[k] \in {"request", "offline", "retry", "boot", "done"}

Kept == pendingTransferCompletes \cup pendingDUStateCompletes \cup delivered \cup Held

\* RecordsConserved, strengthened: the session sends all it holds, so what it
\* holds at its end the ACS has answered.
RecordsInv ==
    /\ \A k \in Keys : Reported(k) => k \in Kept
    /\ delivered \subseteq acked
    /\ pc = "inform" => transferCompletes \cup duStateCompletes \subseteq unsent
    /\ pc = "rpcs" => transferCompletes \cup duStateCompletes \subseteq acked \cup unsent
    /\ pc \in {"drain", "afterOk", "ack"} =>
          transferCompletes \cup duStateCompletes \subseteq acked

recordVars == <<pendingTransferCompletes, pendingDUStateCompletes,
                transferCompletes, duStateCompletes, delivered, acked, unsent>>

\* The records stay where they are and the session does not begin or end.
RecordsFrame == UNCHANGED recordVars /\ (pc' = pc \/ (~Carrying /\ ~Carrying'))

LEMMA RecordsFrameKeeps ==
    ASSUME RecordsInv, RecordsFrame,
           \A k \in Keys : Reported(k)' => Reported(k)
    PROVE  RecordsInv'
  <1>1. Kept' = Kept
    BY DEF RecordsFrame, recordVars, Kept, Held, Carrying
  <1>2. (\A k \in Keys : Reported(k) => k \in Kept)'
    BY <1>1 DEF RecordsInv
  <1>3. /\ delivered' \subseteq acked'
        /\ pc' = "inform" =>
             transferCompletes' \cup duStateCompletes' \subseteq unsent'
        /\ pc' = "rpcs" =>
             transferCompletes' \cup duStateCompletes' \subseteq acked' \cup unsent'
        /\ pc' \in {"drain", "afterOk", "ack"} =>
             transferCompletes' \cup duStateCompletes' \subseteq acked'
    BY DEF RecordsFrame, recordVars, RecordsInv, Carrying
  <1> QED BY <1>2, <1>3 DEF RecordsInv

LEMMA RequestRecords ==
    ASSUME BusyIffRunning, NEW t \in Trigger, RequestSession(t),
           UNCHANGED <<unsent, delivered, acked>>
    PROVE  RecordsFrame
  <1>1. CASE Defer(t)
    <2>1. pc' = pc /\ UNCHANGED <<transferCompletes, duStateCompletes>>
      BY <1>1 DEF Defer, QueuePeriodic, QueueEvent, trackerVars, drawnVars
    <2>2. UNCHANGED <<pendingTransferCompletes, pendingDUStateCompletes>>
      BY <1>1 DEF Defer, QueuePeriodic, QueueEvent, trackerVars, queueVars
    <2> QED BY <2>1, <2>2 DEF RecordsFrame, recordVars, Carrying
  <1>2. CASE StartSession(t)
    BY <1>2 DEF StartSession, RunNow, BusyIffRunning, trackerVars, queueVars,
       drawnVars, RecordsFrame, recordVars, Carrying
  <1> QED BY <1>1, <1>2 DEF RequestSession

LEMMA SessionKeepsJobs ==
    ASSUME SessionStep \/ ExchangeFails
    PROVE  UNCHANGED <<jobs, slot>>
  <1> USE DEF sourceVars
  <1>1. CASE CheckRetry \/ CancelPendingRetry \/ DrawEvents \/ DrawTransferCompletes
             \/ DrawDUStateChangeCompletes \/ DrawParameterLists \/ BuildFails
    BY <1>1 DEF CheckRetry, CancelPendingRetry, DrawEvents, DrawTransferCompletes,
       DrawDUStateChangeCompletes, DrawParameterLists, BuildFails
  <1>2. ASSUME NEW k \in Keys, RecordAnswered(k) PROVE UNCHANGED <<jobs, slot>>
    BY <1>2 DEF RecordAnswered
  <1>3. CASE InformAccepted \/ AcsCloses \/ RunAfterSession \/ AcknowledgeSession
             \/ ResetRetry \/ RequeueSession \/ OnFailure \/ ArmRetry \/ EndSession
             \/ ExchangeFails
    BY <1>3 DEF InformAccepted, AcsCloses, RunAfterSession, AcknowledgeSession,
       ResetRetry, RequeueSession, OnFailure, ArmRetry, EndSession, ExchangeFails
  <1> QED BY <1>1, <1>2, <1>3 DEF SessionStep

LEMMA RecordsSession ==
    ASSUME TypeOK, RecordsInv, SessionStep \/ ExchangeFails
    PROVE  RecordsInv'
  <1> USE DEF Carrying, recordVars, trackerVars, queueVars, drawnVars, historyVars,
              sourceVars
  <1>1. \A k \in Keys : Reported(k)' <=> Reported(k)
    BY SessionKeepsJobs DEF Reported
  <1>2. CASE CheckRetry \/ CancelPendingRetry \/ ResetRetry \/ OnFailure
             \/ ArmRetry \/ EndSession
    <2>1. RecordsFrame
      BY <1>2 DEF CheckRetry, CancelPendingRetry, ResetRetry, OnFailure, ArmRetry,
         EndSession, RecordsFrame
    <2> QED BY <1>1, <2>1, RecordsFrameKeeps
  <1>3. ASSUME Kept \subseteq Kept'
        PROVE  (\A k \in Keys : Reported(k) => k \in Kept)'
    BY <1>1, <1>3 DEF RecordsInv
  <1>4. CASE DrawEvents
    <2>1. Kept \subseteq Kept'
      BY <1>4 DEF DrawEvents, NextSessionEvents, Kept, Held
    <2> QED BY <1>3, <1>4, <2>1 DEF DrawEvents, NextSessionEvents, RecordsInv
  <1>5. CASE DrawTransferCompletes
    <2>1. Kept \subseteq Kept'
      BY <1>5 DEF DrawTransferCompletes, DrainTransferCompletes, Kept, Held
    <2> QED BY <1>3, <1>5, <2>1
            DEF DrawTransferCompletes, DrainTransferCompletes, RecordsInv
  <1>6. CASE DrawDUStateChangeCompletes
    <2>1. Kept \subseteq Kept'
      BY <1>6 DEF DrawDUStateChangeCompletes, DrainDUStateChangeCompletes, Kept, Held
    <2> QED BY <1>3, <1>6, <2>1
            DEF DrawDUStateChangeCompletes, DrainDUStateChangeCompletes, RecordsInv
  <1>7. CASE DrawParameterLists
    <2>1. Kept \subseteq Kept'
      BY <1>7 DEF DrawParameterLists, SessionParameterLists, Kept, Held
    <2> QED BY <1>3, <1>7, <2>1
            DEF DrawParameterLists, SessionParameterLists, RecordsInv
  <1>8. CASE BuildFails \/ InformAccepted \/ AcsCloses \/ ExchangeFails
    <2>1. Kept \subseteq Kept'
      BY <1>8 DEF BuildFails, InformAccepted, AcsCloses, ExchangeFails, Kept, Held
    <2> QED BY <1>3, <1>8, <2>1
            DEF BuildFails, InformAccepted, AcsCloses, ExchangeFails, RecordsInv
  <1>9. ASSUME NEW k \in Keys, RecordAnswered(k) PROVE RecordsInv'
    <2>1. Kept \subseteq Kept'
      BY <1>9 DEF RecordAnswered, Kept, Held
    <2> QED BY <1>3, <1>9, <2>1 DEF RecordAnswered, RecordsInv
  <1>10. CASE RunAfterSession
    <2>1. Kept \subseteq Kept'
      BY <1>10 DEF RunAfterSession, Kept, Held
    <2> QED BY <1>3, <1>10, <2>1 DEF RunAfterSession, RecordsInv
  <1>11. CASE AcknowledgeSession
    <2>1. Kept \subseteq Kept'
      BY <1>11 DEF AcknowledgeSession, Acknowledge, Kept, Held
    <2> QED BY <1>3, <1>11, <2>1 DEF AcknowledgeSession, Acknowledge, RecordsInv
  <1>12. CASE RequeueSession
    <2>1. Kept \subseteq Kept'
      BY <1>12 DEF RequeueSession, Requeue, Kept, Held
    <2> QED BY <1>3, <1>12, <2>1 DEF RequeueSession, Requeue, RecordsInv
  <1> QED BY <1>2, <1>4, <1>5, <1>6, <1>7, <1>8, <1>9, <1>10, <1>11, <1>12
          DEF SessionStep

LEMMA BootEffectRecords ==
    ASSUME NEW k \in Keys, BootEffect(k)
    PROVE  UNCHANGED <<pendingTransferCompletes, pendingDUStateCompletes,
                       transferCompletes, duStateCompletes>>
  BY DEF BootEffect, QueueMethod, QueueEvent, ResetBootstrap, queueVars, drawnVars

LEMMA JobsStep ==
    ASSUME TypeOK, JobsInv, Next
    PROVE  JobsInv'
  <1> USE ConstantsAssumption DEF JobsInv, TypeOK, sourceVars
  <1>1. CASE SessionStep \/ ExchangeFails
    BY <1>1, SessionKeepsJobs
  <1>2. ASSUME NEW k \in Keys, AcsRequests(k) PROVE JobsInv'
    <2>1. CASE AcceptReportJob(k)
      BY <2>1 DEF AcceptReportJob
    <2>2. CASE AcceptDelayedBoot(k)
      BY <2>2, NoKeyAssumption DEF AcceptDelayedBoot
    <2>3. CASE AcceptImmediateBoot(k)
      BY <2>3 DEF AcceptImmediateBoot
    <2> QED BY <1>2, <2>1, <2>2, <2>3 DEF AcsRequests
  <1>3. ASSUME NEW k \in Keys, JobStep(k) PROVE JobsInv'
    <2>1. CASE ReportQueuesMethod(k)  BY <2>1 DEF ReportQueuesMethod
    <2>2. CASE ReportQueuesRecord(k)  BY <2>2 DEF ReportQueuesRecord
    <2>3. CASE BootExpires(k)         BY <2>3 DEF BootExpires
    <2>4. CASE BootClearsSlot(k)
      BY <2>4, NoKeyAssumption DEF BootClearsSlot
    <2>5. CASE BootTakesEffect(k)     BY <2>5 DEF BootTakesEffect
    <2>6. CASE BootResetsRetry(k)     BY <2>6 DEF BootResetsRetry
    <2>7. CASE JobRequests(k)         BY <2>7 DEF JobRequests
    <2>8. CASE JobBoots(k)            BY <2>8 DEF JobBoots
    <2>9. CASE FirmwareGoesDark(k)    BY <2>9 DEF FirmwareGoesDark
    <2>10. CASE FirmwareComesOnline(k) BY <2>10 DEF FirmwareComesOnline
    <2> QED BY <1>3, <2>1, <2>2, <2>3, <2>4, <2>5, <2>6, <2>7, <2>8, <2>9, <2>10
            DEF JobStep
  <1>4. ASSUME NEW i \in Timers, TimerStep(i) PROVE JobsInv'
    BY <1>4 DEF TimerStep, TimerExpires, TimerClearsSlot, TimerRequests
  <1>5. ASSUME NEW p \in Paths,
               \/ AcsSetsDeferred(p) \/ AcsSets(p) \/ ParameterChanges(p)
               \/ ObserverRequests(p) \/ ParameterRemoved(p)
        PROVE  JobsInv'
    BY <1>5 DEF AcsSetsDeferred, AcsSets, ParameterChanges, ObserverRequests, ParameterRemoved
  <1>6. CASE BootRequests \/ Tick \/ ConnectionRequested
    BY <1>6 DEF BootRequests, Tick, ConnectionRequested
  <1> QED BY <1>1, <1>2, <1>3, <1>4, <1>5, <1>6 DEF Next

LEMMA RecordsOther ==
    ASSUME TypeOK, BusyIffRunning, JobsInv, RecordsInv, Next,
           ~(SessionStep \/ ExchangeFails)
    PROVE  RecordsInv'
  <1> USE DEF Carrying, recordVars, trackerVars, queueVars, drawnVars, sessionVars,
              sourceVars, historyVars
  <1>1. ASSUME NEW k \in Keys, AcsRequests(k) PROVE RecordsInv'
    <2>1. UNCHANGED <<pc, unsent, acked, delivered>>
      BY <1>1 DEF AcsRequests
    <2>2. RecordsFrame
      BY <1>1, <2>1, BootEffectRecords DEF AcsRequests, AcceptReportJob,
         AcceptDelayedBoot, AcceptImmediateBoot, RecordsFrame
    <2>3. \A j \in Keys : Reported(j)' => Reported(j)
      <3>1. CASE AcceptReportJob(k)
        BY <3>1 DEF AcceptReportJob, Reported, TypeOK
      <3>2. CASE AcceptDelayedBoot(k)
        BY <3>2 DEF AcceptDelayedBoot, Reported, TypeOK, JobsInv
      <3>3. CASE AcceptImmediateBoot(k)
        BY <3>3 DEF AcceptImmediateBoot, Reported, TypeOK
      <3> QED BY <1>1, <3>1, <3>2, <3>3 DEF AcsRequests
    <2> QED BY <2>2, <2>3, RecordsFrameKeeps
  <1>2. ASSUME NEW k \in Keys, JobStep(k) PROVE RecordsInv'
    <2>1. UNCHANGED <<unsent, acked, delivered>>
      BY <1>2 DEF JobStep
    <2>2. CASE ReportQueuesRecord(k)
      <3>1. Kept \subseteq Kept' /\ k \in Kept' /\ UNCHANGED pc
            /\ UNCHANGED <<transferCompletes, duStateCompletes>>
        BY <2>1, <2>2 DEF ReportQueuesRecord, QueueTransferComplete,
           QueueDUStateChangeComplete, Kept, Held, Carrying
      <3>2. \A j \in Keys : Reported(j)' => Reported(j) \/ j = k
        BY <2>2 DEF ReportQueuesRecord, Reported, TypeOK
      <3>3. (\A j \in Keys : Reported(j) => j \in Kept)'
        BY <3>1, <3>2 DEF RecordsInv
      <3> QED BY <2>1, <3>1, <3>3 DEF RecordsInv
    <2>3. CASE ~ReportQueuesRecord(k)
      <3>1. RecordsFrame
        <4>1. CASE JobRequests(k) \/ JobBoots(k)
          <5>1. JobTrigger(k) \in Trigger
            BY DEF JobTrigger, Trigger
          <5> QED BY <2>1, <4>1, <5>1, RequestRecords DEF JobRequests, JobBoots, Trigger
        <4>2. CASE ~(JobRequests(k) \/ JobBoots(k))
          BY <1>2, <2>1, <2>3, <4>2, BootEffectRecords DEF JobStep,
             ReportQueuesMethod, QueueEvent, FirmwareGoesDark,
             FirmwareComesOnline, BootExpires, BootClearsSlot,
             BootTakesEffect, BootResetsRetry, RecordsFrame
        <4> QED BY <4>1, <4>2
      <3>2. \A j \in Keys : Reported(j)' => Reported(j)
        <4>1. CASE BootTakesEffect(k)
          BY <4>1 DEF BootTakesEffect, Reported, JobsInv, TypeOK
        <4>2. CASE ~BootTakesEffect(k)
          BY <1>2, <2>3, <4>2 DEF JobStep, ReportQueuesMethod, FirmwareGoesDark,
             FirmwareComesOnline, BootExpires, BootClearsSlot, BootResetsRetry,
             JobRequests, JobBoots, Reported, TypeOK
        <4> QED BY <4>1, <4>2
      <3> QED BY <3>1, <3>2, RecordsFrameKeeps
    <2> QED BY <2>2, <2>3
  <1>3. ASSUME UNCHANGED jobs, RecordsFrame PROVE RecordsInv'
    BY <1>3, RecordsFrameKeeps DEF Reported
  <1>4. ASSUME NEW i \in Timers, TimerStep(i) PROVE RecordsInv'
    <2>1. RecordsFrame
      BY <1>4, RequestRecords DEF TimerStep, TimerExpires, TimerClearsSlot,
         TimerRequests, Trigger, RecordsFrame
    <2> QED BY <1>3, <1>4, <2>1 DEF TimerStep, TimerExpires, TimerClearsSlot,
               TimerRequests
  <1>5. ASSUME NEW p \in Paths,
               \/ AcsSetsDeferred(p) \/ AcsSets(p) \/ ParameterChanges(p)
               \/ ObserverRequests(p) \/ ParameterRemoved(p)
        PROVE  RecordsInv'
    <2>1. RecordsFrame
      BY <1>5, RequestRecords DEF AcsSetsDeferred, AcsSets, ParameterChanges,
         RecordValueChange, ObserverRequests, ParameterRemoved, Trigger, RecordsFrame
    <2> QED BY <1>3, <1>5, <2>1 DEF AcsSetsDeferred, AcsSets, ParameterChanges,
               ObserverRequests, ParameterRemoved
  <1>6. CASE BootRequests \/ Tick \/ ConnectionRequested
    <2>1. RecordsFrame
      BY <1>6, RequestRecords DEF BootRequests, Tick, ConnectionRequested, Trigger,
         RecordsFrame
    <2> QED BY <1>3, <1>6, <2>1 DEF BootRequests, Tick, ConnectionRequested
  <1> QED BY <1>1, <1>2, <1>4, <1>5, <1>6 DEF Next

LEMMA RecordsStep ==
    ASSUME TypeOK, BusyIffRunning, JobsInv, RecordsInv, [Next]_vars
    PROVE  JobsInv' /\ RecordsInv'
  <1>1. CASE UNCHANGED vars
    <2>1. UNCHANGED <<jobs, slot>> /\ RecordsFrame
      BY <1>1 DEF vars, sourceVars, sessionVars, trackerVars, queueVars, drawnVars,
         historyVars, RecordsFrame, recordVars, Carrying
    <2> QED BY <2>1, RecordsFrameKeeps DEF Reported, JobsInv
  <1> QED BY <1>1, JobsStep, RecordsSession, RecordsOther

\* runsession.go, the drains, re-queues and Acknowledge: the completion record
\* of an accepted transfer or DU change is pending, held by the running
\* session, or was answered by the ACS in a session that ended well.
THEOREM RecordsKept == Spec => []RecordsConserved
  <1>1. Init => JobsInv /\ RecordsInv
    BY NoKeyAssumption DEF Init, JobsInv, RecordsInv, Reported
  <1>2. TypeOK /\ BusyIffRunning /\ JobsInv /\ RecordsInv /\ [Next]_vars
          => (JobsInv /\ RecordsInv)'
    BY RecordsStep
  <1>3. RecordsInv => RecordsConserved
    BY DEF RecordsInv, RecordsConserved, Reported, Kept
  <1> QED BY <1>1, <1>2, <1>3, TypeCorrect, PTL DEF Spec
=============================================================================
