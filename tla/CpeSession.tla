----------------------------- MODULE CpeSession -----------------------------
(***************************************************************************)
(* One simulated CWMP CPE: every source of sessions of cmd/cpe-sim/main.go *)
(* around the session runner, RunSession (internal/cwmp/runsession.go),    *)
(* Session.Run (internal/cwmp/session.go) and the retry policy.            *)
(*                                                                         *)
(* The goroutine that runs a session moves through pc; a step is what it   *)
(* does between two points where another goroutine can be seen, that is,   *)
(* one call under a lock or one exchange with the ACS.  Around it run the  *)
(* fired one-shots of ACS requests (jobs), the retry timers, ticks,        *)
(* connection requests and tree observers, all funnelled through Request.  *)
(*                                                                         *)
(* The ACS answers or fails an exchange at will; what it asks for in the   *)
(* drain loop is one request per command key.  The handlers that leave     *)
(* this state alone (Get*, AddObject, SetParameterAttributes...) and the   *)
(* faults a handler answers are exchanges that change nothing.             *)
(***************************************************************************)
EXTENDS EventTracker, SessionRunner

CONSTANTS
    Kind,           \* command key -> the RPC that carries it
    ActivePaths,    \* paths with Notification = 2
    Delayed,        \* boots of a kind with a delay in eventSchedule
    Timers,         \* identities of retry one-shots (bounds those alive)
    MaxRetryCount,  \* where the retry count stops being told apart
    Scenarios,      \* what the ACS asks, and how often what else may happen
    Recurring       \* what may happen without limit

\* A firmware image is a Download whose scheduler takes the device dark.
JobKind == {"Download", "Firmware", "Upload", "ChangeDUState", "Reboot",
            "FactoryReset"}
BootKind == {"Reboot", "FactoryReset"}
Resource == {"boot", "tick", "connection", "write", "failure", "remove"}
NoTimer == "no timer"

ASSUME ConstantsAssumption ==
    /\ Kind \in [Keys -> JobKind]
    /\ ActivePaths \subseteq Paths
    /\ Delayed \subseteq Keys
    /\ NoTimer \notin Timers
    /\ MaxRetryCount \in Nat \ {0}
    /\ \A s \in Scenarios :
          /\ s.asks \subseteq Keys /\ s.budget \in [Resource -> Nat]
          /\ \A j, k \in s.asks : Kind[j] = Kind[k] =>
                /\ j \in Delayed <=> k \in Delayed
                /\ Kind[j] = "Firmware" => j = k
    /\ Recurring \subseteq Resource

VARIABLES
    pc,             \* where the session goroutine stands in runOne
    unsent,         \* records of this session the ACS has not answered yet
    retryCount,     \* RetryState.count
    timers,         \* retry one-shots
    cancelRetry,    \* the one-shot r.cancelRetry would cancel
    tickRuns,       \* the scheduler's tick goroutine runs the session itself
    jobs,           \* command key -> progress of the request it came with
    slot,           \* pendingScheduledCancels: reboot and factoryReset
    vcRequests,     \* observer goroutines about to request a ValueChange
    afterSession,   \* AfterSession.queue: paths a deferred SPV will write
    missing,        \* paths no longer in the tree
    left            \* what the scenario's budget still allows

\* History variables: they record what happened and guard nothing.
VARIABLES
    owed,           \* events the CPE must still deliver in a session that ends well
    renewed,        \* those of them incurred since the running session drew its events
    dropped,        \* those of them whose trigger the latch pushed out with no queue for it
    acked,          \* records whose response the CPE has validated
    delivered,      \* records whose session ended well
    resetSince      \* a factory reset happened since the events were drawn

historyVars == <<owed, renewed, dropped, acked, delivered, resetSince>>
sessionVars == <<pc, unsent, retryCount, timers, cancelRetry>>
sourceVars == <<tickRuns, jobs, slot, vcRequests, afterSession, missing, left>>
vars == <<trackerVars, runnerVars, sessionVars, sourceVars, historyVars>>

-----------------------------------------------------------------------------
Progress == {"idle", "start", "cancel", "events", "transfers", "dustates",
             "lists", "inform", "rpcs", "drain", "afterOk", "afterErr", "ack",
             "reset", "requeue", "fail", "arm", "done"}

\* A request the ACS never makes, one it has not made yet, and then its job.
JobState == {"never", "none", "waiting", "record", "request", "dark", "darkRecord",
             "offline", "fired", "effect", "retry", "boot", "done"}

\* The running session has not drawn its events yet.
BeforeDraw == pc \in {"start", "cancel", "events"}

\* The session holds the events it drew, neither delivered nor re-queued.
Carrying == pc \in {"transfers", "dustates", "lists", "inform", "rpcs", "drain",
                    "afterOk", "afterErr", "ack", "requeue"}

Spend(r) ==
    \/ r \in Recurring /\ UNCHANGED left
    \/ r \notin Recurring /\ left[r] > 0 /\ left' = [left EXCEPT ![r] = @ - 1]

\* TR-069 Table 7: the events that outlive a failed session on their own.
Persistent(es) == {e \in es : e.code \notin NotRequeued}

Incur(es) ==
    /\ owed' = owed \cup es
    /\ renewed' = renewed \cup es
    /\ UNCHANGED dropped

NothingIncurred == UNCHANGED <<owed, renewed, dropped>>

-----------------------------------------------------------------------------
(* sessionRunner.request *)

\* Fault: a tick that loses the latch is forgotten.
DeferForgetsTick(t) ==
    /\ Latch(t)
    /\ UNCHANGED <<trackerVars, pc>>

\* A latched request; a periodic tick that loses the latch queues its event.
Defer(t) ==
    /\ Latch(t)
    /\ IF Displaced(t) = "Periodic" THEN QueuePeriodic ELSE UNCHANGED trackerVars
    /\ UNCHANGED pc

StartSession(t) ==
    /\ RunNow(t)
    /\ pc' = "start"
    /\ UNCHANGED trackerVars

\* A trigger the latch pushes out, or keeps out, whose event it queues nowhere.
DroppedTrigger(t) ==
    IF Displaced(t) \in {"ValueChange", "DUStateChangeComplete"} /\ deferred' # Displaced(t)
    THEN PrimaryEvents(Displaced(t)) ELSE {}

\* Every request incurs the event that it wants a session to announce.
RequestSession(t) ==
    /\ \/ Defer(t) /\ dropped' = (dropped \ PrimaryEvents(t)) \cup DroppedTrigger(t)
       \/ StartSession(t) /\ dropped' = dropped \ PrimaryEvents(t)
    /\ owed' = owed \cup Persistent(PrimaryEvents(t))
    /\ renewed' = renewed \cup Persistent(PrimaryEvents(t))

-----------------------------------------------------------------------------
(* runOne and RunSession *)

CheckRetry ==
    /\ pc = "start"
    /\ pc' = IF trigger = "Retry" /\ retryCount = 0 THEN "done" ELSE "cancel"
    /\ UNCHANGED <<trackerVars, runnerVars, unsent, retryCount, timers,
                   cancelRetry, sourceVars, historyVars>>

\* A one-shot past its cancel check no longer hears the cancel.
CancelPendingRetry ==
    /\ pc = "cancel"
    /\ pc' = "events"
    /\ timers' = [i \in Timers |-> IF i = cancelRetry /\ timers[i] = "armed"
                                   THEN "off" ELSE timers[i]]
    /\ cancelRetry' = NoTimer
    /\ UNCHANGED <<trackerVars, runnerVars, unsent, retryCount, sourceVars,
                   historyVars>>

\* No events is an error before any record is drained.
DrawEvents ==
    /\ pc = "events"
    /\ NextSessionEvents(trigger)
    /\ pc' = IF SessionEvents(trigger) = {} THEN "fail" ELSE "transfers"
    /\ owed' = owed \cup Persistent(SessionEvents(trigger))
    /\ renewed' = {}
    /\ dropped' = dropped \ SessionEvents(trigger)
    /\ resetSince' = FALSE
    /\ UNCHANGED <<runnerVars, unsent, retryCount, timers, cancelRetry,
                   sourceVars, acked, delivered>>

DrawTransferCompletes ==
    /\ pc = "transfers"
    /\ DrainTransferCompletes
    /\ pc' = "dustates"
    /\ UNCHANGED <<runnerVars, unsent, retryCount, timers, cancelRetry,
                   sourceVars, historyVars>>

DrawDUStateChangeCompletes ==
    /\ pc = "dustates"
    /\ DrainDUStateChangeCompletes
    /\ pc' = "lists"
    /\ UNCHANGED <<runnerVars, unsent, retryCount, timers, cancelRetry,
                   sourceVars, historyVars>>

DrawParameterLists ==
    /\ pc = "lists"
    /\ SessionParameterLists
    /\ unsent' = transferCompletes \cup duStateCompletes
    /\ pc' = "inform"
    /\ UNCHANGED <<runnerVars, retryCount, timers, cancelRetry, sourceVars,
                   historyVars>>

\* Builder.Build reads every listed path; one the tree no longer has fails
\* the session before anything is sent.
BuildFails ==
    /\ pc = "inform"
    /\ InformPaths \cap missing # {}
    /\ pc' = "afterErr"
    /\ UNCHANGED <<trackerVars, runnerVars, unsent, retryCount, timers,
                   cancelRetry, sourceVars, historyVars>>

InformAccepted ==
    /\ pc = "inform"
    /\ InformPaths \cap missing = {}
    /\ pc' = IF unsent = {} THEN "drain" ELSE "rpcs"
    /\ UNCHANGED <<trackerVars, runnerVars, unsent, retryCount, timers,
                   cancelRetry, sourceVars, historyVars>>

\* TransferCompletes go out before DUStateChangeCompletes.
RecordAnswered(k) ==
    /\ pc = "rpcs"
    /\ k \in unsent
    /\ k \in transferCompletes \/ unsent \cap transferCompletes = {}
    /\ unsent' = unsent \ {k}
    /\ pc' = IF unsent = {k} THEN "drain" ELSE "rpcs"
    /\ acked' = acked \cup {k}
    /\ UNCHANGED <<trackerVars, runnerVars, retryCount, timers, cancelRetry,
                   sourceVars, owed, renewed, dropped, delivered, resetSince>>

\* A transport error, an unexpected close, an ACS fault or a malformed
\* response in any exchange ends the session.
ExchangeFails ==
    /\ pc \in {"inform", "rpcs", "drain"}
    /\ Spend("failure")
    /\ pc' = "afterErr"
    /\ UNCHANGED <<trackerVars, runnerVars, unsent, retryCount, timers,
                   cancelRetry, tickRuns, jobs, slot, vcRequests, afterSession,
                   missing, historyVars>>

AcsCloses ==
    /\ pc = "drain"
    /\ pc' = "afterOk"
    /\ UNCHANGED <<trackerVars, runnerVars, unsent, retryCount, timers,
                   cancelRetry, sourceVars, historyVars>>

\* Fault: the deferred writes wait for a session that ends well.
RunAfterGoodSession ==
    /\ pc \in {"afterOk", "afterErr"}
    /\ pc' = IF pc = "afterOk" THEN "ack" ELSE "requeue"
    /\ afterSession' = IF pc = "afterOk" THEN {} ELSE afterSession
    /\ UNCHANGED <<trackerVars, runnerVars, unsent, retryCount, timers,
                   cancelRetry, tickRuns, jobs, slot, vcRequests, missing, left, historyVars>>

\* AfterSession.Run, whatever the session's outcome: the deferred writes land
\* and the SPV hook records them.  SetBatch runs no tree observer, so they
\* request no session of their own.
RunAfterSession ==
    /\ pc \in {"afterOk", "afterErr"}
    /\ pc' = IF pc = "afterOk" THEN "ack" ELSE "requeue"
    /\ pendingValueChanges' = pendingValueChanges \cup (afterSession \ missing)
    /\ afterSession' = {}
    /\ UNCHANGED <<bootstrapVars, pendingEvents, pendingTransferCompletes,
                   pendingDUStateCompletes, drawnVars, runnerVars, unsent,
                   retryCount, timers, cancelRetry, tickRuns, jobs, slot,
                   vcRequests, missing, left, historyVars>>

AcknowledgeSession ==
    /\ pc = "ack"
    /\ Acknowledge
    /\ pc' = "reset"
    /\ delivered' = delivered \cup transferCompletes \cup duStateCompletes
    /\ owed' = (owed \ events) \cup renewed
    /\ UNCHANGED <<runnerVars, unsent, retryCount, timers, cancelRetry,
                   sourceVars, renewed, dropped, acked, resetSince>>

ResetRetry ==
    /\ pc = "reset"
    /\ retryCount' = 0
    /\ pc' = "done"
    /\ UNCHANGED <<trackerVars, runnerVars, unsent, timers, cancelRetry,
                   sourceVars, historyVars>>

RequeueSession ==
    /\ pc = "requeue"
    /\ Requeue
    /\ pc' = "fail"
    /\ UNCHANGED <<runnerVars, unsent, retryCount, timers, cancelRetry,
                   sourceVars, historyVars>>

\* The count itself is unbounded in the code; only zero is told from the rest.
OnFailure ==
    /\ pc = "fail"
    /\ retryCount' = IF retryCount < MaxRetryCount THEN retryCount + 1
                                                  ELSE retryCount
    /\ pc' = "arm"
    /\ UNCHANGED <<trackerVars, runnerVars, unsent, timers, cancelRetry,
                   sourceVars, historyVars>>

ArmRetry ==
    /\ pc = "arm"
    /\ \E i \in Timers :
          /\ timers[i] = "off"
          /\ timers' = [timers EXCEPT ![i] = "armed"]
          /\ cancelRetry' = i
    /\ pc' = "done"
    /\ UNCHANGED <<trackerVars, runnerVars, unsent, retryCount, sourceVars,
                   historyVars>>

EndSession ==
    /\ pc = "done"
    /\ \/ GoIdle /\ pc' = "idle" /\ tickRuns' = FALSE
       \/ RunDeferred /\ pc' = "start" /\ UNCHANGED tickRuns
    /\ UNCHANGED <<trackerVars, unsent, retryCount, timers, cancelRetry, jobs,
                   slot, vcRequests, afterSession, missing, left,
                   historyVars>>

\* What the session goroutine does by itself once the ACS cooperates.
SessionStep ==
    \/ CheckRetry \/ CancelPendingRetry \/ DrawEvents
    \/ DrawTransferCompletes \/ DrawDUStateChangeCompletes \/ DrawParameterLists
    \/ BuildFails \/ InformAccepted \/ (\E k \in Keys : RecordAnswered(k))
    \/ AcsCloses \/ RunAfterSession \/ AcknowledgeSession \/ ResetRetry
    \/ RequeueSession \/ OnFailure \/ ArmRetry \/ EndSession

-----------------------------------------------------------------------------
(* The retry one-shot: past the cancel check, slot cleared, session requested *)

TimerExpires(i) ==
    /\ timers[i] = "armed"
    /\ timers' = [timers EXCEPT ![i] = "fired"]
    /\ UNCHANGED <<trackerVars, runnerVars, pc, unsent, retryCount, cancelRetry,
                   sourceVars, historyVars>>

TimerClearsSlot(i) ==
    /\ timers[i] = "fired"
    /\ timers' = [timers EXCEPT ![i] = "cleared"]
    /\ cancelRetry' = NoTimer
    /\ UNCHANGED <<trackerVars, runnerVars, pc, unsent, retryCount, sourceVars,
                   historyVars>>

TimerRequests(i) ==
    /\ timers[i] = "cleared"
    /\ timers' = [timers EXCEPT ![i] = "off"]
    /\ RequestSession("Retry")
    /\ UNCHANGED <<unsent, retryCount, cancelRetry, sourceVars, acked,
                   delivered, resetSince>>

TimerStep(i) == TimerExpires(i) \/ TimerClearsSlot(i) \/ TimerRequests(i)

-----------------------------------------------------------------------------
(* Requests the ACS makes in the drain loop *)

\* Download, Upload and ChangeDUState start a one-shot or a goroutine.
AcceptReportJob(k) ==
    /\ Kind[k] \notin BootKind
    /\ jobs' = [jobs EXCEPT ![k] = "waiting"]
    /\ UNCHANGED <<slot, trackerVars, owed, renewed, dropped, resetSince>>

\* A delayed Reboot or FactoryReset supersedes the one its slot holds.
AcceptDelayedBoot(k) ==
    /\ Kind[k] \in BootKind /\ k \in Delayed
    /\ jobs' = [j \in Keys |->
                  IF j = k THEN "waiting"
                  ELSE IF j = slot[Kind[k]] /\ jobs[j] = "waiting" THEN "done"
                  ELSE jobs[j]]
    /\ slot' = [slot EXCEPT ![Kind[k]] = k]
    /\ UNCHANGED <<trackerVars, owed, renewed, dropped, resetSince>>

\* What a reboot or a factory reset leaves on the tracker.
BootEffect(k) ==
    \/ /\ Kind[k] = "Reboot"
       /\ QueueMethod("M Reboot", k)
       /\ Incur({[code |-> "M Reboot", key |-> k]})
       /\ UNCHANGED resetSince
    \/ /\ Kind[k] = "FactoryReset"
       /\ ResetBootstrap
       /\ resetSince' = TRUE
       /\ NothingIncurred

AcceptImmediateBoot(k) ==
    /\ Kind[k] \in BootKind /\ k \notin Delayed
    /\ BootEffect(k)
    /\ jobs' = [jobs EXCEPT ![k] = "done"]
    /\ UNCHANGED slot

AcsRequests(k) ==
    /\ pc = "drain"
    /\ jobs[k] = "none"
    /\ AcceptReportJob(k) \/ AcceptDelayedBoot(k) \/ AcceptImmediateBoot(k)
    /\ UNCHANGED <<runnerVars, sessionVars, tickRuns, vcRequests, afterSession,
                   missing, left, acked, delivered>>

\* SetParameterValues on a deferred parameter: accepted now, applied later.
AcsSetsDeferred(p) ==
    /\ pc = "drain"
    /\ p \notin missing
    /\ Spend("write")
    /\ afterSession' = afterSession \cup {p}
    /\ UNCHANGED <<trackerVars, runnerVars, sessionVars, tickRuns, jobs, slot,
                   vcRequests, missing, historyVars>>

-----------------------------------------------------------------------------
(* The one-shots and goroutines those requests start *)

MethodEvent(k) ==
    [code |-> CASE Kind[k] \in {"Download", "Firmware"} -> "M Download"
                [] Kind[k] = "Upload"                  -> "M Upload"
                [] OTHER                               -> "M ChangeDUState",
     key  |-> k]

\* An accepted firmware image: the device goes dark until the apply one-shot
\* runs, which queues its report, comes online, resets the retry count and
\* boots.  A rejected image is reported like any transfer.  The version leaf
\* the one-shot writes is unwatched here (a watched one is ParameterChanges),
\* and a second image, which supersedes the first, is FirmwareSequence's.
FirmwareGoesDark(k) ==
    /\ Kind[k] = "Firmware"
    /\ jobs[k] = "waiting"
    /\ jobs' = [jobs EXCEPT ![k] = "dark"]
    /\ setOffline
    /\ UNCHANGED <<trackerVars, pc, retryCount, slot, owed, renewed, dropped, resetSince>>

ReportQueuesMethod(k) ==
    /\ Kind[k] \notin BootKind
    /\ \/ jobs[k] = "waiting" /\ jobs' = [jobs EXCEPT ![k] = "record"]
       \/ jobs[k] = "dark"    /\ jobs' = [jobs EXCEPT ![k] = "darkRecord"]
    /\ QueueEvent(MethodEvent(k))
    /\ Incur({MethodEvent(k)})
    /\ UNCHANGED <<runnerVars, pc, retryCount, slot, resetSince>>

ReportQueuesRecord(k) ==
    /\ \/ jobs[k] = "record"     /\ jobs' = [jobs EXCEPT ![k] = "request"]
       \/ jobs[k] = "darkRecord" /\ jobs' = [jobs EXCEPT ![k] = "offline"]
    /\ IF Kind[k] = "ChangeDUState" THEN QueueDUStateChangeComplete(k)
                                    ELSE QueueTransferComplete(k)
    /\ UNCHANGED <<runnerVars, pc, retryCount, slot, owed, renewed, dropped, resetSince>>

FirmwareComesOnline(k) ==
    /\ jobs[k] = "offline"
    /\ jobs' = [jobs EXCEPT ![k] = "retry"]
    /\ setOnline
    /\ UNCHANGED <<trackerVars, pc, retryCount, slot, owed, renewed, dropped, resetSince>>

BootExpires(k) ==
    /\ Kind[k] \in BootKind
    /\ jobs[k] = "waiting"
    /\ jobs' = [jobs EXCEPT ![k] = "fired"]
    /\ UNCHANGED <<trackerVars, runnerVars, pc, retryCount, slot, owed, renewed,
                   dropped, resetSince>>

BootClearsSlot(k) ==
    /\ jobs[k] = "fired"
    /\ jobs' = [jobs EXCEPT ![k] = "effect"]
    /\ slot' = [slot EXCEPT ![Kind[k]] = NoKey]
    /\ UNCHANGED <<trackerVars, runnerVars, pc, retryCount, owed, renewed,
                   dropped, resetSince>>

BootTakesEffect(k) ==
    /\ jobs[k] = "effect"
    /\ jobs' = [jobs EXCEPT ![k] = "retry"]
    /\ BootEffect(k)
    /\ UNCHANGED <<runnerVars, pc, retryCount, slot>>

BootResetsRetry(k) ==
    /\ jobs[k] = "retry"
    /\ jobs' = [jobs EXCEPT ![k] = "boot"]
    /\ retryCount' = 0
    /\ UNCHANGED <<trackerVars, runnerVars, pc, slot, owed, renewed, dropped, resetSince>>

JobTrigger(k) ==
    IF Kind[k] = "ChangeDUState" THEN "DUStateChangeComplete" ELSE "TransferComplete"

JobRequests(k) ==
    /\ jobs[k] = "request"
    /\ jobs' = [jobs EXCEPT ![k] = "done"]
    /\ RequestSession(JobTrigger(k))
    /\ UNCHANGED <<retryCount, slot, resetSince>>

JobBoots(k) ==
    /\ jobs[k] = "boot"
    /\ jobs' = [jobs EXCEPT ![k] = "done"]
    /\ RequestSession("Startup")
    /\ UNCHANGED <<retryCount, slot, resetSince>>

JobStep(k) ==
    /\ \/ ReportQueuesMethod(k) \/ ReportQueuesRecord(k)
       \/ BootExpires(k) \/ BootClearsSlot(k) \/ BootTakesEffect(k)
       \/ FirmwareGoesDark(k) \/ FirmwareComesOnline(k)
       \/ BootResetsRetry(k) \/ JobRequests(k) \/ JobBoots(k)
    /\ UNCHANGED <<unsent, timers, cancelRetry, tickRuns, vcRequests,
                   afterSession, missing, left, acked, delivered>>

-----------------------------------------------------------------------------
(* Boot, ticks, connection requests and parameter writes *)

\* bootstrapAll; the periodic scheduler is started after it.
BootRequests ==
    /\ Spend("boot")
    /\ RequestSession("Startup")
    /\ UNCHANGED <<unsent, retryCount, timers, cancelRetry, tickRuns, jobs,
                   slot, vcRequests, afterSession, missing, acked,
                   delivered, resetSince>>

\* OnTick runs on the scheduler's own goroutine for this CPE, which therefore
\* cannot tick again while it runs a session.
Tick ==
    /\ ~tickRuns
    /\ left["boot"] = 0
    /\ Spend("tick")
    /\ RequestSession("Periodic")
    /\ tickRuns' = (~busy /\ ~offline)
    /\ UNCHANGED <<unsent, retryCount, timers, cancelRetry, jobs, slot,
                   vcRequests, afterSession, missing, acked, delivered,
                   resetSince>>

\* The HTTP listener and the STUN client both answer with a request.
ConnectionRequested ==
    /\ Spend("connection")
    /\ RequestSession("ConnectionRequest")
    /\ UNCHANGED <<unsent, retryCount, timers, cancelRetry, tickRuns, jobs,
                   slot, vcRequests, afterSession, missing, acked,
                   delivered, resetSince>>

\* SetParameterValues in the running session: the hook records a watched path,
\* and SetBatch runs no observer that would request a session.
AcsSets(p) ==
    /\ pc = "drain"
    /\ p \notin missing
    /\ Spend("write")
    /\ RecordValueChange(p)
    /\ UNCHANGED <<runnerVars, sessionVars, tickRuns, jobs, slot, vcRequests,
                   afterSession, missing, historyVars>>

\* A write of the device itself to a watched parameter, seen by the tree
\* observer.  Notification 2 also requests a session.
ParameterChanges(p) ==
    /\ p \notin missing
    /\ Spend("write")
    /\ RecordValueChange(p)
    /\ vcRequests' = IF p \in ActivePaths THEN vcRequests \cup {p} ELSE vcRequests
    /\ UNCHANGED <<runnerVars, sessionVars, tickRuns, jobs, slot, afterSession,
                   missing, historyVars>>

ObserverRequests(p) ==
    /\ p \in vcRequests
    /\ vcRequests' = vcRequests \ {p}
    /\ RequestSession("ValueChange")
    /\ UNCHANGED <<unsent, retryCount, timers, cancelRetry, tickRuns, jobs,
                   slot, afterSession, missing, left, acked, delivered,
                   resetSince>>

\* The object that holds p is deleted (an uninstall, a USP Delete, a reset).
ParameterRemoved(p) ==
    /\ p \notin missing
    /\ Spend("remove")
    /\ missing' = missing \cup {p}
    /\ UNCHANGED <<trackerVars, runnerVars, sessionVars, tickRuns, jobs, slot,
                   vcRequests, afterSession, historyVars>>

-----------------------------------------------------------------------------
Init ==
    /\ TrackerInit /\ RunnerInit
    /\ pc = "idle" /\ unsent = {} /\ retryCount = 0
    /\ timers = [i \in Timers |-> "off"] /\ cancelRetry = NoTimer
    /\ tickRuns = FALSE
    /\ \E s \in Scenarios :
          /\ left = s.budget
          /\ jobs = [k \in Keys |-> IF k \in s.asks THEN "none" ELSE "never"]
    /\ slot = [b \in BootKind |-> NoKey]
    /\ vcRequests = {} /\ afterSession = {} /\ missing = {}
    /\ owed = {} /\ renewed = {} /\ dropped = {} /\ acked = {} /\ delivered = {}
    /\ resetSince = FALSE

Next ==
    \/ SessionStep \/ ExchangeFails
    \/ \E k \in Keys : AcsRequests(k) \/ JobStep(k)
    \/ \E i \in Timers : TimerStep(i)
    \/ \E p \in Paths : \/ AcsSetsDeferred(p) \/ AcsSets(p) \/ ParameterChanges(p)
                        \/ ObserverRequests(p) \/ ParameterRemoved(p)
    \/ BootRequests \/ Tick \/ ConnectionRequested

Spec == Init /\ [][Next]_vars

\* A running goroutine keeps running, armed timers expire, spawned goroutines
\* get their turn, the ACS ends a session it keeps answering, and the periodic
\* timer, re-armed after every tick, fires again if it is Recurring.
\* Connection requests, writes and failures need not happen.
Fairness ==
    /\ WF_vars(SessionStep) /\ WF_vars(BootRequests)
    /\ WF_vars(Tick)
    /\ \A i \in Timers : WF_vars(TimerStep(i))
    /\ \A k \in Keys : WF_vars(JobStep(k))
    /\ \A p \in Paths : WF_vars(ObserverRequests(p))

FairSpec == Spec /\ Fairness

-----------------------------------------------------------------------------
(* Properties *)

TypeOK ==
    /\ TrackerTypeOK /\ RunnerTypeOK
    /\ pc \in Progress /\ unsent \subseteq Keys /\ retryCount \in 0..MaxRetryCount
    /\ timers \in [Timers -> {"off", "armed", "fired", "cleared"}]
    /\ cancelRetry \in Timers \cup {NoTimer}
    /\ tickRuns \in BOOLEAN
    /\ jobs \in [Keys -> JobState]
    /\ slot \in [BootKind -> Keys \cup {NoKey}]
    /\ vcRequests \subseteq Paths /\ afterSession \subseteq Paths
    /\ missing \subseteq Paths
    /\ left \in [Resource -> Nat]
    /\ owed \subseteq Event /\ renewed \subseteq Event /\ dropped \subseteq Event
    /\ acked \subseteq Keys /\ delivered \subseteq Keys /\ resetSince \in BOOLEAN

\* The primary events of sessions that have been requested and not yet drawn.
Awaited ==
    (IF deferred = NoTrigger THEN {} ELSE PrimaryEvents(deferred))
      \cup (IF BeforeDraw THEN PrimaryEvents(trigger) ELSE {})

\* Coalescing loses nothing (docs/guides/scheduler.md "Tick semantics" 3): an
\* event the CPE owes the ACS is queued, carried by the running session, or
\* the primary event of a session that will run; and one incurred while a
\* session runs does not count on that session to carry it.  The code falls
\* short of it in one case, the exception here: request queues the event of a
\* displaced tick only, so a ValueChange or DUStateChangeComplete trigger that
\* another pushes out of the latch loses its event, until it comes again.
NothingOwedIsLost ==
    /\ owed \subseteq pendingEvents \cup Awaited \cup dropped
                        \cup (IF Carrying THEN events ELSE {})
    /\ Carrying => renewed \subseteq pendingEvents \cup Awaited \cup dropped

\* The records the running session has drained and not yet put back.  The
\* locals of RunSession hold nothing before their drain.
Held ==
    (IF Carrying /\ pc # "transfers" THEN transferCompletes ELSE {})
      \cup (IF Carrying /\ pc \notin {"transfers", "dustates"} THEN duStateCompletes
                                                               ELSE {})

\* A TransferComplete or DUStateChangeComplete record that was queued is
\* pending, held by the running session, or was in a session that ended well,
\* and then the ACS answered it (the drains and re-queues of RunSession).
RecordsConserved ==
    /\ \A k \in Keys :
         Kind[k] \notin BootKind
           /\ jobs[k] \in {"request", "offline", "retry", "boot", "done"} =>
            k \in pendingTransferCompletes \cup pendingDUStateCompletes
                    \cup delivered \cup Held
    /\ delivered \subseteq acked

\* BOOTSTRAP latches done only on a session whose Inform carried it and only
\* if no factory reset came since (Acknowledge and ResetBootstrap).
BootstrapLatchSound ==
    [][~bootstrapDone /\ bootstrapDone' =>
         Plain("0 BOOTSTRAP") \in events /\ ~resetSince]_vars

\* The inductive core of the latch: a pending latch means the carrying session
\* announced BOOTSTRAP and no reset intervened.
BootstrapPendingSound ==
    /\ bootstrapPending => ~bootstrapDone
    /\ bootstrapPending /\ Carrying => Plain("0 BOOTSTRAP") \in events /\ ~resetSince

RetryUnderWay == \E i \in Timers : timers[i] # "off"

\* A CPE whose last session failed always has another one coming: a retry
\* one-shot under way or a latched trigger (runOne, cancelPendingRetry and the
\* boots that reset the retry count).
RetryAlwaysComing ==
    retryCount > 0 /\ pc \in {"idle", "done"} => deferred # NoTrigger \/ RetryUnderWay

\* The runner's busy flag, its trigger and the session goroutine agree.
BusyIffRunning ==
    /\ busy <=> pc # "idle"
    /\ busy <=> trigger # NoTrigger

\* One session at a time (request of main.go): a session begins only where
\* none is running, that is, from idle or when the one before it has ended.
SessionsDoNotOverlap ==
    [][pc' = "start" => pc \in {"idle", "done", "start"}]_vars

\* AfterSession.Run, whatever the outcome of the session: no write an ACS was
\* told is accepted waits for a later session.
DeferredWritesApplied ==
    afterSession # {} => pc \in {"drain", "afterOk", "afterErr"}

\* The events of the requests the ACS makes, of their ends, of boots and ticks.
Deliverable ==
    {Plain("1 BOOT"), Plain("2 PERIODIC"), Plain("11 DU STATE CHANGE COMPLETE")}
      \cup {MethodEvent(k) : k \in {j \in Keys : Kind[j] \notin BootKind}}
      \cup {[code |-> "M Reboot", key |-> k] : k \in {j \in Keys : Kind[j] = "Reboot"}}

\* What the CPE owes the ACS gets there, whatever fails before: an owed event is
\* eventually in the Inform of a session that ends well, unless the latch drops
\* its trigger, and every accepted
\* transfer or DU change is eventually reported (requeueUndelivered puts both
\* back after a failure).
OwedDelivered ==
    /\ \A e \in Deliverable : e \in owed ~> e \in dropped \/ (pc = "ack" /\ e \in events)
    /\ \A k \in Keys : Kind[k] \notin BootKind =>
          (jobs[k] = "waiting" ~> k \in delivered)
=============================================================================
