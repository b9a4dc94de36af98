--------------------------- MODULE SessionRunner ---------------------------
(***************************************************************************)
(* The sessionRunner of cmd/cpe-sim/main.go, as the rest of the program    *)
(* sees it: one session at a time, a one-slot latch for the triggers that  *)
(* arrive meanwhile, and an offline flag that holds every trigger back.    *)
(*                                                                         *)
(* r.mu guards all of this state, so a request is one action up to the     *)
(* point where it latches or becomes the running session.  The goroutine   *)
(* that made the CPE busy runs the session and then drains the latch.      *)
(***************************************************************************)
EXTENDS Naturals, Triggers

VARIABLES
    busy,       \* a goroutine is inside runOne or draining the latch
    offline,    \* the device is dark: request latches everything
    deferred,   \* the latched trigger; NoTrigger is hasDeferred = false
    trigger     \* the trigger of the running session

runnerVars == <<busy, offline, deferred, trigger>>

triggerPriority(t) ==
    CASE t = "Startup"           -> 5
      [] t = "ConnectionRequest" -> 4
      [] t = "TransferComplete"  -> 3
      [] t = "Retry"             -> 2
      [] t = "Periodic"          -> 1
      [] OTHER                   -> 0

Outranks(t) == deferred = NoTrigger \/ triggerPriority(t) > triggerPriority(deferred)

\* The trigger that a request for t pushes out of, or keeps out of, the latch.
Displaced(t) ==
    IF deferred = NoTrigger THEN NoTrigger ELSE IF Outranks(t) THEN deferred ELSE t

\* Fault: a trigger that finds the device dark is dropped.
LatchUnlessOffline(t) ==
    /\ busy \/ offline
    /\ deferred' = IF Outranks(t) /\ ~offline THEN t ELSE deferred
    /\ UNCHANGED <<busy, offline, trigger>>

Latch(t) ==
    /\ busy \/ offline
    /\ deferred' = IF Outranks(t) THEN t ELSE deferred
    /\ UNCHANGED <<busy, offline, trigger>>

\* Fault: a request does not look whether a session is running.
RunNowUnguarded(t) ==
    /\ ~offline
    /\ busy' = TRUE
    /\ trigger' = t
    /\ UNCHANGED <<offline, deferred>>

RunNow(t) ==
    /\ ~busy /\ ~offline
    /\ busy' = TRUE
    /\ trigger' = t
    /\ UNCHANGED <<offline, deferred>>

Request(t) == Latch(t) \/ RunNow(t)

\* The loop of request after each runOne: stop, or run the latched trigger.
GoIdle ==
    /\ busy
    /\ deferred = NoTrigger \/ offline
    /\ busy' = FALSE
    /\ trigger' = NoTrigger
    /\ UNCHANGED <<offline, deferred>>

RunDeferred ==
    /\ busy /\ deferred # NoTrigger /\ ~offline
    /\ trigger' = deferred
    /\ deferred' = NoTrigger
    /\ UNCHANGED <<busy, offline>>

setOffline == offline' = TRUE  /\ UNCHANGED <<busy, deferred, trigger>>
setOnline  == offline' = FALSE /\ UNCHANGED <<busy, deferred, trigger>>

-----------------------------------------------------------------------------
RunnerTypeOK ==
    /\ busy \in BOOLEAN /\ offline \in BOOLEAN
    /\ deferred \in Trigger \cup {NoTrigger}
    /\ trigger \in Trigger \cup {NoTrigger}

RunnerInit ==
    /\ busy = FALSE /\ offline = FALSE
    /\ deferred = NoTrigger /\ trigger = NoTrigger

RunnerNext ==
    \/ \E t \in Trigger : Request(t)
    \/ GoIdle \/ RunDeferred \/ setOffline \/ setOnline

RunnerSpec == RunnerInit /\ [][RunnerNext]_runnerVars
=============================================================================
