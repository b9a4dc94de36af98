------------------------- MODULE PeriodicScheduler -------------------------
(***************************************************************************)
(* The periodic Inform timer of one CPE: the drain goroutine of            *)
(* internal/cwmp/scheduler/scheduler.go, its Go timer, the one-place       *)
(* change channel, the writers of the interval, enable and time leaves,    *)
(* and Stop.                                                               *)
(*                                                                         *)
(* The leaves are read one at a time and written together, so a refresh    *)
(* can see half of a write.  A writer reaches OnIntervalChange only after  *)
(* its write and only for a leaf with a Notification attribute: the one    *)
(* buildCPEStack gave it, until SetParameterAttributes takes it away, or   *)
(* Tree.Reset of a factory reset, which replaces values and attributes and *)
(* tells nobody.  Time is abstract: an armed timer may fire at any moment. *)
(* PeriodicDelay is about the delay it is armed for.                       *)
(***************************************************************************)
EXTENDS Naturals

CONSTANTS
    Intervals,      \* values of PeriodicInformInterval, in seconds
    Phases,         \* values of PeriodicInformTime, "unset" among them
    FactoryInterval,
    MaxWrites,      \* writes of the leaves explored
    MaxUpsets,      \* attribute changes, factory resets and failing reads explored
    MayStop         \* whether the process shuts down

ASSUME SchedulerAssumption ==
    /\ Intervals \subseteq Nat /\ FactoryInterval \in Intervals /\ "unset" \in Phases
    /\ MaxWrites \in Nat /\ MaxUpsets \in Nat
    /\ MayStop \in BOOLEAN

VARIABLES
    tree,       \* the leaves: [interval, enable, phase], and which are watched
    entry,      \* cpeEntry: [interval, enabled, phase]
    seen,       \* what refreshFromTree has read so far: [interval, enable]
    timer,      \* "none", "stopped", "armed", "fired" (a tick in its channel)
    armedFor,   \* the [interval, phase] the timer was last armed for
    change,     \* the buffered change signal
    hooks,      \* writers between their write and the hook for what it changed
    stopped,    \* Stop has cancelled the scheduler's context
    pc,         \* where the drain goroutine stands
    writes, upsets,
    missed      \* history: leaves the loop may have missed the last change of

drainVars == <<entry, seen, timer, armedFor, pc>>
bounds == <<writes, upsets>>
vars == <<tree, drainVars, change, hooks, stopped, bounds, missed>>

Leaves == {"interval", "enable", "phase"}

\* A refresh is under way for the start, a tick or a change.
Refreshing == {"start", "tick", "change"}

At(stage, why) == [stage |-> stage, why |-> why]
Select == At("select", "none")
Closed == At("closed", "none")

-----------------------------------------------------------------------------
(* refreshFromTree: interval, enable, time, and then the entry in one go *)

\* An interval below one second is clamped to one second.
Clamped(i) == IF i < 1 THEN 1 ELSE i

ReadInterval(why) ==
    /\ pc = At("interval", why)
    /\ seen' = [seen EXCEPT !.interval = Clamped(tree.interval)]
    /\ pc' = At("enable", why)
    /\ missed' = missed \ {"interval"}
    /\ UNCHANGED <<tree, entry, timer, armedFor, change, hooks, stopped, bounds>>

ReadEnable(why) ==
    /\ pc = At("enable", why)
    /\ seen' = [seen EXCEPT !.enable = tree.enable]
    /\ pc' = At("phase", why)
    /\ missed' = missed \ {"enable"}
    /\ UNCHANGED <<tree, entry, timer, armedFor, change, hooks, stopped, bounds>>

ReadPhase(why) ==
    /\ pc = At("phase", why)
    /\ entry' = [interval |-> seen.interval, enabled |-> seen.enable, phase |-> tree.phase]
    /\ pc' = At("arm", why)
    /\ missed' = missed \ {"phase"}
    /\ UNCHANGED <<tree, seen, timer, armedFor, change, hooks, stopped, bounds>>

\* At the start the CPE is skipped for good; after a tick the timer is armed
\* with the previous values; after a change signal the loop leaves it alone.
ReadFails(why) ==
    /\ pc \in {At(stage, why) : stage \in {"interval", "enable", "phase"}}
    /\ upsets < MaxUpsets
    /\ upsets' = upsets + 1
    /\ pc' = CASE why = "start" -> Closed
               [] why = "tick"  -> At("arm", why)
               [] OTHER         -> Select
    /\ missed' = Leaves
    /\ UNCHANGED <<tree, entry, seen, timer, armedFor, change, hooks, stopped,
                   writes>>

-----------------------------------------------------------------------------
\* stopTimerLocked stops the timer and drains a tick it has queued.
StoppedTimer == IF timer = "none" THEN "none" ELSE "stopped"

\* Fault: a signal that came during the refresh is taken for handled.
ArmDrainsChange(why) ==
    /\ pc = At("arm", why)
    /\ IF entry.enabled
       THEN /\ timer' = "armed"
            /\ armedFor' = [interval |-> entry.interval, phase |-> entry.phase]
       ELSE timer' = StoppedTimer /\ UNCHANGED armedFor
    /\ change' = FALSE
    /\ pc' = Select
    /\ UNCHANGED <<tree, entry, seen, hooks, stopped, bounds, missed>>

\* Fault: a timer that is running is left running.
ArmOnlyIfStopped(why) ==
    /\ pc = At("arm", why)
    /\ IF entry.enabled /\ timer \in {"none", "stopped"}
       THEN /\ timer' = "armed"
            /\ armedFor' = [interval |-> entry.interval, phase |-> entry.phase]
       ELSE UNCHANGED <<timer, armedFor>>
    /\ pc' = Select
    /\ UNCHANGED <<tree, entry, seen, change, hooks, stopped, bounds, missed>>

\* armTimerLocked; Reset drains a stale tick before it arms again.
Arm(why) ==
    /\ pc = At("arm", why)
    /\ IF entry.enabled
       THEN /\ timer' = "armed"
            /\ armedFor' = [interval |-> entry.interval, phase |-> entry.phase]
       ELSE timer' = StoppedTimer /\ UNCHANGED armedFor
    /\ pc' = Select
    /\ UNCHANGED <<tree, entry, seen, change, hooks, stopped, bounds, missed>>

ReceiveChange ==
    /\ pc = Select
    /\ change
    /\ change' = FALSE
    /\ pc' = At("interval", "change")
    /\ UNCHANGED <<tree, entry, seen, timer, armedFor, hooks, stopped, bounds, missed>>

\* The tick is taken from the channel and handleTick calls OnTick.
ReceiveTick ==
    /\ pc = Select
    /\ timer = "fired"
    /\ timer' = "stopped"
    /\ pc' = At("onTick", "tick")
    /\ UNCHANGED <<tree, entry, seen, armedFor, change, hooks, stopped, bounds, missed>>

\* Fault: a tick does not arm the timer again.
TickReturnsUnarmed ==
    /\ pc = At("onTick", "tick")
    /\ pc' = Select
    /\ UNCHANGED <<tree, entry, seen, timer, armedFor, change, hooks, stopped,
                   bounds, missed>>

TickReturns ==
    /\ pc = At("onTick", "tick")
    /\ pc' = At("interval", "tick")
    /\ UNCHANGED <<tree, entry, seen, timer, armedFor, change, hooks, stopped,
                   bounds, missed>>

\* The select takes any case that is ready, the cancelled context or another.
DrainStops ==
    /\ pc = Select
    /\ stopped
    /\ timer' = StoppedTimer
    /\ pc' = Closed
    /\ UNCHANGED <<tree, entry, seen, armedFor, change, hooks, stopped, bounds, missed>>

Drain ==
    \/ \E why \in Refreshing :
          ReadInterval(why) \/ ReadEnable(why) \/ ReadPhase(why) \/ Arm(why)
    \/ ReceiveChange \/ ReceiveTick \/ TickReturns

TimerFires ==
    /\ timer = "armed"
    /\ timer' = "fired"
    /\ UNCHANGED <<tree, entry, seen, armedFor, change, hooks, stopped, pc, bounds, missed>>

-----------------------------------------------------------------------------
\* A write of the leaves: SetParameterValues writes its batch under one lock, a
\* USP Set or the device one leaf.  The handler or the observer of the tree then
\* has what changed.
WriteLeaves(i, e, p) ==
    /\ writes < MaxWrites
    /\ writes' = writes + 1
    /\ tree' = [tree EXCEPT !.interval = i, !.enable = e, !.phase = p]
    /\ LET changed == {leaf \in Leaves : tree'[leaf] # tree[leaf]}
       IN  hooks' = IF changed = {} THEN hooks
                    ELSE hooks \cup {[id |-> writes, changed |-> changed]}
    /\ UNCHANGED <<drainVars, change, stopped, upsets, missed>>

\* Fault: only a new interval reaches the hook.
HeardIntervalOnly(h) == "interval" \in h.changed \cap tree.watched

\* valueChange is called for a changed leaf that has a Notification attribute
\* when the hook looks.
Heard(h) == h.changed \cap tree.watched # {}

\* The hook of a write; a signal that finds one buffered is dropped.
OnIntervalChange(h) ==
    /\ h \in hooks
    /\ hooks' = hooks \ {h}
    /\ change' = (change \/ Heard(h))
    /\ missed' = IF h.changed \cap tree.watched # {} THEN missed
                 ELSE missed \cup h.changed
    /\ UNCHANGED <<tree, drainVars, stopped, bounds>>

\* SetParameterAttributes, leaf by leaf; it runs no hook.
SetAttributes(leaf, on) ==
    /\ upsets < MaxUpsets
    /\ upsets' = upsets + 1
    /\ tree' = [tree EXCEPT !.watched = IF on THEN @ \cup {leaf} ELSE @ \ {leaf}]
    /\ UNCHANGED <<drainVars, change, hooks, stopped, writes, missed>>

\* factoryReset: Tree.Reset with the template's values and attributes.
FactoryReset ==
    /\ upsets < MaxUpsets
    /\ upsets' = upsets + 1
    /\ tree' = [interval |-> FactoryInterval, enable |-> TRUE, phase |-> "unset",
                watched |-> {}]
    /\ missed' = missed \cup {leaf \in Leaves : tree'[leaf] # tree[leaf]}
    /\ UNCHANGED <<drainVars, change, hooks, stopped, writes>>

Stop ==
    /\ MayStop /\ ~stopped
    /\ stopped' = TRUE
    /\ UNCHANGED <<tree, drainVars, change, hooks, bounds, missed>>

-----------------------------------------------------------------------------
\* Start, with the leaves as the profile has them.
Init ==
    /\ tree = [interval |-> FactoryInterval, enable |-> TRUE, phase |-> "unset",
               watched |-> Leaves]
    /\ entry = [interval |-> 0, enabled |-> FALSE, phase |-> "unset"]
    /\ seen = [interval |-> 0, enable |-> FALSE]
    /\ armedFor = [interval |-> 0, phase |-> "unset"]
    /\ timer = "none" /\ change = FALSE /\ hooks = {} /\ stopped = FALSE
    /\ pc = At("interval", "start")
    /\ writes = 0 /\ upsets = 0 /\ missed = {}

Next ==
    \/ Drain \/ DrainStops \/ TimerFires \/ FactoryReset \/ Stop
    \/ \E h \in hooks : OnIntervalChange(h)
    \/ \E leaf \in Leaves, on \in BOOLEAN : SetAttributes(leaf, on)
    \/ \E why \in Refreshing : ReadFails(why)
    \/ \E i \in Intervals, e \in BOOLEAN, p \in Phases : WriteLeaves(i, e, p)

Spec == Init /\ [][Next]_vars

\* The goroutines run, an armed timer fires, and the random choice of a select
\* does not pass over the cancelled context for ever.
FairSpec ==
    /\ Spec
    /\ WF_vars(Drain) /\ WF_vars(TimerFires) /\ WF_vars(\E h \in hooks : OnIntervalChange(h))
    /\ SF_vars(DrainStops)

-----------------------------------------------------------------------------
TypeOK ==
    /\ tree \in [interval : Intervals, enable : BOOLEAN, phase : Phases,
                 watched : SUBSET Leaves]
    /\ entry \in [interval : Nat, enabled : BOOLEAN, phase : Phases]
    /\ seen \in [interval : Nat, enable : BOOLEAN]
    /\ armedFor \in [interval : Nat, phase : Phases]
    /\ timer \in {"none", "stopped", "armed", "fired"}
    /\ change \in BOOLEAN /\ stopped \in BOOLEAN
    /\ hooks \subseteq [id : Nat, changed : SUBSET Leaves] /\ missed \subseteq Leaves
    /\ pc \in [stage : {"select", "interval", "enable", "phase", "arm", "onTick",
                        "closed"},
               why : Refreshing \cup {"none"}]
    /\ writes \in Nat /\ upsets \in Nat

InStep(leaf) ==
    CASE leaf = "interval" -> entry.interval = Clamped(tree.interval)
      [] leaf = "enable"   -> entry.enabled = tree.enable
      [] leaf = "phase"    -> entry.phase = tree.phase

\* The loop will look again, or a hook for the leaf has still to decide.  A leaf
\* is missed, until it is read again, when its change was written or reset with
\* nobody told, or when a refresh failed.
Coming(leaf) == change \/ (\E h \in hooks : leaf \in h.changed) \/ leaf \in missed

\* No write is lost on the one-place channel, however it interleaves with a
\* refresh: where a drain loop that waits, or is about to arm, is out of step
\* with a leaf, a signal or a hook for it is coming (OnIntervalChange drops a
\* signal that finds another).
NoLostChange ==
    pc = Select \/ pc.stage = "arm" =>
        \A leaf \in Leaves : InStep(leaf) \/ Coming(leaf)

\* The same of a refresh between two of its reads (refreshFromTree).
NoTornRefresh ==
    /\ pc.stage \in {"enable", "phase"} =>
          seen.interval = Clamped(tree.interval) \/ Coming("interval")
    /\ pc.stage = "phase" => seen.enable = tree.enable \/ Coming("enable")

\* Whenever the loop waits, the timer runs exactly when the entry is enabled,
\* for the entry's interval and phase and for a second or more: no tick leaves
\* it unarmed, whatever it did (drain and armTimerLocked).
TimerMatchesEntry ==
    pc = Select => /\ entry.enabled <=> timer \in {"armed", "fired"}
                   /\ entry.enabled => /\ armedFor.interval = entry.interval
                                       /\ armedFor.phase = entry.phase
                                       /\ armedFor.interval >= 1

\* docs/guides/scheduler.md: the reschedule of a write is immediate, so a CPE
\* whose enable leaf stays true keeps informing, if its first refresh succeeds
\* and the loop did not miss the leaf's last change.
KeepsTicking ==
    [](pc # Closed) /\ <>[](tree.enable /\ "enable" \notin missed)
        => []<>(pc.stage = "onTick")

=============================================================================
