----------------------------- MODULE TriggerProofs -----------------------------
(***************************************************************************)
(* The safety properties of what starts a session and of what it carries:  *)
(* PeriodicScheduler, for every set of intervals and phases and any number *)
(* of writes, attribute changes, factory resets and failing reads;         *)
(* PeriodicDelay, for every clock, phase reference and jitter;             *)
(* FirmwareSequence, for every set of Downloads, however their sequences   *)
(* overlap each other, link faults and sessions, with its refinement of    *)
(* the session runner; and the tracker with its slices, which yields Event *)
(* arrays in order and implements the set-valued EventTracker, for all     *)
(* command keys, paths and triggers.                                       *)
(***************************************************************************)
EXTENDS PeriodicScheduler, PeriodicDelay, FirmwareSequence, EventTrackerSlices,
        SequenceTheorems, FiniteSetTheorems, TLAPS

-----------------------------------------------------------------------------
(* The periodic scheduler *)

LEMMA ClampedType ==
    ASSUME NEW i \in Nat
    PROVE  Clamped(i) \in Nat /\ Clamped(i) >= 1
  BY DEF Clamped

\* Every variable keeps its type (scheduler.go: cpeEntry, the timer, the
\* change channel and the stages of drain).
THEOREM TypeCorrect == Spec => []TypeOK
  <1>1. Init => TypeOK
    <2> SUFFICES ASSUME Init
                 PROVE  TypeOK
      OBVIOUS
    <2>1. change \in BOOLEAN /\ stopped \in BOOLEAN
      BY DEF Init
    <2>2. tree \in [interval : Intervals, enable : BOOLEAN, phase : Phases,
                    watched : SUBSET Leaves]
      BY SchedulerAssumption DEF Init
    <2>3. /\ entry \in [interval : Nat, enabled : BOOLEAN, phase : Phases]
          /\ seen \in [interval : Nat, enable : BOOLEAN]
          /\ armedFor \in [interval : Nat, phase : Phases]
      BY SchedulerAssumption DEF Init
    <2> QED BY <2>1, <2>2, <2>3 DEF Init, TypeOK, At, Refreshing
  <1>2. TypeOK /\ [Next]_vars => TypeOK'
    <2> SUFFICES ASSUME TypeOK, [Next]_vars
                 PROVE  TypeOK'
      OBVIOUS
    <2> USE DEF TypeOK, At, Refreshing, Select, Closed, drainVars, bounds
    <2>1. ASSUME NEW why \in Refreshing, ReadInterval(why)
          PROVE  TypeOK'
      <3>1. Clamped(tree.interval) \in Nat
        BY ClampedType, SchedulerAssumption
      <3> QED BY <2>1, <3>1 DEF ReadInterval
    <2>2. ASSUME NEW why \in Refreshing, ReadEnable(why)
          PROVE  TypeOK'
      BY <2>2 DEF ReadEnable
    <2>3. ASSUME NEW why \in Refreshing, ReadPhase(why)
          PROVE  TypeOK'
      BY <2>3 DEF ReadPhase
    <2>4. ASSUME NEW why \in Refreshing, Arm(why)
          PROVE  TypeOK'
      BY <2>4 DEF Arm, StoppedTimer
    <2>5. CASE ReceiveChange
      BY <2>5 DEF ReceiveChange
    <2>6. CASE ReceiveTick
      BY <2>6 DEF ReceiveTick
    <2>7. CASE TickReturns
      BY <2>7 DEF TickReturns
    <2>8. CASE DrainStops
      BY <2>8 DEF DrainStops, StoppedTimer
    <2>9. CASE TimerFires
      BY <2>9 DEF TimerFires
    <2>10. ASSUME NEW h \in hooks, OnIntervalChange(h)
           PROVE  TypeOK'
      <3>1. h.changed \subseteq Leaves
        OBVIOUS
      <3>2. change' \in BOOLEAN
        BY <2>10 DEF OnIntervalChange, Heard
      <3> QED BY <2>10, <3>1, <3>2 DEF OnIntervalChange
    <2>11. CASE FactoryReset
      BY <2>11, SchedulerAssumption DEF FactoryReset
    <2>12. CASE Stop
      BY <2>12 DEF Stop
    <2>13. ASSUME NEW why \in Refreshing, ReadFails(why)
           PROVE  TypeOK'
      BY <2>13 DEF ReadFails
    <2>14. ASSUME NEW i \in Intervals, NEW e \in BOOLEAN, NEW p \in Phases,
                  WriteLeaves(i, e, p)
           PROVE  TypeOK'
      <3>1. tree' \in [interval : Intervals, enable : BOOLEAN, phase : Phases,
                       watched : SUBSET Leaves]
        BY <2>14 DEF WriteLeaves
      <3>2. {leaf \in Leaves : tree'[leaf] # tree[leaf]} \in SUBSET Leaves
        OBVIOUS
      <3>3. hooks' \subseteq [id : Nat, changed : SUBSET Leaves]
        BY <2>14, <3>2 DEF WriteLeaves
      <3> QED BY <2>14, <3>1, <3>3 DEF WriteLeaves
    <2>15. ASSUME NEW leaf \in Leaves, NEW on \in BOOLEAN, SetAttributes(leaf, on)
           PROVE  TypeOK'
      <3>1. tree' \in [interval : Intervals, enable : BOOLEAN, phase : Phases,
                       watched : SUBSET Leaves]
        BY <2>15 DEF SetAttributes
      <3> QED BY <2>15, <3>1 DEF SetAttributes
    <2>16. CASE UNCHANGED vars
      BY <2>16 DEF vars
    <2> QED BY <2>1, <2>2, <2>3, <2>4, <2>5, <2>6, <2>7, <2>8, <2>9, <2>10, <2>11,
               <2>12, <2>13, <2>14, <2>15, <2>16 DEF Next, Drain
  <1> QED BY <1>1, <1>2, PTL DEF Spec

-----------------------------------------------------------------------------
(* A write is not lost on the one-place channel *)

\* Whatever a refresh has read of a leaf, and whatever the loop works with, is
\* the tree's value or another look is coming.
ChangeInv == NoTornRefresh /\ NoLostChange

LEMMA ChangeInit == Init => ChangeInv
  BY DEF Init, ChangeInv, NoTornRefresh, NoLostChange, At, Select

\* A writer, a hook or a reset leaves the loop where it is; where such a step
\* changes a leaf, a hook for that leaf is pending or the leaf counts as missed,
\* and what was coming for a leaf still is.
LEMMA WriterStep ==
    ASSUME TypeOK, ChangeInv, UNCHANGED drainVars,
           \A leaf \in Leaves : Coming(leaf) => Coming(leaf)',
           \A leaf \in Leaves : tree'[leaf] = tree[leaf] \/ Coming(leaf)'
    PROVE  ChangeInv'
  <1>1. NoTornRefresh'
    BY DEF ChangeInv, NoTornRefresh, drainVars, Leaves
  <1>2. NoLostChange'
    BY DEF ChangeInv, NoLostChange, InStep, drainVars, Leaves, Select, At
  <1> QED BY <1>1, <1>2 DEF ChangeInv

LEMMA ChangeStep == TypeOK /\ ChangeInv /\ [Next]_vars => ChangeInv'
  <1> SUFFICES ASSUME TypeOK, ChangeInv, [Next]_vars
               PROVE  ChangeInv'
    OBVIOUS
  <1> USE DEF ChangeInv, NoTornRefresh, NoLostChange, At, Refreshing, Select, Coming,
         InStep, Leaves
  <1>1. ASSUME NEW why \in Refreshing, ReadInterval(why)
        PROVE  ChangeInv'
    BY <1>1 DEF ReadInterval, TypeOK
  <1>2. ASSUME NEW why \in Refreshing, ReadEnable(why)
        PROVE  ChangeInv'
    BY <1>2 DEF ReadEnable, TypeOK
  <1>3. ASSUME NEW why \in Refreshing, ReadPhase(why)
        PROVE  ChangeInv'
    BY <1>3 DEF ReadPhase, TypeOK
  <1>4. ASSUME NEW why \in Refreshing, Arm(why)
        PROVE  ChangeInv'
    BY <1>4 DEF Arm
  <1>5. CASE ReceiveChange
    BY <1>5 DEF ReceiveChange
  <1>6. CASE ReceiveTick
    BY <1>6 DEF ReceiveTick
  <1>7. CASE TickReturns
    BY <1>7 DEF TickReturns
  <1>8. CASE DrainStops
    BY <1>8 DEF DrainStops, Closed
  <1>9. CASE TimerFires
    BY <1>9 DEF TimerFires
  <1>10. ASSUME NEW h \in hooks, OnIntervalChange(h)
         PROVE  ChangeInv'
    <2>1. \A leaf \in Leaves : Coming(leaf) => Coming(leaf)'
      <3>1. CASE Heard(h)
        BY <1>10, <3>1 DEF OnIntervalChange
      <3>2. CASE ~Heard(h)
        BY <1>10, <3>2 DEF OnIntervalChange, Heard
      <3> QED BY <3>1, <3>2
    <2> QED BY <1>10, <2>1, WriterStep DEF OnIntervalChange
  <1>11. CASE FactoryReset
    <2>1. \A leaf \in Leaves : Coming(leaf) => Coming(leaf)'
      BY <1>11 DEF FactoryReset
    <2>2. \A leaf \in Leaves : tree'[leaf] = tree[leaf] \/ Coming(leaf)'
      BY <1>11 DEF FactoryReset
    <2> QED BY <1>11, <2>1, <2>2, WriterStep DEF FactoryReset
  <1>12. CASE Stop
    BY <1>12 DEF Stop, drainVars
  <1>13. ASSUME NEW why \in Refreshing, ReadFails(why)
         PROVE  ChangeInv'
    BY <1>13 DEF ReadFails, Closed, TypeOK
  <1>14. ASSUME NEW i \in Intervals, NEW e \in BOOLEAN, NEW p \in Phases,
                WriteLeaves(i, e, p)
         PROVE  ChangeInv'
    <2> DEFINE changed == {leaf \in Leaves : tree'[leaf] # tree[leaf]}
    <2>1. hooks \subseteq hooks' /\ UNCHANGED <<change, missed, drainVars>>
      BY <1>14 DEF WriteLeaves
    <2>2. \A leaf \in Leaves : Coming(leaf) => Coming(leaf)'
      BY <2>1
    <2>3. changed = {} \/ [id |-> writes, changed |-> changed] \in hooks'
      BY <1>14 DEF WriteLeaves
    <2>4. \A leaf \in Leaves : tree'[leaf] = tree[leaf] \/ Coming(leaf)'
      BY <2>3
    <2> QED BY <2>1, <2>2, <2>4, WriterStep
  <1>15. ASSUME NEW leaf \in Leaves, NEW on \in BOOLEAN, SetAttributes(leaf, on)
         PROVE  ChangeInv'
    <2>1. \A l \in Leaves : tree'[l] = tree[l]
      BY <1>15 DEF SetAttributes, TypeOK
    <2> QED BY <1>15, <2>1, WriterStep DEF SetAttributes
  <1>16. CASE UNCHANGED vars
    BY <1>16 DEF vars, drainVars
  <1> QED BY <1>1, <1>2, <1>3, <1>4, <1>5, <1>6, <1>7, <1>8, <1>9, <1>10, <1>11, <1>12,
             <1>13, <1>14, <1>15, <1>16 DEF Next, Drain

LEMMA ChangeInvariant == Spec => []ChangeInv
  BY TypeCorrect, ChangeInit, ChangeStep, PTL DEF Spec

\* Where a drain loop that waits, or is about to arm, is out of step with a
\* leaf, a signal or a hook for the leaf is coming, or nobody was told of the
\* leaf's last change (OnIntervalChange and drain).
THEOREM ChangesArrive == Spec => []NoLostChange
  <1>1. ChangeInv => NoLostChange
    BY DEF ChangeInv
  <1> QED BY <1>1, ChangeInvariant, PTL

\* The same of a leaf written between two reads of refreshFromTree.
THEOREM TornReadsRepaired == Spec => []NoTornRefresh
  <1>1. ChangeInv => NoTornRefresh
    BY DEF ChangeInv
  <1> QED BY <1>1, ChangeInvariant, PTL

-----------------------------------------------------------------------------
(* The timer of a loop that waits *)

\* No refresh hands on an interval below a second.
AtLeastASecond ==
    /\ pc.stage \in {"enable", "phase"} => seen.interval >= 1
    /\ entry.enabled => entry.interval >= 1

\* The loop waits, or reads the leaves for a change signal: if that read
\* fails the loop waits again with the timer it has.
TimerLeftAlone ==
    \/ pc = Select
    \/ pc \in {At(stage, "change") : stage \in {"interval", "enable", "phase"}}

Matching ==
    /\ entry.enabled <=> timer \in {"armed", "fired"}
    /\ entry.enabled => /\ armedFor.interval = entry.interval
                        /\ armedFor.phase = entry.phase
                        /\ armedFor.interval >= 1

TimerInv == AtLeastASecond /\ (TimerLeftAlone => Matching)

LEMMA TimerStep == TypeOK /\ TimerInv /\ [Next]_vars => TimerInv'
  <1> SUFFICES ASSUME TypeOK, TimerInv, [Next]_vars
               PROVE  TimerInv'
    OBVIOUS
  <1> USE DEF TimerInv, AtLeastASecond, TimerLeftAlone, Matching, At, Refreshing, Select,
         drainVars, bounds
  <1>1. ASSUME NEW why \in Refreshing, ReadInterval(why)
        PROVE  TimerInv'
    <2>1. Clamped(tree.interval) >= 1
      BY ClampedType, SchedulerAssumption DEF TypeOK
    <2> QED BY <1>1, <2>1 DEF ReadInterval, TypeOK
  <1>2. ASSUME NEW why \in Refreshing, ReadEnable(why)
        PROVE  TimerInv'
    BY <1>2 DEF ReadEnable, TypeOK
  <1>3. ASSUME NEW why \in Refreshing, ReadPhase(why)
        PROVE  TimerInv'
    BY <1>3 DEF ReadPhase, TypeOK
  <1>4. ASSUME NEW why \in Refreshing, Arm(why)
        PROVE  TimerInv'
    BY <1>4 DEF Arm, StoppedTimer, TypeOK
  <1>5. CASE ReceiveChange
    BY <1>5 DEF ReceiveChange
  <1>6. CASE ReceiveTick
    BY <1>6 DEF ReceiveTick
  <1>7. CASE TickReturns
    BY <1>7 DEF TickReturns
  <1>8. CASE DrainStops
    BY <1>8 DEF DrainStops, Closed
  <1>9. CASE TimerFires
    BY <1>9 DEF TimerFires
  <1>10. ASSUME NEW h \in hooks, OnIntervalChange(h)
         PROVE  TimerInv'
    BY <1>10 DEF OnIntervalChange
  <1>11. CASE FactoryReset
    BY <1>11 DEF FactoryReset
  <1>12. CASE Stop
    BY <1>12 DEF Stop
  <1>13. ASSUME NEW why \in Refreshing, ReadFails(why)
         PROVE  TimerInv'
    BY <1>13 DEF ReadFails, Closed
  <1>14. ASSUME NEW i \in Intervals, NEW e \in BOOLEAN, NEW p \in Phases,
                WriteLeaves(i, e, p)
         PROVE  TimerInv'
    BY <1>14 DEF WriteLeaves
  <1>15. ASSUME NEW leaf \in Leaves, NEW on \in BOOLEAN, SetAttributes(leaf, on)
         PROVE  TimerInv'
    BY <1>15 DEF SetAttributes
  <1>16. CASE UNCHANGED vars
    BY <1>16 DEF vars
  <1> QED BY <1>1, <1>2, <1>3, <1>4, <1>5, <1>6, <1>7, <1>8, <1>9, <1>10, <1>11, <1>12,
             <1>13, <1>14, <1>15, <1>16 DEF Next, Drain

\* Whenever the drain loop waits, the timer runs exactly when the entry is
\* enabled, for the entry's interval and phase, and for a second or more.
THEOREM TimerKept == Spec => []TimerMatchesEntry
  <1>1. Init => TimerInv
    BY DEF Init, TimerInv, AtLeastASecond, TimerLeftAlone, At, Select
  <1>2. TimerInv => TimerMatchesEntry
    BY DEF TimerInv, TimerLeftAlone, Matching, TimerMatchesEntry
  <1> QED BY <1>1, <1>2, TypeCorrect, TimerStep, PTL DEF Spec

-----------------------------------------------------------------------------
(* When a tick falls due *)

\* Euclid's division, as % is defined.
LEMMA Division ==
    ASSUME NEW a \in Int, NEW n \in Nat \ {0}
    PROVE  /\ (a % n) \in 0..(n - 1)
           /\ a = n * (a \div n) + (a % n)
           /\ (a \div n) \in Int
  OBVIOUS

LEMMA MultipleMod ==
    ASSUME NEW q \in Int, NEW n \in Nat \ {0}
    PROVE  (n * q) % n = 0
  OBVIOUS

\* nextDelayLocked, anchored: a delay of 1 to i units that ends on the phase.
LEMMA PhaseDelayOnPhase ==
    ASSUME NEW t \in Int, NEW ref \in Int, NEW i \in Nat \ {0}
    PROVE  /\ PhaseDelay(t, ref, i) \in 1..i
           /\ (t + PhaseDelay(t, ref, i) - ref) % i = 0
  <1> DEFINE a == t - ref
  <1>1. CASE a >= 0
    <2> DEFINE q == (a \div i) + 1
    <2>1. /\ (a % i) \in 0..(i - 1)
          /\ a = i * (a \div i) + (a % i) /\ (a \div i) \in Int
      BY Division
    <2>2. PhaseDelay(t, ref, i) = i - (a % i)
      BY <1>1, <2>1 DEF PhaseDelay, Rem
    <2>3. i * q = i * (a \div i) + i /\ q \in Int
      BY <2>1
    <2>4. t + PhaseDelay(t, ref, i) - ref = i * q
      BY <2>1, <2>2, <2>3
    <2> QED BY <2>1, <2>2, <2>3, <2>4, MultipleMod
  <1>2. CASE a < 0
    <2> DEFINE b == (-a) % i  q == -((-a) \div i)
    <2>1. b \in 0..(i - 1) /\ -a = i * ((-a) \div i) + b /\ ((-a) \div i) \in Int
      BY Division
    <2>2. i * q = -(i * ((-a) \div i)) /\ q \in Int
      BY <2>1
    <2>3. CASE b = 0
      <3>1. PhaseDelay(t, ref, i) = i
        BY <1>2, <2>3 DEF PhaseDelay, Rem
      <3>2. i * (q + 1) = i * q + i /\ q + 1 \in Int
        BY <2>2
      <3>3. t + PhaseDelay(t, ref, i) - ref = i * (q + 1)
        BY <2>1, <2>2, <2>3, <3>1, <3>2
      <3> QED BY <3>1, <3>2, <3>3, MultipleMod
    <2>4. CASE b # 0
      <3>1. PhaseDelay(t, ref, i) = b
        BY <1>2, <2>1, <2>4 DEF PhaseDelay, Rem
      <3>2. t + PhaseDelay(t, ref, i) - ref = i * q
        BY <2>1, <2>2, <3>1
      <3> QED BY <2>1, <2>2, <2>4, <3>1, <3>2, MultipleMod
    <2> QED BY <2>3, <2>4
  <1> QED BY <1>1, <1>2

\* Either branch arms the timer for the future, within its interval and jitter.
LEMMA NextDelayBounds ==
    ASSUME NEW t \in Nat, NEW anchored \in BOOLEAN, NEW ref \in Int,
           NEW i \in Nat \ {0}, NEW s \in Nat,
           NEW delay \in NextDelays(t, anchored, ref, i, s)
    PROVE  /\ delay \in Nat \ {0}
           /\ delay <= i + (IF anchored THEN 0 ELSE s)
           /\ anchored => (t + delay - ref) % i = 0
  <1>1. CASE anchored
    <2>1. delay = PhaseDelay(t, ref, i)
      BY <1>1 DEF NextDelays
    <2>2. t \in Int
      OBVIOUS
    <2>3. delay \in 1..i /\ (t + delay - ref) % i = 0
      BY <2>1, <2>2, PhaseDelayOnPhase
    <2> QED BY <1>1, <2>3
  <1>2. CASE ~anchored
    <2>1. PICK delta \in (-s)..s : delay = IF i + delta < 1 THEN 1 ELSE i + delta
      BY <1>2 DEF NextDelays, JitterDelays
    <2> QED BY <1>2, <2>1
  <1> QED BY <1>1, <1>2

DelayInv == DelayTypeOK /\ DueOnPhase

\* The timer was armed at the instant now for the setting the entry holds.
ArmedNow ==
    /\ interval \in Lengths /\ hasPhase \in BOOLEAN /\ phaseRef \in References
    /\ span \in Spans /\ now \in Nat
    /\ \E delay : /\ delay \in NextDelays(now, hasPhase, phaseRef, interval, span)
                  /\ due = now + delay

LEMMA ArmingEstablishes == ArmedNow => DelayInv
  <1> SUFFICES ASSUME ArmedNow PROVE DelayInv
    OBVIOUS
  <1>1. PICK delay : /\ delay \in NextDelays(now, hasPhase, phaseRef, interval, span)
                     /\ due = now + delay
    BY DEF ArmedNow
  <1>2. /\ interval \in Nat \ {0} /\ phaseRef \in Int /\ span \in Nat
        /\ hasPhase \in BOOLEAN /\ now \in Nat
    BY DelayAssumption DEF ArmedNow
  <1>3. /\ delay \in Nat \ {0}
        /\ delay <= interval + (IF hasPhase THEN 0 ELSE span)
        /\ hasPhase => (now + delay - phaseRef) % interval = 0
    BY <1>1, <1>2, NextDelayBounds
  <1>4. DelayTypeOK
    BY <1>1, <1>2, <1>3 DEF DelayTypeOK, ArmedNow
  <1>5. DueOnPhase
    BY <1>1, <1>2, <1>3 DEF DueOnPhase
  <1> QED BY <1>4, <1>5 DEF DelayInv

\* nextDelayLocked and the re-arming of drain: whatever the ACS writes into
\* the interval and PeriodicInformTime and however long a session takes, an
\* anchored tick falls due on its phase, and the next one is never skipped.
THEOREM TicksOnPhase == DelaySpec => []DueOnPhase
  <1>1. DelayInit => ArmedNow
    <2> SUFFICES ASSUME DelayInit PROVE ArmedNow
      OBVIOUS
    <2>1. due \in NextDelays(now, hasPhase, phaseRef, interval, span)
      BY Zenon DEF DelayInit
    <2>2. interval \in Nat \ {0} /\ phaseRef \in Int /\ span \in Nat /\ now \in Nat
      BY DelayAssumption DEF DelayInit
    <2>3. due \in Nat
      BY <2>1, <2>2, NextDelayBounds DEF DelayInit
    <2>4. due = now + due
      BY <2>3 DEF DelayInit
    <2> QED BY <2>1, <2>2, <2>4 DEF DelayInit, ArmedNow
  <1>2. DelayInv /\ DelayNext => ArmedNow'
    <2> SUFFICES ASSUME DelayInv, DelayNext PROVE ArmedNow'
      OBVIOUS
    <2>1. CASE Tick
      <3>1. now' \in Nat
        BY <2>1, DelayAssumption DEF Tick, DelayInv, DelayTypeOK
      <3> QED BY <2>1, <3>1 DEF Tick, DelayInv, DelayTypeOK, ArmedNow
    <2>2. CASE Reschedule
      <3>1. now' \in Nat
        BY <2>2 DEF Reschedule, DelayInv, DelayTypeOK
      <3> QED BY <2>2, <3>1 DEF Reschedule, DelayInv, DelayTypeOK, ArmedNow
    <2> QED BY <2>1, <2>2 DEF DelayNext
  <1>3. DelayInv /\ UNCHANGED delayVars => DelayInv'
    BY DEF delayVars, DelayInv, DelayTypeOK, DueOnPhase
  <1>4. DelayInv => DueOnPhase
    BY DEF DelayInv
  <1> QED BY <1>1, <1>2, <1>3, <1>4, ArmingEstablishes, PTL DEF DelaySpec


-----------------------------------------------------------------------------
(* The firmware sequence *)

LEMMA RequestType ==
    ASSUME RunnerTypeOK, NEW t \in Trigger, Request(t)
    PROVE  RunnerTypeOK'
  BY DEF RunnerTypeOK, Request, Latch, RunNow

\* Every variable keeps its type, the stages of runFirmwareUpgrade included.
THEOREM FirmwareTypeCorrect == FirmwareSpec => []FirmwareTypeOK
  <1>1. FirmwareInit => FirmwareTypeOK
    <2> SUFFICES ASSUME FirmwareInit
                 PROVE  FirmwareTypeOK
      OBVIOUS
    <2>1. RunnerTypeOK
      BY DEF FirmwareInit, RunnerInit, RunnerTypeOK
    <2> QED BY <2>1, FirmwareAssumption DEF FirmwareInit, FirmwareTypeOK, Stage
  <1>2. FirmwareTypeOK /\ [FirmwareNext]_firmwareVars => FirmwareTypeOK'
    <2> SUFFICES ASSUME FirmwareTypeOK, [FirmwareNext]_firmwareVars
                 PROVE  FirmwareTypeOK'
      OBVIOUS
    <2> USE DEF FirmwareTypeOK, otherVars, Advance
    <2>1. ASSUME NEW d \in Downloads, AcceptDownload(d)
          PROVE  FirmwareTypeOK'
      <3>1. sequence' \in [Downloads -> Stage]
        BY <2>1 DEF AcceptDownload, Stage
      <3> QED BY <2>1, <3>1 DEF AcceptDownload, RunnerTypeOK, runnerVars
    <2>2. ASSUME NEW d \in Downloads, SequenceStep(d)
          PROVE  FirmwareTypeOK'
      <3>1. sequence' \in [Downloads -> Stage]
        BY <2>2 DEF SequenceStep, Stage, ArmSettle, SettleExpires, SettleClearsSlot,
           ImageAccepted, ArmApply, ApplyExpires, ApplyClearsSlot, WriteVersion,
           QueueSuccess, ApplyGoesOnline, RequestBoot, ImageRejected, QueueFault,
           RequestDelivery
      <3>2. CASE RequestBoot(d) \/ RequestDelivery(d)
        <4>1. "Startup" \in Trigger /\ "TransferComplete" \in Trigger
          BY DEF Trigger
        <4>2. RunnerTypeOK'
          BY <3>2, <4>1, RequestType DEF RequestBoot, RequestDelivery
        <4> QED BY <3>1, <3>2, <4>2 DEF RequestBoot, RequestDelivery
      <3>3. CASE ~(RequestBoot(d) \/ RequestDelivery(d))
        BY <2>2, <3>1, <3>3 DEF SequenceStep, ArmSettle, SettleExpires,
           SettleClearsSlot, ImageAccepted, ArmApply, ApplyExpires, ApplyClearsSlot,
           WriteVersion, QueueSuccess, ApplyGoesOnline, ImageRejected, QueueFault,
           RunnerTypeOK, runnerVars, setOffline, setOnline
      <3> QED BY <3>2, <3>3
    <2>3. CASE LinkGoesDown \/ LinkComesBack
      <3>1. RunnerTypeOK'
        BY <2>3 DEF LinkGoesDown, LinkComesBack, setOffline, setOnline, RunnerTypeOK
      <3> QED BY <2>3, <3>1, FirmwareAssumption DEF LinkGoesDown, LinkComesBack
    <2>4. CASE SessionEnds
      BY <2>4 DEF SessionEnds, GoIdle, RunDeferred, RunnerTypeOK
    <2>5. ASSUME NEW t \in {"Periodic", "ConnectionRequest"}, NaturalTrigger(t)
          PROVE  FirmwareTypeOK'
      <3>1. RunnerTypeOK'
        BY <2>5, RequestType DEF NaturalTrigger, Trigger
      <3> QED BY <2>5, <3>1, FirmwareAssumption DEF NaturalTrigger
    <2>6. CASE UNCHANGED firmwareVars
      BY <2>6 DEF firmwareVars, RunnerTypeOK, runnerVars
    <2> QED BY <2>1, <2>2, <2>3, <2>4, <2>5, <2>6 DEF FirmwareNext
  <1> QED BY <1>1, <1>2, PTL DEF FirmwareSpec

-----------------------------------------------------------------------------
(* The dark window *)

\* The stages from which a sequence still reaches setOnline, or is rejected.
Reaching == DarkStages \cup {"accepted", "settling", "settled", "fetching"}

\* A link fault in flight was counted; with the property itself this is inductive.
DarkInv == DarkWindowEnds /\ (linkFault = "down" => linkFaults > 0)

\* A step of one sequence keeps another at its stage, and its own among the
\* reaching ones unless it goes online or its image is rejected.
LEMMA ReachingStep ==
    ASSUME FirmwareTypeOK, NEW d \in Downloads, SequenceStep(d), NEW e \in Downloads,
           sequence[e] \in Reaching
    PROVE  sequence'[e] \in Reaching \/ Rejected' \/ ~offline'
  <1> USE DEF FirmwareTypeOK, Advance
  <1>1. CASE e # d
    BY <1>1 DEF SequenceStep, ArmSettle, SettleExpires, SettleClearsSlot, ImageAccepted,
       ArmApply, ApplyExpires, ApplyClearsSlot, WriteVersion, QueueSuccess,
       ApplyGoesOnline, RequestBoot, ImageRejected, QueueFault, RequestDelivery
  <1>2. CASE e = d
    <2>1. CASE ApplyGoesOnline(d)
      BY <2>1 DEF ApplyGoesOnline, setOnline
    <2>2. CASE ImageRejected(d)
      BY <2>2 DEF ImageRejected, Rejected
    <2>3. CASE ~(ApplyGoesOnline(d) \/ ImageRejected(d))
      BY <1>2, <2>3 DEF SequenceStep, ArmSettle, SettleExpires, SettleClearsSlot,
         ImageAccepted, ArmApply, ApplyExpires, ApplyClearsSlot, WriteVersion,
         QueueSuccess, RequestBoot, QueueFault, RequestDelivery, Reaching, DarkStages
    <2> QED BY <2>1, <2>2, <2>3
  <1> QED BY <1>1, <1>2

\* A rejected sequence stays rejected.
LEMMA RejectedStays ==
    ASSUME FirmwareTypeOK, NEW d \in Downloads, SequenceStep(d), Rejected
    PROVE  Rejected'
  <1>1. PICK e \in Downloads : sequence[e] \in {"faulting", "delivering", "failed"}
    BY DEF Rejected
  <1>2. sequence'[e] \in {"faulting", "delivering", "failed"}
    BY <1>1 DEF SequenceStep, ArmSettle, SettleExpires, SettleClearsSlot, ImageAccepted,
       ArmApply, ApplyExpires, ApplyClearsSlot, WriteVersion, QueueSuccess,
       ApplyGoesOnline, RequestBoot, ImageRejected, QueueFault, RequestDelivery,
       FirmwareTypeOK, Advance
  <1> QED BY <1>2 DEF Rejected

LEMMA DarkStep == FirmwareTypeOK /\ DarkInv /\ [FirmwareNext]_firmwareVars => DarkInv'
  <1> SUFFICES ASSUME FirmwareTypeOK, DarkInv, [FirmwareNext]_firmwareVars
               PROVE  DarkInv'
    OBVIOUS
  <1> USE DEF DarkInv, otherVars
  <1>1. ASSUME NEW d \in Downloads, AcceptDownload(d)
        PROVE  DarkInv'
    <2>1. sequence'[d] = "accepted" /\ busy' /\ UNCHANGED <<linkFault, linkFaults>>
      BY <1>1 DEF AcceptDownload, FirmwareTypeOK, runnerVars
    <2> QED BY <2>1 DEF DarkWindowEnds
  <1>2. ASSUME NEW d \in Downloads, SequenceStep(d)
        PROVE  DarkInv'
    <2>1. UNCHANGED <<linkFault, linkFaults>>
      BY <1>2 DEF SequenceStep, ArmSettle, SettleExpires, SettleClearsSlot,
         ImageAccepted, ArmApply, ApplyExpires, ApplyClearsSlot, WriteVersion,
         QueueSuccess, ApplyGoesOnline, RequestBoot, ImageRejected, QueueFault,
         RequestDelivery
    <2>2. ASSUME offline', ~Rejected'
          PROVE  \/ linkFault' = "down"
                 \/ \E e \in Downloads : sequence'[e] \in Reaching
      <3>1. CASE ImageAccepted(d)
        BY <3>1 DEF ImageAccepted, Advance, FirmwareTypeOK, Reaching, DarkStages
      <3>2. CASE ~ImageAccepted(d)
        <4>1. offline
          BY <1>2, <2>2, <3>2 DEF SequenceStep, ArmSettle, SettleExpires,
             SettleClearsSlot, ArmApply, ApplyExpires, ApplyClearsSlot, WriteVersion,
             QueueSuccess, ApplyGoesOnline, RequestBoot, ImageRejected, QueueFault,
             RequestDelivery, runnerVars, setOnline, Request, Latch, RunNow
        <4>2. linkFault = "down" \/ \E e \in Downloads : sequence[e] \in Reaching
          BY <4>1, <1>2, <2>2, RejectedStays DEF DarkWindowEnds, Reaching
        <4> QED BY <4>2, <2>1, <2>2, <1>2, ReachingStep
      <3> QED BY <3>1, <3>2
    <2>3. ASSUME deferred' # NoTrigger, ~busy', ~offline', linkFaults' = 0
          PROVE  \E e \in Downloads : sequence'[e] = "booting"
      <3>1. CASE ApplyGoesOnline(d)
        BY <3>1 DEF ApplyGoesOnline, Advance, FirmwareTypeOK
      <3>2. CASE RequestBoot(d) \/ RequestDelivery(d)
        BY <2>3, <3>2 DEF RequestBoot, RequestDelivery, Request, Latch, RunNow
      <3>3. CASE ~(ApplyGoesOnline(d) \/ RequestBoot(d) \/ RequestDelivery(d))
        <4>1. deferred # NoTrigger /\ ~busy /\ ~offline
          BY <1>2, <2>3, <3>3 DEF SequenceStep, ArmSettle, SettleExpires,
             SettleClearsSlot, ImageAccepted, ArmApply, ApplyExpires, ApplyClearsSlot,
             WriteVersion, QueueSuccess, ImageRejected, QueueFault, runnerVars, setOffline
        <4>2. PICK e \in Downloads : sequence[e] = "booting"
          BY <4>1, <2>1, <2>3 DEF DarkWindowEnds
        <4>3. sequence'[e] = "booting"
          BY <1>2, <3>3, <4>2 DEF SequenceStep, ArmSettle, SettleExpires,
             SettleClearsSlot, ImageAccepted, ArmApply, ApplyExpires, ApplyClearsSlot,
             WriteVersion, QueueSuccess, ImageRejected, QueueFault, Advance, FirmwareTypeOK
        <4> QED BY <4>3
      <3> QED BY <3>1, <3>2, <3>3
    <2> QED BY <2>1, <2>2, <2>3 DEF DarkWindowEnds, Reaching
  <1>3. CASE LinkGoesDown
    BY <1>3 DEF LinkGoesDown, DarkWindowEnds, setOffline, FirmwareTypeOK
  <1>4. CASE LinkComesBack
    BY <1>4 DEF LinkComesBack, DarkWindowEnds, setOnline, FirmwareTypeOK
  <1>5. CASE SessionEnds
    BY <1>5 DEF SessionEnds, GoIdle, RunDeferred, DarkWindowEnds, Rejected
  <1>6. ASSUME NEW t \in {"Periodic", "ConnectionRequest"}, NaturalTrigger(t)
        PROVE  DarkInv'
    BY <1>6 DEF NaturalTrigger, Request, Latch, RunNow, DarkWindowEnds, Rejected
  <1>7. CASE UNCHANGED firmwareVars
    BY <1>7 DEF firmwareVars, runnerVars, DarkWindowEnds, Rejected
  <1> QED BY <1>1, <1>2, <1>3, <1>4, <1>5, <1>6, <1>7 DEF FirmwareNext

\* What a dark window defers is not lost: an offline device has a sequence that
\* reaches setOnline or a link fault whose window ends, and a trigger latched in
\* the dark has a boot session coming (sessionRunner and runFirmwareUpgrade).
THEOREM DarkWindowsEnd == FirmwareSpec => []DarkWindowEnds
  <1>1. FirmwareInit => DarkInv
    BY DEF FirmwareInit, RunnerInit, DarkInv, DarkWindowEnds
  <1>2. DarkInv => DarkWindowEnds
    BY DEF DarkInv
  <1> QED BY <1>1, <1>2, FirmwareTypeCorrect, DarkStep, PTL DEF FirmwareSpec

-----------------------------------------------------------------------------
(* Refinement *)

\* Whatever the firmware sequences and link faults do, the runner's busy,
\* offline and deferred flags move only as request, setOffline and setOnline of
\* sessionRunner allow.
THEOREM RefinesRunner == FirmwareSpec => RunnerSpec
  <1>1. FirmwareInit => RunnerInit
    BY DEF FirmwareInit
  <1>2. [FirmwareNext]_firmwareVars => [RunnerNext]_runnerVars
    <2> SUFFICES ASSUME [FirmwareNext]_firmwareVars
                 PROVE  [RunnerNext]_runnerVars
      OBVIOUS
    <2> USE DEF RunnerNext
    <2>1. ASSUME NEW d \in Downloads, SequenceStep(d)
          PROVE  [RunnerNext]_runnerVars
      <3>1. "Startup" \in Trigger /\ "TransferComplete" \in Trigger
        BY DEF Trigger
      <3> QED BY <2>1, <3>1 DEF SequenceStep, ArmSettle, SettleExpires,
             SettleClearsSlot, ImageAccepted, ArmApply, ApplyExpires, ApplyClearsSlot,
             WriteVersion, QueueSuccess, ApplyGoesOnline, RequestBoot, ImageRejected,
             QueueFault, RequestDelivery
    <2>2. ASSUME NEW d \in Downloads, AcceptDownload(d)
          PROVE  UNCHANGED runnerVars
      BY <2>2 DEF AcceptDownload
    <2>3. CASE LinkGoesDown \/ LinkComesBack \/ SessionEnds
      BY <2>3 DEF LinkGoesDown, LinkComesBack, SessionEnds
    <2>4. ASSUME NEW t \in {"Periodic", "ConnectionRequest"}, NaturalTrigger(t)
          PROVE  RunnerNext
      BY <2>4 DEF NaturalTrigger, Trigger
    <2>5. CASE UNCHANGED firmwareVars
      BY <2>5 DEF firmwareVars
    <2> QED BY <2>1, <2>2, <2>3, <2>4, <2>5 DEF FirmwareNext
  <1> QED BY <1>1, <1>2, PTL DEF FirmwareSpec, RunnerSpec


-----------------------------------------------------------------------------
(* The event tracker: induction *)

LEMMA LeastElement ==
    ASSUME NEW S \in SUBSET Nat, S # {}
    PROVE  \E n \in S : \A m \in S : n <= m
  <1>1. PICK x \in S : \A y \in S : ~(<<y, x>> \in OpToRel(<, Nat))
    BY NatLessThanWellFounded, WFMin
  <1>2. \A y \in S : ~(y < x)
    BY <1>1 DEF OpToRel
  <1> QED BY <1>2

\* Induction up to a bound, for the set of numbers that have a property.
LEMMA InductionUpTo ==
    ASSUME NEW max \in Nat, NEW S, 0 \in S,
           \A n \in 0..(max - 1) : n \in S => n + 1 \in S
    PROVE  0..max \subseteq S
  <1> SUFFICES ASSUME NEW k \in 0..max, k \notin S PROVE FALSE
    OBVIOUS
  <1> DEFINE N == {n \in 0..max : n \notin S}
  <1>1. N \in SUBSET Nat /\ N # {}
    OBVIOUS
  <1>2. PICK n \in N : \A m \in N : n <= m
    BY <1>1, LeastElement
  <1>3. n - 1 \in 0..(max - 1) /\ n - 1 \notin N
    BY <1>2
  <1> QED BY <1>2, <1>3

-----------------------------------------------------------------------------
(* Sequences and the sets of their elements *)

LEMMA ToSetOfSeq ==
    ASSUME NEW S, NEW s \in Seq(S)
    PROVE  /\ ToSet(s) \subseteq S
           /\ \A x : x \in ToSet(s) <=> \E i \in 1..Len(s) : s[i] = x
           /\ ToSet(s) = {} <=> s = <<>>
  <1>1. \A x : x \in ToSet(s) <=> \E i \in 1..Len(s) : s[i] = x
    BY DEF ToSet
  <1>2. s # <<>> => s[1] \in ToSet(s)
    BY <1>1
  <1>3. ToSet(s) \subseteq S
    BY <1>1
  <1>4. s = <<>> => ToSet(s) = {}
    BY <1>1
  <1> QED BY <1>1, <1>2, <1>3, <1>4

LEMMA ToSetEmpty == ToSet(<<>>) = {}
  BY DEF ToSet

LEMMA ToSetSingle ==
    ASSUME NEW e
    PROVE  ToSet(<<e>>) = {e}
  BY DEF ToSet

LEMMA ToSetAppend ==
    ASSUME NEW S, NEW s \in Seq(S), NEW e \in S
    PROVE  ToSet(Append(s, e)) = ToSet(s) \cup {e}
  <1>1. Append(s, e) \in Seq(S) /\ Len(Append(s, e)) = Len(s) + 1 /\ Len(s) \in Nat
    OBVIOUS
  <1>2. /\ \A i \in 1..Len(s) : Append(s, e)[i] = s[i]
        /\ Append(s, e)[Len(s) + 1] = e
    OBVIOUS
  <1>3. \A x : x \in ToSet(Append(s, e)) <=>
               \E i \in 1..(Len(s) + 1) : Append(s, e)[i] = x
    BY <1>1, ToSetOfSeq
  <1>4. \A x : x \in ToSet(s) <=> \E i \in 1..Len(s) : s[i] = x
    BY ToSetOfSeq
  <1> QED BY <1>1, <1>2, <1>3, <1>4

LEMMA ToSetConcat ==
    ASSUME NEW S, NEW s \in Seq(S), NEW t \in Seq(S)
    PROVE  ToSet(s \o t) = ToSet(s) \cup ToSet(t)
  <1>1. /\ s \o t \in Seq(S) /\ Len(s \o t) = Len(s) + Len(t)
        /\ Len(s) \in Nat /\ Len(t) \in Nat
    OBVIOUS
  <1>2. /\ \A i \in 1..Len(s) : (s \o t)[i] = s[i]
        /\ \A i \in 1..Len(t) : (s \o t)[Len(s) + i] = t[i]
    BY <1>1
  <1>3. \A x : x \in ToSet(s \o t) <=>
               \E i \in 1..(Len(s) + Len(t)) : (s \o t)[i] = x
    BY <1>1, ToSetOfSeq
  <1>4. /\ \A x : x \in ToSet(s) <=> \E i \in 1..Len(s) : s[i] = x
        /\ \A x : x \in ToSet(t) <=> \E i \in 1..Len(t) : t[i] = x
    BY ToSetOfSeq
  <1>5. \A i \in 1..(Len(s) + Len(t)) :
           i \in 1..Len(s) \/ (i - Len(s) \in 1..Len(t) /\ i = Len(s) + (i - Len(s)))
    BY <1>1
  <1>6. \A i \in 1..Len(t) : Len(s) + i \in 1..(Len(s) + Len(t))
    BY <1>1
  <1>7. \A i \in 1..Len(s) : i \in 1..(Len(s) + Len(t))
    BY <1>1
  <1>8. ASSUME NEW x, x \in ToSet(s \o t) PROVE x \in ToSet(s) \cup ToSet(t)
    <2>1. PICK i \in 1..(Len(s) + Len(t)) : (s \o t)[i] = x
      BY <1>3, <1>8
    <2> QED BY <1>2, <1>4, <1>5, <2>1
  <1>9. ToSet(s) \subseteq ToSet(s \o t)
    BY <1>2, <1>3, <1>4, <1>7
  <1>10. ToSet(t) \subseteq ToSet(s \o t)
    BY <1>2, <1>3, <1>4, <1>6
  <1> QED BY <1>8, <1>9, <1>10

\* A concatenation has the elements of both and the head of the first.
Joins(u, s, t) == u = s \o t
LEMMA Concatenation ==
    ASSUME NEW S, NEW s \in Seq(S), NEW t \in Seq(S), NEW u, Joins(u, s, t)
    PROVE  /\ u \in Seq(S) /\ ToSet(u) = ToSet(s) \cup ToSet(t)
           /\ s # <<>> => u # <<>> /\ u[1] = s[1]
  <1>1. ToSet(u) = ToSet(s) \cup ToSet(t)
    BY ToSetConcat DEF Joins
  <1> QED BY <1>1 DEF Joins

LEMMA Single ==
    ASSUME NEW S, NEW e \in S, NEW u, u = <<e>>
    PROVE  u \in Seq(S) /\ ToSet(u) = {e} /\ u # <<>> /\ u[1] = e
  BY ToSetSingle

LEMMA ToSetHeadTail ==
    ASSUME NEW S, NEW s \in Seq(S), s # <<>>
    PROVE  /\ ToSet(s) = {Head(s)} \cup ToSet(Tail(s))
           /\ Head(s) \in S /\ Tail(s) \in Seq(S)
  <1>1. /\ Tail(s) \in Seq(S) /\ Head(s) \in S /\ Head(s) = s[1]
        /\ Len(s) \in Nat \ {0} /\ Len(Tail(s)) = Len(s) - 1
        /\ \A i \in 1..(Len(s) - 1) : Tail(s)[i] = s[i + 1]
    OBVIOUS
  <1>2. /\ \A x : x \in ToSet(s) <=> \E i \in 1..Len(s) : s[i] = x
        /\ \A x : x \in ToSet(Tail(s)) <=> \E i \in 1..(Len(s) - 1) : Tail(s)[i] = x
    BY <1>1, ToSetOfSeq
  <1>3. ASSUME NEW x, x \in ToSet(s) PROVE x \in {Head(s)} \cup ToSet(Tail(s))
    <2>1. PICK i \in 1..Len(s) : s[i] = x
      BY <1>2, <1>3
    <2>2. CASE i # 1
      <3>1. i - 1 \in 1..(Len(s) - 1) /\ Tail(s)[i - 1] = x
        BY <1>1, <2>1, <2>2
      <3> QED BY <1>2, <3>1
    <2> QED BY <1>1, <2>1, <2>2
  <1>4. \A i \in 1..(Len(s) - 1) : i + 1 \in 1..Len(s)
    BY <1>1
  <1>5. {Head(s)} \cup ToSet(Tail(s)) \subseteq ToSet(s)
    BY <1>1, <1>2, <1>4
  <1> QED BY <1>1, <1>3, <1>5

-----------------------------------------------------------------------------
(* dedupeEvents *)

\* No element of the sequence is repeated.
Distinct(s) == \A i, j \in 1..Len(s) : s[i] = s[j] => i = j

\* g is what the loop of dedupeEvents has kept after each of its first k rounds.
LoopUpTo(s, k, g) ==
    g = [n \in 0..k |-> IF n = 0 THEN <<>> ELSE Keep(g[n - 1], s[n])]

\* The loop is well defined.
LEMMA KeptOfDefined ==
    ASSUME NEW S, NEW s \in Seq(S)
    PROVE  LoopUpTo(s, Len(s), KeptOf(s))
  <1> DEFINE D == {k \in 0..Len(s) : \E g : LoopUpTo(s, k, g)}
  <1>1. Len(s) \in Nat
    OBVIOUS
  <1>2. 0 \in D
    <2> DEFINE g == [n \in 0..0 |-> <<>>]
    <2>1. LoopUpTo(s, 0, g)
      BY DEF LoopUpTo
    <2> QED BY <1>1, <2>1
  <1>3. ASSUME NEW k \in 0..(Len(s) - 1), k \in D PROVE k + 1 \in D
    <2>1. PICK g : LoopUpTo(s, k, g)
      BY <1>3
    <2> DEFINE h == [n \in 0..(k + 1) |-> IF n <= k THEN g[n] ELSE Keep(g[k], s[k + 1])]
    <2>2. \A n \in 0..k : g[n] = IF n = 0 THEN <<>> ELSE Keep(g[n - 1], s[n])
      BY <2>1 DEF LoopUpTo
    <2>3. \A n \in 0..k : h[n] = g[n]
      BY <1>1
    <2>4. h[k + 1] = Keep(g[k], s[k + 1])
      BY <1>1
    <2>5. \A n \in 0..(k + 1) : h[n] = IF n = 0 THEN <<>> ELSE Keep(h[n - 1], s[n])
      <3> SUFFICES ASSUME NEW n \in 0..(k + 1)
                   PROVE  h[n] = IF n = 0 THEN <<>> ELSE Keep(h[n - 1], s[n])
        OBVIOUS
      <3>1. CASE n \in 0..k
        <4>1. n # 0 => n - 1 \in 0..k
          BY <3>1
        <4> HIDE DEF h
        <4> QED BY <2>2, <2>3, <3>1, <4>1
      <3>2. CASE n = k + 1
        <4>1. k + 1 # 0 /\ (k + 1) - 1 = k /\ k \in 0..k
          BY <1>1
        <4> HIDE DEF h
        <4> QED BY <2>3, <2>4, <3>2, <4>1
      <3> QED BY <3>1, <3>2
    <2>6. LoopUpTo(s, k + 1, h)
      <3>1. h = [n \in 0..(k + 1) |-> h[n]]
        OBVIOUS
      <3> HIDE DEF h
      <3> QED BY <2>5, <3>1 DEF LoopUpTo
    <2>7. k + 1 \in 0..Len(s)
      BY <1>1
    <2> HIDE DEF h
    <2> QED BY <2>6, <2>7
  <1>4. Len(s) \in D
    <2> HIDE DEF D
    <2>1. 0..Len(s) \subseteq D
      BY <1>1, <1>2, <1>3, InductionUpTo
    <2> QED BY <1>1, <2>1
  <1>5. \E g : LoopUpTo(s, Len(s), g)
    BY <1>4
  <1> QED BY <1>5, Zenon DEF KeptOf, LoopUpTo

LEMMA KeptOfStep ==
    ASSUME NEW S, NEW s \in Seq(S)
    PROVE  /\ KeptOf(s)[0] = <<>>
           /\ \A n \in 1..Len(s) : KeptOf(s)[n] = Keep(KeptOf(s)[n - 1], s[n])
  <1>1. LoopUpTo(s, Len(s), KeptOf(s))
    BY KeptOfDefined
  <1>2. \A n \in 0..Len(s) : KeptOf(s)[n] = IF n = 0 THEN <<>> ELSE Keep(KeptOf(s)[n - 1], s[n])
    BY <1>1 DEF LoopUpTo
  <1>3. Len(s) \in Nat
    OBVIOUS
  <1> QED BY <1>2, <1>3

\* What Keep adds to the elements kept so far.
KeptRight(S, s, n, r) ==
    /\ r \in Seq(S) /\ Distinct(r)
    /\ \A x : x \in ToSet(r) <=> \E i \in 1..n : s[i] = x
    /\ n > 0 => r # <<>> /\ r[1] = s[1]

LEMMA KeepStep ==
    ASSUME NEW S, NEW s \in Seq(S), NEW n \in 0..(Len(s) - 1), NEW r,
           KeptRight(S, s, n, r)
    PROVE  KeptRight(S, s, n + 1, Keep(r, s[n + 1]))
  <1> DEFINE e == s[n + 1]
  <1>1. /\ r \in Seq(S) /\ Distinct(r) /\ Len(s) \in Nat /\ n \in Nat
        /\ \A x : x \in ToSet(r) <=> \E i \in 1..n : s[i] = x
        /\ n > 0 => r # <<>> /\ r[1] = s[1]
    BY DEF KeptRight
  <1>2. e \in S
    BY <1>1, ElementOfSeq
  <1>3. 1..(n + 1) = (1..n) \cup {n + 1}
    BY <1>1
  <1>4. n = 0 => ToSet(r) = {}
    BY <1>1
  <1> HIDE DEF e
  <1>5. \A x : (\E i \in 1..(n + 1) : s[i] = x) <=> x \in ToSet(r) \cup {e}
    BY <1>1, <1>3 DEF e
  <1>6. CASE e \in ToSet(r)
    <2>1. Keep(r, e) = r
      BY <1>6 DEF Keep
    <2>2. n > 0
      BY <1>1, <1>4, <1>6
    <2> QED BY <1>1, <1>5, <1>6, <2>1, <2>2 DEF KeptRight, e
  <1>7. CASE e \notin ToSet(r)
    <2>1. Keep(r, e) = Append(r, e)
      BY <1>7 DEF Keep
    <2>2. /\ Append(r, e) \in Seq(S) /\ Append(r, e) # <<>>
          /\ Len(Append(r, e)) = Len(r) + 1 /\ Len(r) \in Nat
          /\ \A i \in 1..Len(r) : Append(r, e)[i] = r[i]
          /\ Append(r, e)[Len(r) + 1] = e
      BY <1>1, <1>2
    <2>3. ToSet(Append(r, e)) = ToSet(r) \cup {e}
      BY <1>1, <1>2, ToSetAppend
    <2>4. \A i \in 1..Len(r) : r[i] # e
      BY <1>1, <1>7, ToSetOfSeq
    <2>5. Distinct(Append(r, e))
      <3> SUFFICES ASSUME NEW i \in 1..(Len(r) + 1), NEW j \in 1..(Len(r) + 1),
                          Append(r, e)[i] = Append(r, e)[j]
                   PROVE  i = j
        BY <2>2 DEF Distinct
      <3>1. (i \in 1..Len(r) \/ i = Len(r) + 1) /\ (j \in 1..Len(r) \/ j = Len(r) + 1)
        BY <2>2
      <3> QED BY <1>1, <2>2, <2>4, <3>1 DEF Distinct
    <2>6. Append(r, e)[1] = s[1]
      <3>1. CASE n = 0
        <4>1. r = <<>>
          BY <1>1, <1>4, <3>1, ToSetOfSeq
        <4> QED BY <2>2, <3>1, <4>1 DEF e
      <3>2. CASE n > 0
        BY <1>1, <2>2, <3>2
      <3> QED BY <1>1, <3>1, <3>2
    <2> QED BY <1>5, <2>1, <2>2, <2>3, <2>5, <2>6 DEF KeptRight, e
  <1> QED BY <1>6, <1>7 DEF e

\* dedupeEvents returns the elements it is given, each once, led by the first.
LEMMA DedupeEvents ==
    ASSUME NEW S, NEW s \in Seq(S)
    PROVE  /\ dedupeEvents(s) \in Seq(S)
           /\ Distinct(dedupeEvents(s))
           /\ ToSet(dedupeEvents(s)) = ToSet(s)
           /\ s # <<>> => dedupeEvents(s) # <<>> /\ dedupeEvents(s)[1] = s[1]
  <1> DEFINE D == {n \in 0..Len(s) : KeptRight(S, s, n, KeptOf(s)[n])}
  <1>1. Len(s) \in Nat
    OBVIOUS
  <1>2. 0 \in D
    <2>1. KeptRight(S, s, 0, <<>>)
      BY ToSetEmpty DEF KeptRight, Distinct
    <2> QED BY <1>1, <2>1, KeptOfStep
  <1>3. ASSUME NEW n \in 0..(Len(s) - 1), n \in D PROVE n + 1 \in D
    <2>1. KeptRight(S, s, n + 1, Keep(KeptOf(s)[n], s[n + 1]))
      BY <1>3, KeepStep
    <2>2. n + 1 \in 1..Len(s) /\ (n + 1) - 1 = n
      BY <1>1
    <2>3. KeptOf(s)[n + 1] = Keep(KeptOf(s)[n], s[n + 1])
      BY <2>2, KeptOfStep
    <2> QED BY <1>1, <2>1, <2>2, <2>3
  <1>4. Len(s) \in D
    <2> HIDE DEF D
    <2>1. 0..Len(s) \subseteq D
      BY <1>1, <1>2, <1>3, InductionUpTo
    <2> QED BY <1>1, <2>1
  <1>5. KeptRight(S, s, Len(s), dedupeEvents(s))
    BY <1>4 DEF dedupeEvents
  <1>6. \A x : x \in ToSet(s) <=> \E i \in 1..Len(s) : s[i] = x
    BY ToSetOfSeq
  <1>7. s # <<>> => Len(s) > 0
    BY <1>1
  <1> QED BY <1>5, <1>6, <1>7 DEF KeptRight


-----------------------------------------------------------------------------
(* The events a session draws *)

LEMMA PlainIsEvent ==
    ASSUME NEW c \in T!EventCode
    PROVE  T!Plain(c) \in T!Event
  BY DEF T!Plain, T!Event

LEMMA TrackerEvents ==
    /\ T!Plain("0 BOOTSTRAP") \in T!Event
    /\ T!Plain("7 TRANSFER COMPLETE") \in T!Event
    /\ T!Plain("2 PERIODIC") \in T!Event
    /\ \A k \in Keys : [code |-> "M Download", key |-> k] \in T!Event
  BY DEF T!Plain, T!Event, T!EventCode, T!MethodCode

\* A trigger has one event of its own, a retry none.
LEMMA PrimaryEventsOf ==
    ASSUME NEW t \in Trigger
    PROVE  \/ t = "Retry" /\ T!PrimaryEvents(t) = {}
           \/ t # "Retry" /\ \E e \in T!Event : T!PrimaryEvents(t) = {e}
  BY DEF T!PrimaryEvents, T!Plain, T!Event, T!EventCode, Trigger

LEMMA SetToSeqEmpty == SetToSeq({}) = <<>>
  <1>1. Cardinality({}) = 0
    BY FS_EmptySet
  <1>2. <<>> \in [1..0 -> {}]
    OBVIOUS
  <1>3. ASSUME NEW f \in [1..0 -> {}] PROVE f = <<>>
    <2>1. f \in Seq({}) /\ Len(f) = 0
      OBVIOUS
    <2> QED BY <2>1
  <1>4. IsInjective(<<>>)
    BY DEF IsInjective
  <1> QED BY <1>1, <1>2, <1>3, <1>4 DEF SetToSeq

LEMMA SetToSeqSingle ==
    ASSUME NEW e
    PROVE  SetToSeq({e}) = <<e>>
  <1>1. Cardinality({e}) = 1
    BY FS_Singleton
  <1>2. [1..1 -> {e}] = {<<e>>}
    OBVIOUS
  <1>3. IsInjective(<<e>>)
    BY DEF IsInjective
  <1> QED BY <1>1, <1>2, <1>3 DEF SetToSeq

LEMMA PrimaryOf ==
    ASSUME NEW t \in Trigger
    PROVE  /\ Primary(t) \in Seq(T!Event)
           /\ ToSet(Primary(t)) = T!PrimaryEvents(t)
           /\ t # "Retry" => Primary(t) # <<>> /\ Primary(t)[1] \in T!PrimaryEvents(t)
  <1>1. CASE t = "Retry" /\ T!PrimaryEvents(t) = {}
    <2>1. Primary(t) = <<>>
      BY <1>1, SetToSeqEmpty DEF Primary
    <2>2. Primary(t) \in Seq(T!Event)
      BY <2>1, EmptySeq
    <2>3. ToSet(Primary(t)) = T!PrimaryEvents(t)
      BY <1>1, <2>1, ToSetEmpty, Zenon
    <2>4. t = "Retry"
      BY <1>1
    <2> QED BY <2>2, <2>3, <2>4
  <1>2. CASE t # "Retry" /\ \E e \in T!Event : T!PrimaryEvents(t) = {e}
    <2>1. PICK e \in T!Event : T!PrimaryEvents(t) = {e}
      BY <1>2
    <2>2. Primary(t) = <<e>>
      BY <2>1, SetToSeqSingle DEF Primary
    <2> QED BY <2>1, <2>2, Single
  <1> QED BY <1>1, <1>2, PrimaryEventsOf


-----------------------------------------------------------------------------
(* The inductive invariant *)

SliceTypes ==
    /\ bootstrapDone \in BOOLEAN /\ bootstrapPending \in BOOLEAN
    /\ pendingEvents \in Seq(T!Event) /\ events \in Seq(T!Event)
    /\ pendingValueChanges \in Seq(Paths) /\ valueChangeList \in Seq(Paths)
    /\ pendingTransferCompletes \in Seq(Keys) /\ transferCompletes \in Seq(Keys)
    /\ pendingDUStateCompletes \in Seq(Keys) /\ duStateCompletes \in Seq(Keys)
    /\ requeue \in [events : Seq(T!Event), transfers : Seq(Keys), dustates : Seq(Keys)]

\* Only the re-queue of a failed session has something to put back.
RequeueOnly == step # "requeue" => requeue = NothingToRequeue

\* EventArrayInOrder, and the queue its value-change list is copied from.
InOrder ==
    /\ Distinct(events) /\ Distinct(valueChangeList) /\ Distinct(pendingValueChanges)
    /\ lead \notin {NoTrigger, "Retry"} => events[1] \in T!PrimaryEvents(lead)

SliceInv == SliceTypes /\ RequeueOnly /\ InOrder

\* What NextSessionEvents strings together before it removes duplicates.
Strung(t) ==
    LET latch == IF bootstrapDone THEN <<>> ELSE <<T!Plain("0 BOOTSTRAP")>>
        queued == IF t = "Retry" THEN pendingEvents \o latch
                                 ELSE Primary(t) \o latch \o pendingEvents
        transfer == IF pendingTransferCompletes = <<>> THEN <<>>
                    ELSE <<T!Plain("7 TRANSFER COMPLETE")>>
    IN  queued \o transfer

LEMMA StrungIsSession ==
    ASSUME NEW t \in Trigger, SliceTypes, requeue = NothingToRequeue
    PROVE  /\ Strung(t) \in Seq(T!Event)
           /\ ToSet(Strung(t)) = T!SessionEvents(t)
           /\ t # "Retry" => Strung(t) # <<>> /\ Strung(t)[1] \in T!PrimaryEvents(t)
  <1>1. PICK latch : latch = IF bootstrapDone THEN <<>> ELSE <<T!Plain("0 BOOTSTRAP")>>
    OBVIOUS
  <1>2. PICK transfer : transfer = IF pendingTransferCompletes = <<>> THEN <<>>
                                   ELSE <<T!Plain("7 TRANSFER COMPLETE")>>
    OBVIOUS
  <1>3. PICK prim : prim = Primary(t)
    OBVIOUS
  <1>4. /\ latch \in Seq(T!Event)
        /\ ToSet(latch) = IF bootstrapDone THEN {} ELSE {T!Plain("0 BOOTSTRAP")}
    <2>1. CASE bootstrapDone
      BY <1>1, <2>1, ToSetEmpty, EmptySeq
    <2>2. CASE ~bootstrapDone
      <3>1. latch = <<T!Plain("0 BOOTSTRAP")>>
        BY <1>1, <2>2
      <3> QED BY <2>2, <3>1, Single, TrackerEvents
    <2> QED BY <2>1, <2>2
  <1>5. /\ transfer \in Seq(T!Event)
        /\ ToSet(transfer) = IF pendingTransferCompletes = <<>> THEN {}
                             ELSE {T!Plain("7 TRANSFER COMPLETE")}
    <2>1. CASE pendingTransferCompletes = <<>>
      BY <1>2, <2>1, ToSetEmpty, EmptySeq
    <2>2. CASE pendingTransferCompletes # <<>>
      <3>1. transfer = <<T!Plain("7 TRANSFER COMPLETE")>>
        BY <1>2, <2>2
      <3> QED BY <2>2, <3>1, Single, TrackerEvents
    <2> QED BY <2>1, <2>2
  <1>6. /\ prim \in Seq(T!Event) /\ ToSet(prim) = T!PrimaryEvents(t)
        /\ t # "Retry" => prim # <<>> /\ prim[1] \in T!PrimaryEvents(t)
    BY <1>3, PrimaryOf
  <1>7. pendingEvents \in Seq(T!Event) /\ pendingTransferCompletes \in Seq(Keys)
    BY DEF SliceTypes
  <1>8. T!SessionEvents(t) = T!PrimaryEvents(t) \cup ToSet(latch) \cup ToSet(pendingEvents)
                              \cup ToSet(transfer)
    <2>1. PutBack(requeue.events) = {}
      BY ToSetEmpty DEF PutBack, NothingToRequeue
    <2>2. pendingTransferCompletes \o requeue.transfers = pendingTransferCompletes
      BY <1>7, ConcatEmptySeq DEF NothingToRequeue
    <2>3. ToSet(pendingTransferCompletes) = {} <=> pendingTransferCompletes = <<>>
      BY <1>7, ToSetOfSeq
    <2> QED BY <1>4, <1>5, <2>1, <2>2, <2>3 DEF T!SessionEvents
  <1>11. latch \in Seq(T!Event) /\ transfer \in Seq(T!Event) /\ prim \in Seq(T!Event)
    BY <1>4, <1>5, <1>6
  <1>9. CASE t = "Retry"
    <2>1. Strung(t) = (pendingEvents \o latch) \o transfer
      BY <1>1, <1>2, <1>9 DEF Strung
    <2>2. PICK a : Joins(a, pendingEvents, latch)
      BY DEF Joins
    <2>3. a \in Seq(T!Event) /\ ToSet(a) = ToSet(pendingEvents) \cup ToSet(latch)
      BY <1>11, <1>7, <2>2, Concatenation
    <2>4. Joins(Strung(t), a, transfer)
      BY <2>1, <2>2 DEF Joins
    <2>5. Strung(t) \in Seq(T!Event) /\ ToSet(Strung(t)) = ToSet(a) \cup ToSet(transfer)
      BY <1>11, <2>3, <2>4, Concatenation
    <2>6. T!PrimaryEvents(t) = {}
      BY <1>9, PrimaryEventsOf
    <2> QED BY <1>8, <1>9, <2>3, <2>5, <2>6
  <1>10. CASE t # "Retry"
    <2>1. Strung(t) = ((prim \o latch) \o pendingEvents) \o transfer
      BY <1>1, <1>2, <1>3, <1>10 DEF Strung
    <2>2. PICK a : Joins(a, prim, latch)
      BY DEF Joins
    <2>3. PICK b : Joins(b, a, pendingEvents)
      BY DEF Joins
    <2>4. Joins(Strung(t), b, transfer)
      BY <2>1, <2>2, <2>3 DEF Joins
    <2>5. prim # <<>> /\ prim[1] \in T!PrimaryEvents(t)
      BY <1>6, <1>10
    <2>6. /\ a \in Seq(T!Event) /\ ToSet(a) = ToSet(prim) \cup ToSet(latch)
          /\ a # <<>> /\ a[1] = prim[1]
      BY <1>11, <2>2, <2>5, Concatenation
    <2>7. /\ b \in Seq(T!Event) /\ ToSet(b) = ToSet(a) \cup ToSet(pendingEvents)
          /\ b # <<>> /\ b[1] = a[1]
      BY <1>7, <2>3, <2>6, Concatenation
    <2>8. /\ Strung(t) \in Seq(T!Event)
          /\ ToSet(Strung(t)) = ToSet(b) \cup ToSet(transfer)
          /\ Strung(t) # <<>> /\ Strung(t)[1] = b[1]
      BY <1>11, <2>4, <2>7, Concatenation
    <2> QED BY <1>6, <1>8, <2>5, <2>6, <2>7, <2>8
  <1> QED BY <1>9, <1>10

LEMMA DrawnEvents ==
    ASSUME NEW t \in Trigger, SliceTypes, RequeueOnly, NextSessionEvents(t)
    PROVE  /\ events' \in Seq(T!Event) /\ Distinct(events')
           /\ ToSet(events') = T!SessionEvents(t)
           /\ t # "Retry" => events'[1] \in T!PrimaryEvents(t)
           /\ lead' = t /\ requeue = NothingToRequeue
  <1>1. events' = dedupeEvents(Strung(t)) /\ lead' = t /\ step = "events"
    BY DEF NextSessionEvents, Strung
  <1>2. requeue = NothingToRequeue
    BY <1>1 DEF RequeueOnly
  <1> QED BY <1>1, <1>2, StrungIsSession, DedupeEvents


\* An append keeps a list of paths free of repetitions.
LEMMA AppendDistinct ==
    ASSUME NEW S, NEW s \in Seq(S), NEW e \in S, Distinct(s), e \notin ToSet(s)
    PROVE  Distinct(Append(s, e))
  <1>1. /\ Len(Append(s, e)) = Len(s) + 1 /\ Len(s) \in Nat
        /\ \A i \in 1..Len(s) : Append(s, e)[i] = s[i]
        /\ Append(s, e)[Len(s) + 1] = e
    OBVIOUS
  <1>2. \A i \in 1..Len(s) : s[i] # e
    BY ToSetOfSeq
  <1> SUFFICES ASSUME NEW i \in 1..(Len(s) + 1), NEW j \in 1..(Len(s) + 1),
                      Append(s, e)[i] = Append(s, e)[j]
               PROVE  i = j
    BY <1>1 DEF Distinct
  <1>3. (i \in 1..Len(s) \/ i = Len(s) + 1) /\ (j \in 1..Len(s) \/ j = Len(s) + 1)
    BY <1>1
  <1> QED BY <1>1, <1>2, <1>3 DEF Distinct

LEMMA SliceInit == SlicesInit => SliceInv
  <1> SUFFICES ASSUME SlicesInit PROVE SliceInv
    OBVIOUS
  <1>1. SliceTypes
    BY EmptySeq DEF SlicesInit, SliceTypes, NothingToRequeue
  <1>2. RequeueOnly
    BY DEF SlicesInit, RequeueOnly
  <1>3. InOrder
    BY DEF SlicesInit, InOrder, Distinct
  <1> QED BY <1>1, <1>2, <1>3 DEF SliceInv

\* The steps of a session and of its re-queue.
LEMMA SliceSessionStep ==
    ASSUME SliceInv,
           \/ \E t \in Triggered : NextSessionEvents(t)
           \/ DrainTransferCompletes \/ DrainDUStateChangeCompletes
           \/ SessionParameterLists \/ Acknowledge \/ ResetBootstrap
           \/ RequeueBegins \/ RequeueEvent \/ RequeueTransferComplete
           \/ RequeueDUStateComplete \/ RequeueEnds
    PROVE  SliceInv'
  <1> USE DEF SliceInv, queues, bootstrap, drawn
  <1>1. ASSUME NEW t \in Triggered, NextSessionEvents(t) PROVE SliceInv'
    <2>1. t \in Trigger
      BY SlicesAssumption
    <2>2. /\ events' \in Seq(T!Event) /\ Distinct(events')
          /\ t # "Retry" => events'[1] \in T!PrimaryEvents(t)
          /\ lead' = t /\ requeue = NothingToRequeue
      BY <1>1, <2>1, DrawnEvents
    <2>3. SliceTypes'
      BY <1>1, <2>2, EmptySeq DEF NextSessionEvents, SliceTypes
    <2>4. RequeueOnly'
      BY <1>1, <2>2 DEF NextSessionEvents, RequeueOnly
    <2>5. InOrder'
      BY <1>1, <2>2 DEF NextSessionEvents, InOrder, T!PrimaryEvents
    <2> QED BY <2>3, <2>4, <2>5
  <1>2. CASE DrainTransferCompletes
    BY <1>2, EmptySeq DEF DrainTransferCompletes, SliceTypes, RequeueOnly, InOrder,
                          T!PrimaryEvents
  <1>3. CASE DrainDUStateChangeCompletes
    BY <1>3, EmptySeq DEF DrainDUStateChangeCompletes, SliceTypes, RequeueOnly, InOrder,
                          T!PrimaryEvents
  <1>4. CASE SessionParameterLists
    BY <1>4 DEF SessionParameterLists, SliceTypes, RequeueOnly, InOrder, T!PrimaryEvents
  <1>5. CASE Acknowledge
    <2>1. SliceTypes'
      BY <1>5, EmptySeq DEF Acknowledge, SliceTypes
    <2>2. InOrder'
      <3>1. Distinct(<<>>)
        BY DEF Distinct
      <3>2. Distinct(pendingValueChanges')
        BY <1>5, <3>1 DEF Acknowledge
      <3> QED BY <1>5, <3>2 DEF Acknowledge, InOrder, T!PrimaryEvents
    <2> QED BY <1>5, <2>1, <2>2 DEF Acknowledge, RequeueOnly
  <1>6. CASE ResetBootstrap
    BY <1>6 DEF ResetBootstrap, SliceTypes, RequeueOnly, InOrder, T!PrimaryEvents
  <1>7. CASE RequeueBegins
    BY <1>7 DEF RequeueBegins, SliceTypes, RequeueOnly, InOrder, T!PrimaryEvents
  <1>8. CASE RequeueEvent
    <2>1. /\ Head(requeue.events) \in T!Event /\ Tail(requeue.events) \in Seq(T!Event)
          /\ requeue \in [events : Seq(T!Event), transfers : Seq(Keys), dustates : Seq(Keys)]
      BY <1>8, ToSetHeadTail DEF RequeueEvent, SliceTypes
    <2>2. requeue' \in [events : Seq(T!Event), transfers : Seq(Keys), dustates : Seq(Keys)]
      BY <1>8, <2>1 DEF RequeueEvent
    <2>3. pendingEvents' \in Seq(T!Event)
      BY <1>8, <2>1, AppendProperties DEF RequeueEvent, SliceTypes
    <2>4. SliceTypes'
      BY <1>8, <2>2, <2>3 DEF RequeueEvent, SliceTypes
    <2>5. RequeueOnly'
      BY <1>8 DEF RequeueEvent, RequeueOnly, NothingToRequeue
    <2> QED BY <1>8, <2>4, <2>5 DEF RequeueEvent, InOrder, T!PrimaryEvents
  <1>9. CASE RequeueTransferComplete
    <2>1. /\ Head(requeue.transfers) \in Keys /\ Tail(requeue.transfers) \in Seq(Keys)
          /\ requeue \in [events : Seq(T!Event), transfers : Seq(Keys), dustates : Seq(Keys)]
      BY <1>9, ToSetHeadTail DEF RequeueTransferComplete, SliceTypes
    <2>2. requeue' \in [events : Seq(T!Event), transfers : Seq(Keys), dustates : Seq(Keys)]
      BY <1>9, <2>1 DEF RequeueTransferComplete
    <2>3. pendingTransferCompletes' \in Seq(Keys)
      BY <1>9, <2>1, AppendProperties DEF RequeueTransferComplete, SliceTypes
    <2>4. SliceTypes'
      BY <1>9, <2>2, <2>3 DEF RequeueTransferComplete, SliceTypes
    <2>5. RequeueOnly'
      BY <1>9 DEF RequeueTransferComplete, RequeueOnly, NothingToRequeue
    <2> QED BY <1>9, <2>4, <2>5 DEF RequeueTransferComplete, InOrder, T!PrimaryEvents
  <1>10. CASE RequeueDUStateComplete
    <2>1. /\ Head(requeue.dustates) \in Keys /\ Tail(requeue.dustates) \in Seq(Keys)
          /\ requeue \in [events : Seq(T!Event), transfers : Seq(Keys), dustates : Seq(Keys)]
      BY <1>10, ToSetHeadTail DEF RequeueDUStateComplete, SliceTypes
    <2>2. requeue' \in [events : Seq(T!Event), transfers : Seq(Keys), dustates : Seq(Keys)]
      BY <1>10, <2>1 DEF RequeueDUStateComplete
    <2>3. pendingDUStateCompletes' \in Seq(Keys)
      BY <1>10, <2>1, AppendProperties DEF RequeueDUStateComplete, SliceTypes
    <2>4. SliceTypes'
      BY <1>10, <2>2, <2>3 DEF RequeueDUStateComplete, SliceTypes
    <2>5. RequeueOnly'
      BY <1>10 DEF RequeueDUStateComplete, RequeueOnly, NothingToRequeue
    <2> QED BY <1>10, <2>4, <2>5 DEF RequeueDUStateComplete, InOrder, T!PrimaryEvents
  <1>11. CASE RequeueEnds
    BY <1>11 DEF RequeueEnds, SliceTypes, RequeueOnly, InOrder, T!PrimaryEvents
  <1> QED BY <1>1, <1>2, <1>3, <1>4, <1>5, <1>6, <1>7, <1>8, <1>9, <1>10, <1>11

LEMMA SliceStep == SliceInv /\ [SlicesNext]_slicesVars => SliceInv'
  <1> SUFFICES ASSUME SliceInv, [SlicesNext]_slicesVars PROVE SliceInv'
    OBVIOUS
  <1>1. ASSUME NEW e \in T!Event, QueueEvent(e) PROVE SliceInv'
    <2>1. pendingEvents' \in Seq(T!Event)
      BY <1>1, AppendProperties DEF QueueEvent, SliceInv, SliceTypes
    <2> QED BY <1>1, <2>1 DEF QueueEvent, SliceInv, SliceTypes, RequeueOnly, InOrder,
                              bootstrap, drawn, T!PrimaryEvents
  <1>2. ASSUME NEW k \in Keys, QueueTransferComplete(k) PROVE SliceInv'
    <2>1. pendingTransferCompletes' \in Seq(Keys)
      BY <1>2, AppendProperties DEF QueueTransferComplete, SliceInv, SliceTypes
    <2> QED BY <1>2, <2>1 DEF QueueTransferComplete, SliceInv, SliceTypes, RequeueOnly,
                              InOrder, bootstrap, drawn, T!PrimaryEvents
  <1>3. ASSUME NEW k \in Keys, QueueDUStateChangeComplete(k) PROVE SliceInv'
    <2>1. pendingDUStateCompletes' \in Seq(Keys)
      BY <1>3, AppendProperties DEF QueueDUStateChangeComplete, SliceInv, SliceTypes
    <2> QED BY <1>3, <2>1 DEF QueueDUStateChangeComplete, SliceInv, SliceTypes,
                              RequeueOnly, InOrder, bootstrap, drawn, T!PrimaryEvents
  <1>4. ASSUME NEW p \in Paths, RecordValueChange(p) PROVE SliceInv'
    <2>1. pendingValueChanges' \in Seq(Paths) /\ Distinct(pendingValueChanges')
      <3>1. pendingValueChanges \in Seq(Paths) /\ Distinct(pendingValueChanges)
        BY DEF SliceInv, SliceTypes, InOrder
      <3>2. CASE p \in ToSet(pendingValueChanges)
        BY <1>4, <3>1, <3>2 DEF RecordValueChange
      <3>3. CASE p \notin ToSet(pendingValueChanges)
        <4>1. pendingValueChanges' = Append(pendingValueChanges, p)
          BY <1>4, <3>3 DEF RecordValueChange
        <4>2. Distinct(Append(pendingValueChanges, p))
          BY <3>1, <3>3, AppendDistinct
        <4> QED BY <3>1, <4>1, <4>2, AppendProperties
      <3> QED BY <3>2, <3>3
    <2> QED BY <1>4, <2>1 DEF RecordValueChange, SliceInv, SliceTypes, RequeueOnly,
                              InOrder, bootstrap, drawn, T!PrimaryEvents
  <1>5. CASE UNCHANGED slicesVars
    BY <1>5 DEF slicesVars, queues, bootstrap, drawn, SliceInv, SliceTypes, RequeueOnly,
                InOrder, T!PrimaryEvents
  <1> QED BY <1>1, <1>2, <1>3, <1>4, <1>5, SliceSessionStep, TrackerEvents DEF SlicesNext

LEMMA SliceInvariant == SlicesSpec => []SliceInv
  BY SliceInit, SliceStep, PTL DEF SlicesSpec

\* NextSessionEvents, dedupeEvents and RecordValueChange: whatever was queued
\* and re-queued, the Event array repeats nothing and is led by the trigger's
\* event, and the value-change list names a path once.
THEOREM EventArrays == SlicesSpec => []EventArrayInOrder
  <1>1. SliceInv => EventArrayInOrder
    BY DEF SliceInv, InOrder, Distinct, EventArrayInOrder
  <1> QED BY <1>1, SliceInvariant, PTL

-----------------------------------------------------------------------------
(* The slices implement the set-valued tracker *)

\* What EventTracker sees of the queues.
SeenEvents == ToSet(pendingEvents) \cup PutBack(requeue.events)
SeenTransfers == ToSet(pendingTransferCompletes \o requeue.transfers)
SeenDUStates == ToSet(pendingDUStateCompletes \o requeue.dustates)

LEMMA Seen ==
    ASSUME SliceTypes
    PROVE  /\ SeenTransfers = ToSet(pendingTransferCompletes) \cup ToSet(requeue.transfers)
           /\ SeenDUStates = ToSet(pendingDUStateCompletes) \cup ToSet(requeue.dustates)
  BY ToSetConcat DEF SliceTypes, SeenTransfers, SeenDUStates

LEMMA NothingSeen ==
    ASSUME SliceTypes, requeue = NothingToRequeue
    PROVE  /\ SeenEvents = ToSet(pendingEvents)
           /\ SeenTransfers = ToSet(pendingTransferCompletes)
           /\ SeenDUStates = ToSet(pendingDUStateCompletes)
  <1>1. requeue.events = <<>> /\ requeue.transfers = <<>> /\ requeue.dustates = <<>>
    BY DEF NothingToRequeue
  <1>2. PutBack(requeue.events) = {}
    BY <1>1, ToSetEmpty DEF PutBack
  <1>3. ToSet(requeue.transfers) = {} /\ ToSet(requeue.dustates) = {}
    BY <1>1, ToSetEmpty
  <1> QED BY <1>2, <1>3, Seen DEF SeenEvents

\* A step of the loops of a failed session moves an element and changes nothing
\* of what EventTracker sees.
LEMMA RequeueUnseen ==
    ASSUME SliceInv, SliceInv',
           RequeueEvent \/ RequeueTransferComplete \/ RequeueDUStateComplete
    PROVE  UNCHANGED <<SeenEvents, SeenTransfers, SeenDUStates>>
  <1>0. SliceTypes /\ SliceTypes'
    BY DEF SliceInv
  <1>1. CASE RequeueEvent
    <2>1. PICK e : e = Head(requeue.events)
      OBVIOUS
    <2>2. /\ ToSet(requeue.events) = {e} \cup ToSet(Tail(requeue.events))
          /\ e \in T!Event /\ requeue.events' = Tail(requeue.events)
          /\ requeue'.transfers = requeue.transfers /\ requeue'.dustates = requeue.dustates
      BY <1>0, <1>1, <2>1, ToSetHeadTail DEF RequeueEvent, SliceTypes
    <2>3. requeue'.events = Tail(requeue.events)
      BY <2>2
    <2>4. CASE e.code \in NotRequeued
      <3>1. pendingEvents' = pendingEvents
        BY <1>1, <2>1, <2>4 DEF RequeueEvent
      <3>2. PutBack(requeue.events)' = PutBack(requeue.events)
        BY <2>2, <2>3, <2>4 DEF PutBack
      <3> QED BY <1>1, <2>2, <3>1, <3>2 DEF RequeueEvent, SeenEvents, SeenTransfers, SeenDUStates
    <2>5. CASE e.code \notin NotRequeued
      <3>0. pendingEvents' = Append(pendingEvents, e) /\ pendingEvents \in Seq(T!Event)
        BY <1>0, <1>1, <2>1, <2>5 DEF RequeueEvent, SliceTypes
      <3>1. ToSet(pendingEvents') = ToSet(pendingEvents) \cup {e}
        BY <2>2, <3>0, ToSetAppend
      <3>2. PutBack(requeue.events) = {e} \cup PutBack(requeue.events)'
        BY <2>2, <2>3, <2>5 DEF PutBack
      <3> QED BY <1>1, <2>2, <3>1, <3>2 DEF RequeueEvent, SeenEvents, SeenTransfers, SeenDUStates
    <2> QED BY <2>4, <2>5
  <1>2. CASE RequeueTransferComplete
    <2>1. PICK k : k = Head(requeue.transfers)
      OBVIOUS
    <2>2. /\ ToSet(requeue.transfers) = {k} \cup ToSet(Tail(requeue.transfers)) /\ k \in Keys
          /\ requeue'.transfers = Tail(requeue.transfers)
          /\ requeue'.events = requeue.events /\ requeue'.dustates = requeue.dustates
      BY <1>0, <1>2, <2>1, ToSetHeadTail DEF RequeueTransferComplete, SliceTypes
    <2>3. /\ pendingTransferCompletes' = Append(pendingTransferCompletes, k)
          /\ pendingTransferCompletes \in Seq(Keys) /\ pendingTransferCompletes' \in Seq(Keys)
          /\ requeue'.transfers \in Seq(Keys)
      BY <1>0, <1>2, <2>1 DEF RequeueTransferComplete, SliceTypes
    <2>4. ToSet(pendingTransferCompletes') = ToSet(pendingTransferCompletes) \cup {k}
      BY <2>2, <2>3, ToSetAppend
    <2>5. SeenTransfers' = ToSet(pendingTransferCompletes') \cup ToSet(requeue'.transfers)
      <3>1. SeenTransfers' = ToSet(pendingTransferCompletes' \o requeue'.transfers)
        BY DEF SeenTransfers
      <3>2. pendingTransferCompletes' \in Seq(Keys) /\ requeue'.transfers \in Seq(Keys)
        BY <2>3
      <3> QED BY <3>1, <3>2, ToSetConcat
    <2>6. SeenTransfers' = SeenTransfers
      BY <1>0, <2>2, <2>4, <2>5, Seen
    <2> QED BY <1>2, <2>2, <2>6 DEF RequeueTransferComplete, SeenEvents, SeenDUStates
  <1>3. CASE RequeueDUStateComplete
    <2>1. PICK k : k = Head(requeue.dustates)
      OBVIOUS
    <2>2. /\ ToSet(requeue.dustates) = {k} \cup ToSet(Tail(requeue.dustates)) /\ k \in Keys
          /\ requeue'.dustates = Tail(requeue.dustates)
          /\ requeue'.events = requeue.events /\ requeue'.transfers = requeue.transfers
      BY <1>0, <1>3, <2>1, ToSetHeadTail DEF RequeueDUStateComplete, SliceTypes
    <2>3. /\ pendingDUStateCompletes' = Append(pendingDUStateCompletes, k)
          /\ pendingDUStateCompletes \in Seq(Keys) /\ pendingDUStateCompletes' \in Seq(Keys)
          /\ requeue'.dustates \in Seq(Keys)
      BY <1>0, <1>3, <2>1 DEF RequeueDUStateComplete, SliceTypes
    <2>4. ToSet(pendingDUStateCompletes') = ToSet(pendingDUStateCompletes) \cup {k}
      BY <2>2, <2>3, ToSetAppend
    <2>5. SeenDUStates' = ToSet(pendingDUStateCompletes') \cup ToSet(requeue'.dustates)
      <3>1. SeenDUStates' = ToSet(pendingDUStateCompletes' \o requeue'.dustates)
        BY DEF SeenDUStates
      <3>2. pendingDUStateCompletes' \in Seq(Keys) /\ requeue'.dustates \in Seq(Keys)
        BY <2>3
      <3> QED BY <3>1, <3>2, ToSetConcat
    <2>6. SeenDUStates' = SeenDUStates
      BY <1>0, <2>2, <2>4, <2>5, Seen
    <2> QED BY <1>3, <2>2, <2>6 DEF RequeueDUStateComplete, SeenEvents, SeenTransfers
  <1> QED BY <1>1, <1>2, <1>3


\* Every step of the slices is a step of the tracker or invisible to it.
LEMMA TrackerStep ==
    ASSUME SliceInv, SliceInv', [SlicesNext]_slicesVars
    PROVE  [T!TrackerNext]_(T!trackerVars)
  <1> USE DEF T!trackerVars, T!queueVars, T!bootstrapVars, T!drawnVars,
              queues, bootstrap, drawn
  <1>0. SliceTypes /\ SliceTypes' /\ RequeueOnly /\ RequeueOnly'
    BY DEF SliceInv
  <1>1. ASSUME NEW t \in Triggered, NextSessionEvents(t) PROVE T!TrackerNext
    <2>1. t \in Trigger
      BY SlicesAssumption
    <2>2. ToSet(events') = T!SessionEvents(t) /\ requeue = NothingToRequeue
      BY <1>0, <1>1, <2>1, DrawnEvents
    <2>3. requeue' = requeue /\ pendingEvents' = <<>>
      BY <1>1 DEF NextSessionEvents
    <2>4. ToSet(pendingEvents') \cup PutBack(requeue.events)' = {}
      BY <2>2, <2>3, ToSetEmpty DEF PutBack, NothingToRequeue
    <2>5. /\ bootstrapPending' = (bootstrapPending \/ ~bootstrapDone)
          /\ UNCHANGED <<bootstrapDone, pendingValueChanges, pendingTransferCompletes,
                         pendingDUStateCompletes, transferCompletes, duStateCompletes,
                         valueChangeList, requeue>>
      BY <1>1 DEF NextSessionEvents
    <2>6. T!NextSessionEvents(t)
      BY <2>2, <2>4, <2>5, Zenon DEF T!NextSessionEvents
    <2>7. T!Trigger = Trigger
      BY DEF T!Trigger, Trigger
    <2> QED BY <2>1, <2>6, <2>7 DEF T!TrackerNext
  <1>2. CASE DrainTransferCompletes
    <2>1. requeue = NothingToRequeue /\ requeue' = NothingToRequeue
      BY <1>0, <1>2 DEF DrainTransferCompletes, RequeueOnly
    <2>2. SeenTransfers = ToSet(transferCompletes')
      BY <1>0, <1>2, <2>1, NothingSeen DEF DrainTransferCompletes
    <2>3. SeenTransfers' = {}
      BY <1>2, <2>1, ToSetEmpty, ConcatEmptySeq, EmptySeq
         DEF DrainTransferCompletes, SeenTransfers, NothingToRequeue
    <2>4. T!DrainTransferCompletes
      BY <1>2, <2>2, <2>3
         DEF DrainTransferCompletes, T!DrainTransferCompletes, SeenTransfers
    <2> QED BY <2>4 DEF T!TrackerNext
  <1>3. CASE DrainDUStateChangeCompletes
    <2>1. requeue = NothingToRequeue /\ requeue' = NothingToRequeue
      BY <1>0, <1>3 DEF DrainDUStateChangeCompletes, RequeueOnly
    <2>2. SeenDUStates = ToSet(duStateCompletes')
      BY <1>0, <1>3, <2>1, NothingSeen DEF DrainDUStateChangeCompletes
    <2>3. SeenDUStates' = {}
      BY <1>3, <2>1, ToSetEmpty, ConcatEmptySeq, EmptySeq
         DEF DrainDUStateChangeCompletes, SeenDUStates, NothingToRequeue
    <2>4. T!DrainDUStateChangeCompletes
      BY <1>3, <2>2, <2>3
         DEF DrainDUStateChangeCompletes, T!DrainDUStateChangeCompletes, SeenDUStates
    <2> QED BY <2>4 DEF T!TrackerNext
  <1>4. CASE SessionParameterLists
    BY <1>4 DEF SessionParameterLists, T!SessionParameterLists, T!TrackerNext
  <1>5. CASE Acknowledge
    <2>1. T!Acknowledge
      BY <1>5, ToSetEmpty DEF Acknowledge, T!Acknowledge
    <2> QED BY <2>1 DEF T!TrackerNext
  <1>6. CASE ResetBootstrap
    BY <1>6 DEF ResetBootstrap, T!ResetBootstrap, T!TrackerNext
  <1>7. CASE RequeueBegins
    <2>1. /\ requeue = NothingToRequeue /\ requeue'.events = events
          /\ requeue'.transfers = transferCompletes /\ requeue'.dustates = duStateCompletes
      BY <1>0, <1>7 DEF RequeueBegins, RequeueOnly
    <2>2. SeenEvents' = SeenEvents \cup {e \in ToSet(events) : e.code \notin NotRequeued}
      BY <1>0, <1>7, <2>1, NothingSeen DEF RequeueBegins, SeenEvents, PutBack
    <2>3. SeenTransfers' = SeenTransfers \cup ToSet(transferCompletes)
      <3>1. SeenTransfers' = ToSet(pendingTransferCompletes \o transferCompletes)
        BY <1>7, <2>1 DEF RequeueBegins, SeenTransfers
      <3>2. pendingTransferCompletes \in Seq(Keys) /\ transferCompletes \in Seq(Keys)
        BY <1>0 DEF SliceTypes
      <3> QED BY <1>0, <2>1, <3>1, <3>2, NothingSeen, ToSetConcat
    <2>4. SeenDUStates' = SeenDUStates \cup ToSet(duStateCompletes)
      <3>1. SeenDUStates' = ToSet(pendingDUStateCompletes \o duStateCompletes)
        BY <1>7, <2>1 DEF RequeueBegins, SeenDUStates
      <3>2. pendingDUStateCompletes \in Seq(Keys) /\ duStateCompletes \in Seq(Keys)
        BY <1>0 DEF SliceTypes
      <3> QED BY <1>0, <2>1, <3>1, <3>2, NothingSeen, ToSetConcat
    <2>5. UNCHANGED <<bootstrapDone, bootstrapPending, pendingValueChanges, events,
                      transferCompletes, duStateCompletes, valueChangeList>>
      BY <1>7 DEF RequeueBegins
    <2>6. T!NotRequeued = NotRequeued
      BY DEF T!NotRequeued, NotRequeued
    <2>7. T!Requeue
      BY <2>2, <2>3, <2>4, <2>5, <2>6, Zenon
         DEF T!Requeue, SeenEvents, SeenTransfers, SeenDUStates
    <2> QED BY <2>7 DEF T!TrackerNext
  <1>8. CASE RequeueEvent \/ RequeueTransferComplete \/ RequeueDUStateComplete
    <2>1. UNCHANGED <<SeenEvents, SeenTransfers, SeenDUStates>>
      BY <1>8, RequeueUnseen
    <2> QED BY <1>8, <2>1 DEF RequeueEvent, RequeueTransferComplete,
              RequeueDUStateComplete, SeenEvents, SeenTransfers, SeenDUStates
  <1>9. CASE RequeueEnds
    BY <1>9 DEF RequeueEnds
  <1>10. ASSUME NEW e \in T!Event, QueueEvent(e) PROVE T!QueueEvent(e)
    <2>1. ToSet(pendingEvents') = ToSet(pendingEvents) \cup {e}
      BY <1>0, <1>10, ToSetAppend DEF QueueEvent, SliceTypes
    <2> QED BY <1>10, <2>1 DEF QueueEvent, T!QueueEvent
  <1>11. ASSUME NEW k \in Keys, QueueTransferComplete(k) PROVE T!TrackerNext
    <2>1. /\ pendingTransferCompletes' = Append(pendingTransferCompletes, k)
          /\ pendingTransferCompletes \in Seq(Keys) /\ pendingTransferCompletes' \in Seq(Keys)
          /\ requeue' = requeue /\ requeue.transfers \in Seq(Keys)
      BY <1>0, <1>11 DEF QueueTransferComplete, SliceTypes
    <2>2. ToSet(pendingTransferCompletes') = ToSet(pendingTransferCompletes) \cup {k}
      BY <2>1, ToSetAppend
    <2>3. SeenTransfers' = ToSet(pendingTransferCompletes' \o requeue.transfers)
      BY <2>1 DEF SeenTransfers
    <2>4. SeenTransfers' = ToSet(pendingTransferCompletes') \cup ToSet(requeue.transfers)
      BY <2>1, <2>3, ToSetConcat
    <2>5. SeenTransfers' = SeenTransfers \cup {k}
      BY <1>0, <2>2, <2>4, Seen
    <2>6. T!QueueTransferComplete(k)
      BY <1>11, <2>5 DEF QueueTransferComplete, T!QueueTransferComplete, SeenTransfers
    <2> QED BY <2>6 DEF T!TrackerNext
  <1>12. ASSUME NEW k \in Keys, QueueDUStateChangeComplete(k) PROVE T!TrackerNext
    <2>1. /\ pendingDUStateCompletes' = Append(pendingDUStateCompletes, k)
          /\ pendingDUStateCompletes \in Seq(Keys) /\ pendingDUStateCompletes' \in Seq(Keys)
          /\ requeue' = requeue /\ requeue.dustates \in Seq(Keys)
      BY <1>0, <1>12 DEF QueueDUStateChangeComplete, SliceTypes
    <2>2. ToSet(pendingDUStateCompletes') = ToSet(pendingDUStateCompletes) \cup {k}
      BY <2>1, ToSetAppend
    <2>3. SeenDUStates' = ToSet(pendingDUStateCompletes' \o requeue.dustates)
      BY <2>1 DEF SeenDUStates
    <2>4. SeenDUStates' = ToSet(pendingDUStateCompletes') \cup ToSet(requeue.dustates)
      BY <2>1, <2>3, ToSetConcat
    <2>5. SeenDUStates' = SeenDUStates \cup {k}
      BY <1>0, <2>2, <2>4, Seen
    <2>6. T!QueueDUStateChangeComplete(k)
      BY <1>12, <2>5
         DEF QueueDUStateChangeComplete, T!QueueDUStateChangeComplete, SeenDUStates
    <2> QED BY <2>6 DEF T!TrackerNext
  <1>13. ASSUME NEW p \in Paths, RecordValueChange(p) PROVE T!TrackerNext
    <2>1. ToSet(pendingValueChanges') = ToSet(pendingValueChanges) \cup {p}
      <3>1. pendingValueChanges \in Seq(Paths)
        BY <1>0 DEF SliceTypes
      <3> QED BY <1>13, <3>1, ToSetAppend DEF RecordValueChange
    <2>2. T!RecordValueChange(p)
      BY <1>13, <2>1 DEF RecordValueChange, T!RecordValueChange
    <2> QED BY <2>2 DEF T!TrackerNext
  <1>14. ASSUME NEW k \in Keys, QueueEvent([code |-> "M Download", key |-> k])
         PROVE  T!TrackerNext
    <2>1. T!QueueMethod("M Download", k)
      BY <1>10, <1>14, TrackerEvents DEF T!QueueMethod
    <2>2. "M Download" \in T!MethodCode
      BY DEF T!MethodCode
    <2> QED BY <2>1, <2>2 DEF T!TrackerNext
  <1>15. CASE QueueEvent(T!Plain("2 PERIODIC"))
    <2>1. T!QueuePeriodic
      BY <1>10, <1>15, TrackerEvents DEF T!QueuePeriodic
    <2> QED BY <2>1 DEF T!TrackerNext
  <1>16. CASE UNCHANGED slicesVars
    BY <1>16 DEF slicesVars
  <1> QED BY <1>1, <1>2, <1>3, <1>4, <1>5, <1>6, <1>7, <1>8, <1>9, <1>11, <1>12, <1>13,
             <1>14, <1>15, <1>16 DEF SlicesNext

\* EventTracker, where queues are sets and the re-queue of a failed session is
\* one step, is what the rest of the program sees of the tracker: every method
\* and every turn of the re-queue loops maps to one of its steps or to none.
THEOREM SlicesImplementTracker == SlicesSpec => RefinesTracker
  <1>1. SlicesInit => T!TrackerInit
    <2> SUFFICES ASSUME SlicesInit PROVE T!TrackerInit
      OBVIOUS
    <2>1. <<>> \o <<>> = <<>>
      BY EmptySeq, ConcatEmptySeq
    <2> QED BY <2>1, ToSetEmpty DEF SlicesInit, T!TrackerInit, NothingToRequeue, PutBack
  <1>2. SliceInv /\ SliceInv' /\ [SlicesNext]_slicesVars => [T!TrackerNext]_(T!trackerVars)
    BY TrackerStep
  <1> QED BY <1>1, <1>2, SliceInvariant, PTL DEF SlicesSpec, RefinesTracker, T!TrackerSpec

=============================================================================
