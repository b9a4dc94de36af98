# Verification of cpe-labs

TLA+ modules, TLC configurations and TLAPS proofs about the CPE simulator in
`src/`: a Go program that runs a fleet of simulated customer-premises devices
against a CWMP (TR-069) auto-configuration server (ACS) and, optionally, a USP
(TR-369) controller. Line numbers are those of the sources beside this
directory; `PROJECT.json` maps every definition to its lines.

One process holds many CPEs. They share the generators' scheduler and little
else but goroutines, so the unit of every model is one CPE (two runners in
`Generators`).

## 1. Inventory

| component | state | operations | how it meets the others |
|---|---|---|---|
| Event tracker `internal/cwmp/eventtracker.go` | BOOTSTRAP latch, queued events, value-change paths, TransferComplete and DUStateChangeComplete records | `NextSessionEvents`, drains, `Acknowledge`, `Queue*`, `RecordValueChange`, `ResetBootstrap` | filled by RPC handlers, one-shots and tree observers; drained by `RunSession` |
| Session runner `cmd/cpe-sim/main.go:1679-1838` | `busy`, `offline`, one-slot latch, retry cancel | `request`, `runOne`, `cancelPendingRetry`, `setOffline`, `setOnline` | every source of sessions calls `request` from its own goroutine |
| `RunSession`, `Session.Run`, `AfterSession` | locals of one session; deferred writes | Inform, CPE-initiated RPCs, drain loop, acknowledge or re-queue | between runner, tracker, tree and ACS |
| Inform builder, retry policy | parameter lists of one session; failure count | `Build`; `OnFailure`, `Reset` | reads the tree and fails on an unreadable path; arms a one-shot through the runner |
| Periodic scheduler `scheduler/scheduler.go` | entry, Go timer, one-place change channel | drain loop, `OnIntervalChange`, `ScheduleOnce`, `Stop` | reads the tree, calls `OnTick` synchronously |
| Firmware sequence `firmware.go`, link fault `linkfault.go` | settle/apply one-shot, cancel slot, dark window | Download, supersede, apply, reject; link down/up | share the runner's `offline` flag; the fault also cuts the MQTT link |
| Transfers, reboot, factory reset, ChangeDUState | one-shots, cancel slots | accept, fire, queue, request | from a session's drain loop to a later session |
| Parameter tree `internal/paramtree` | nodes, attributes, observers | `Set`, `SetBatch`, `SetSystem`, `AddObject`, `DeleteObject`, `Graft`, `Unmount`, `Reset` | everyone writes it; observers run after the lock is released |
| RPC handlers `internal/cwmp/handlers`, USP messages `internal/usp/agent/operations.go` | none of their own | one per request | one lock of the tree per call they make |
| Software modules `internal/softwaremodules` | installed units, their rows, grafts, generators | install, update, uninstall; the USP busy flag | both protocols ask, one lock serialises |
| Generators, diagnostics | heap, job channel, workers, runners; in-flight runs | add, remove, tick, stop; trigger, supersede, complete | write the tree on timers |
| USP agent, bulk data, MQTT | subscriptions, Request table, firmware slot, retained reports, sockets, unacknowledged messages | boot, Operate, Notify, push, reconnect | the link fault cuts the uplink under them |
| Connection requests `cr`, `stun` | throttle, nonces; binding loop, replay window | HTTP GET, UDP datagram, STUN binding | call `request`; share the tree's credentials |
| HTTP transport | cached challenge, cookies | one POST per exchange, one retry | used by `Session.Run` |
| Profiles, configuration, SOAP and protobuf, support libraries | none after start-up | parsing, encoding | not concurrent |

What is hard here: whatever asks for a session runs on a goroutine of its own and
meets the others only at a few locks; a session is long, and state read at its
start is used at its end; every failure must put back what was taken; handlers
take the tree's lock once per call, so two of them interleave within a request;
observers run late; a cut link is noticed at different times by different sides;
change channels, tickers and job channels drop or block by design.
`PROJECT.json` lists these as hazards, at their lines, with the properties that
cover them.

## 2. Modules

| module | models |
|---|---|
| `Triggers` | the trigger enumeration, shared |
| `EventTracker` | the tracker with its queues as sets: what the rest of the program sees of it |
| `EventTrackerSlices` | the tracker with its slices, duplicates and the element-by-element re-queue; implements `EventTracker` |
| `SessionRunner` | `busy`, `offline`, the latch and its priorities |
| `CpeSession` | composes the two with `RunSession`, `Session.Run`, the retry one-shots and every source of sessions |
| `FirmwareSequence` | composes `SessionRunner` with the firmware one-shots and the link fault |
| `PeriodicScheduler` | the drain goroutine, the timer, the change channel, concurrent writers, `Stop` |
| `PeriodicDelay` | `nextDelayLocked` applied tick after tick |
| `ParamTree` | the tree's operations, as operators from trees to trees |
| `TreeAccess` | the ACS's RPC handlers, the USP message handler, the device and an observer on one tree |
| `SoftwareModules` | the application lifecycle on the tree, asked for by both protocols |
| `Generators`, `Diagnostics`, `TreeWriters` | the generators' engine; triggered diagnostics; the two together |
| `UspLink`, `UspAgent`, `BulkData`, `UspDevice` | the MQTT client and the uplink; the agent, its commands and the link fault; the bulk data collector; the three composed |
| `CrListener`, `StunClient`, `AcsTransport`, `Access` | the connection request listener; the STUN client; the HTTP transport; the ways in and out of a CPE, composed |
| `MC*` | instances for TLC |
| `CpeSessionProofs`, `TreeAccessProofs`, `TreeWritersProofs`, `AccessProofs`, `UspDeviceProofs`, `SoftwareModulesProofs` | theorems about the module of that name and those it composes, with their proofs |
| `TriggerProofs` | theorems about what makes a session due: the tracker's slices, the scheduler and its delay, the firmware sequence |
| `ParamTreeProofs` | lemmas about paths and the tree, for `TreeAccessProofs` and `SoftwareModulesProofs` |

### State and actions

`CpeSession`: `pc` is where the goroutine inside `runOne` stands (start, cancel
the pending retry, draw events, drain two record queues, read parameter lists,
inform, CPE-initiated RPCs, drain loop, after-session writes, acknowledge and
reset or re-queue, count and arm). A step is one call under a lock or one
exchange with the ACS, so another goroutine may run between any two of them.
`jobs` holds the progress of what the ACS asked for, one per command key, from
the accepted RPC through the fired one-shot to its own session request; `slot`
is `pendingScheduledCancels`; `timers` are retry one-shots, of which one may be
past its cancel check while the next is armed; `vcRequests` are observer
goroutines on their way to `request`. `owed`, `renewed`, `dropped`, `acked`,
`delivered` and `resetSince` are history variables that guard nothing: a
trigger's primary event, if a failure would re-queue it, is owed from the request
on, and `dropped` are the ones
whose trigger the latch pushed out with no queue for its event. An exchange that
fails is one action whatever the cause (transport, unexpected close, SOAP fault,
malformed response): the code treats them alike. A record is its command key;
values, XML and fault codes are left out, and so are the error paths of
`RunSession` that need a misconfigured CPE. A firmware image's version leaf is
unwatched here (a watched one behaves as `ParameterChanges`), and one image is
asked per scenario; superseding is `FirmwareSequence`'s subject.

`EventTracker` has one action per method, because each holds `t.mu` throughout.
`Requeue` is the three re-queue loops of a failed session in one step;
`EventTrackerSlices` takes them apart, entry by entry, and its refinement mapping
counts what is still to be put back as put back.

`PeriodicScheduler`: the three leaves are read one at a time and written
together. The writer and the hook it calls afterwards are two steps (`hooks`),
and the hook signals only for a changed leaf that has a Notification attribute
by then; `SetAttributes` gives and takes that attribute, leaf by leaf, and runs
no hook. A leaf is `missed` (history) when its last change reached no hook that
signalled, was a factory reset's, or when a refresh failed, until it is read
again. A Go timer is stopped, armed or fired with its tick in the channel. Time is abstract: an
armed timer may fire at any moment. `PeriodicDelay` has the clock and the
delays, as integers; Go's remainder of a negative dividend is kept.

`FirmwareSequence`: each firmware Download has a stage, from accepted through
the settle one-shot, the fetch, the dark window and the apply one-shot to its
boot session, one step per lock or call; `slot` is the cancel slot. A one-shot
past its cancel check is not stopped by a cancel, as in `ScheduleOnce`.

`ParamTree`: a tree is a function from paths (sequences of names) to nodes; an
operation yields the new tree, an error and the changes it announces. A value is
its raw text and one of three types, which is enough for a value to be refused.
`TreeAccess` runs the callers: `acs` and `usp` hold a handler between two of its
locks, `todo` the changes a goroutine still has to hand to the observer after
its lock is free, `after` the batches deferred to the end of the session;
`uncounted` (history) the tables a graft brought rows or a counter to, until the
next `AddObject` or `DeleteObject` on them. Search
expressions are constants with the key and value they test. Answers are told
apart only as far as a property needs: accepted or refused, and which instances
a manager was told of.

`SoftwareModules` cuts an operation at its waits: the lock, the fetch, the
install or uninstall delay. Between two waits it only makes calls on its own
rows and apps, and the writes are one step. What the others do to those rows
takes the tree's lock and not the manager's, and happens during the waits:
`AddInstance` and `DeleteInstance` are CWMP's AddObject and DeleteObject and
USP's Add and Delete, which reach the deployment and execution unit tables and
the rows of apps unguarded, `FactoryReset` replaces the tree. `disturbed`
(history) says that one of them, or the start of an app that is not `Apart`, has
happened. Every caller passes `context.Background()`, so the branch of a delay
cut short (manager.go:574) is not reachable and left out.

`Generators`: the timing loop, the bounded job channel, the pool, each step one
critical section or channel operation; time is what is left until an entry is
due. Counters wrap in machine words of `Width` bits. `Diagnostics` is one
diagnostic whose duration may end at any time, with both branches of the
select when it is cancelled as its timer fires. `Start` begins with the
registrations of the process's start-up already made, and `StopScheduler` is the
stopped flag and the cancel in one step: whoever looks at one in between finds
what it would have found before or after both.

`UspLink` numbers the library clients `Connect` makes; the broker, the library
and the controller are external and do what the client relies on, and a
connection, an answer or a message may be lost. `UspAgent` gives every
goroutine a program counter; `spawned` are the notifications on goroutines of
their own, which nothing waits for: one that is still to be sent when its outage's
window ends is `late` (history). One subscription of each kind. `BulkData` has
the ticker's channel and the grid of due times; `made` and `lost` (history) are
the reports a tick made and the oldest ones dropped at the retained limit.

`CrListener`: each caller's handler has its steps; a digest is what it was
computed from. `StunClient`: the observer's goroutines, the loops and what is
on the wire; a response is ignored unless it answers the pending request. A loop
may end by itself, over its server or its socket, and is then `Ended` and not
`Running`; `overwritten` (history) are the leaves a cancelled loop or a factory
reset was the last to write.
`AcsTransport`: one `Send` at a time, as a session makes them, against an ACS
that may rotate its nonce and a tree whose credentials may change. `Access`
composes them and adds the factory reset, which restores in one step what all
three keep in the tree.

## 3. Runs

| run | instance | states | what it shows |
|---|---|---|---|
| `session` | six scenarios over nine command keys, one path, three retry timers (symmetric) | 2.8 M | `NothingOwedIsLost`, `RecordsConserved`, `RetryAlwaysComing`, `DeferredWritesApplied`, `BootstrapLatchSound`, `SessionsDoNotOverlap` |
| `session_liveness` | one DU change, one failure, ticks without limit | 46 k | `OwedDelivered` |
| `tracker` | one key, one path, two queued events, one record of each kind | 0.5 M | `EventArrayInOrder`, `RefinesTracker` |
| `scheduler` | two intervals (0 is clamped), two phases, two writes, two upsets (an attribute set or taken, a factory reset, a failing read), `Stop` | 1.3 M | `NoLostChange`, `NoTornRefresh`, `TimerMatchesEntry`, `KeepsTicking` |
| `delay` | intervals 1, 3, 4, references on both sides of the clock, jitter beyond the interval | 2 k | `DueOnPhase` |
| `firmware` | two Downloads, one rejectable, two triggers, one link fault | 16 k | `DarkWindowEnds`, `DownloadsSettle` |
| `tree` | a table with a counter, a deferred leaf, an app with a subtree of its own, one with a row for the table and one that collides, three sets of goroutines | 243 k | `CountersAgree`, `NoUnreportedInstance`, `ObserverCatchesUp`, `AcceptedWritesKeep` |
| `modules` | three apps, one with three versions, one with an injected fault, and one that is not apart in either of its versions; two requests, two commands, a toggle, a reset, a row added or deleted by others | 57 k | `Inventory`, `ResultsTrue`, `OperationsReported` |
| `writers` | a counter and a drift of one path, an enum of another CPE, one or two workers, a channel of one place; four writes of a diagnostic's trigger | 192 k | `EachScheduledOnce`, `QuietAfterStop`, `KeepsTicking`, `TicksInBand`, `OneSweep`, `RequestsAnswered` |
| `usp` | the plans of `MCUspDevice`, among them one outage with LastChange and two without | 835 k | `OutageIsSilent`, `ReportsInOrder`, `CompleteComesFirst`, `FirmwareSlotFrees`, `ReportsReach` |
| `access` | four plans for the listener, eight for STUN, one for the transport; factory resets in three | 316 k | `NonceCountsOnce`, `RetryAfterClears`, `StunFollowsTree`, `AddressCatchesUp`, `AcceptedOnce`, `GoodCredentialsGetIn` |
| `stun_enable` | the ACS writes `STUNEnable` | | `StunStartsWhenEnabled` fails, section 5 |

Bounds. A scenario, plan or budget is what the outside may still ask for. In
`session`, two requests of different kinds, one tick, one connection request and
one failure are enough for every pair of sources to meet in the latch and in
every stage of a session, and for a retry that is superseded, skipped or late;
the firmware scenario has two failures, so that a retry one-shot is under way
before and within the dark window. Three timers let one be armed while two
others are past their cancel check; `ArmRetry` would block if they ran out. The
retry count is told apart only as zero or not (`MaxRetryCount = 1`). In
`tracker`, `MaxEvents = 2` and `MaxRecords = 1` bound what is queued, not what a
re-queue puts back, so queues with duplicates occur. In the composed modules
each plan gives a few of the parts the means to act, those that share state:
plans that let every part act at once multiply independent steps and reach no
new interaction. `tree` bounds a table to the rows its requests can name
(`MaxRows`) and the deferred batches to `MaxDeferred`; `modules` has requests
with two operations, so that another request comes between them; the writers'
channel has one place, so that it is full with one job waiting and one running;
`MaxAttempts`, `Throttle` and `NonceTTL` are small enough to be reached.

Symmetry is used for the retry timers in `session` only: they are created and
named by nothing else, and the run checks no liveness.

`CHECK_DEADLOCK FALSE` where the system may stop: a CPE whose budget is spent, a
stopped scheduler, settled Downloads. `tree` and `modules` check deadlock: a
handler never waits for ever, and only a settled manager may stop.

Fairness. `CpeSession`: weak fairness of the session goroutine (Go schedules a
runnable goroutine, and HTTP exchanges have timeouts), of each armed one-shot
and spawned goroutine and of the boot; the ACS eventually ends a session it
keeps answering; the periodic timer, re-armed after every tick, ticks again.
Failures, connection requests and writes are never fair.
`PeriodicScheduler`: weak fairness of the drain loop, the timer and the writers'
hooks; strong fairness of leaving the select on a cancelled context, because
Go's select chooses at random among ready cases. `Generators` likewise: weak for
its goroutines and for time, strong for the loop's exit. `FirmwareSequence`:
one-shots expire, fetches return (they time out), sessions end, a link fault's
window is a fixed time. `Diagnostics`: the session goroutine and the runs.
`SoftwareModules`: a held operation moves on; strong fairness for those who wait
for its lock, because Go's mutex hands itself to a waiter that has starved.
`UspDevice`: the library keeps dialling, reads fail on a dead socket, every
`Publish` is answered by the broker or by its `WaitTimeout`. `StunClient`: weak
for reconciles and the running loop, strong for the network's answers: what is
sent again and again gets through some time.

Every property of a passing run is paired with a fault in the code it is about,
an operator beside the one it replaces, under which TLC finds it violated.

Where a property excepts a case, the code does not keep it there:

- `NothingOwedIsLost` and `OwedDelivered`: not for the event of a ValueChange or
  DUStateChangeComplete trigger that another pushed out of the latch (`dropped`):
  `request` queues the event of a displaced tick only.
- `NoLostChange`, `NoTornRefresh` and the scheduler's `KeepsTicking`: not for a
  leaf that is `missed`, because its Notification attribute was 0 when its last
  change was to be told (SetParameterAttributes may set it, a factory reset takes
  it away), because the change was a factory reset's, which signals nobody, or
  because a refresh failed, which is not repeated.
- `DarkWindowEnds`: not for a rejected image that superseded one in its dark
  window (section 5); its latch part not with a link fault, whose `setOnline`
  ends any dark window and requests no session.
- `ObserverCatchesUp`: not for what `SetBatch` and `Reset` write, which announce
  nothing.
- `CountersAgree`: not for a table a graft brought rows or its counter to, until
  a row of it is next added or deleted: `Graft` does not count.
- `Inventory` and `ResultsTrue`: not after a factory reset or a row added or
  deleted by somebody else, which tell the manager nothing, nor once an app is
  started that is not `Apart` from those that run (it adds rows to a table of the
  profile, or shares objects with another that the profile has not).
- `RequestsAnswered`: a reset between a run's two writes leaves its count 0.
- `OutageIsSilent`: not for a dial that was in flight when the link was cut.
- `ReportsInOrder`, `CompleteComesFirst`: not with a client that `Connect`
  replaced and nobody disconnected; it still holds its messages. `ReportsInOrder`
  not for a notification that is `late` either. It orders what the link fault
  reports of an outage; two ordinary changes of one parameter go out on a
  goroutine each, in no order the code promises, and none is claimed.
- `ReportsReach`: not for the oldest reports beyond the number a profile row
  retains, which `push` drops (`bulkdata.go:386-400`).
- `StunFollowsTree`: not after a write no observer was told of (SetBatch,
  `Reset`), nor after a reconcile that read the leaves before another's write and
  applied them after it, nor for a loop that ended by itself (`Ended`): its server
  did not resolve or its socket failed, and nothing starts it again.
  `AddressCatchesUp`: not for such a loop, nor for a leaf that is `overwritten`.
  `AcceptedOnce`: not when two loops validated at once, the check and the record
  being two lock sections.

## 4. Proofs

The theorems hold for every value of the constants that meets the named
assumptions, each in the module that declares the constants:

- `NoKeyAssumption`, `ConstantsAssumption`: the empty key is not a command key,
  kinds are kinds, two requests of a kind in one scenario agree on being delayed.
- `SchedulerAssumption`, `DelayAssumption`: the factory's interval is one of the
  intervals (0 too, which the entry clamps); in `PeriodicDelay`, behind the
  clamp, intervals are positive. Its instants are integers: Go's `time.Sub`
  saturates at 292 years, and a PeriodicInformTime further from the clock than
  that is left out.
- `FirmwareAssumption`, `DiagnosticAssumption`, `StunAssumption`,
  `ThrottleAssumption`, `TickAssumption`, `ClientsAssumption`: bounds are
  numbers, and at least one where the code makes one of the thing.
- `GeneratorAssumption`, `ConfigAssumption`: what `NewCounter`, `NewDrift` and
  `NewEnum` check before they return a generator. `StepAssumption`: a counter's
  step does not overflow the word. No constructor checks that; `TicksStayInBand`
  is a theorem about the profiles that keep to it.
- `PlanAssumption`: a profile without the STUN leaves asks for no loop, and a
  template has leaves and credentials such as the tree may have.
- `NamesAssumption`, `TreesAssumption`: what the loader, `AddTable` and the
  manifests build: trees closed under prefixes, leaves with all their fields, a
  table's template without rows (a path has at most one `{i}`). The counter of a
  table that managers add to is read-only. The loader does not check that; in
  `profiles/` it is so but for the result table of a diagnostic, in two of them.
  Rows are numbered 1 to 4 (`Digits`), `MaxRows` is within that
  (`RoomAssumption`), and a row is only asked for where a number is free.
  `ProfileAssumption`: such a counter is right at boot, which the loader
  does not check either; a wrong one stays wrong until its table changes.
- `TablesAssumption`: a table managers add to has a path of names, and no
  generator drives its counter. Apps may bring such tables, rows for them and
  their counters.
  `WatchedAssumption`: the observer follows leaves of the profile outside rows; a
  row that is deleted is announced as the row, not leaf by leaf.
- `DataModelAssumption`: the profile and the apps declare a path one way, with
  one type and one `Writable`, the rows of a table as its template does; an app
  that says otherwise of a leaf of the profile meets that leaf, and its graft is
  refused. The loader checks neither for two apps: one that is grafted after
  another was taken out may declare a path differently, and the theorem is about
  fleets where it does not.
- `FactoryAssumption`, `ManifestsAssumption`: what the loader of a profile with a
  `softwareModules` block and `LoadAppManifest` build: trees closed under prefixes,
  empty tables of units whose templates have the required leaves, apps outside
  the software modules object with generators on their own leaves.
  `OperationsAssumption`: a URL somebody asks for answers with a manifest or a
  fault.
- `RowsAssumption`: a profile row that `readBulkDataProfile` accepts has a
  positive interval (`bulkdata.go:323`); its retained limit may be negative.
- `SendersAssumption`, `PlansAssumption`: the goroutines that send have names of
  their own; a subscription that stands is a subscription.

The invariant a run checks is seldom inductive. What each theorem rests on:

`CpeSessionProofs`

- `TypeCorrect`: the type invariant with `BusyIffRunning` (busy, the trigger and
  `pc` agree), which is inductive and on which the others build. No run lists
  it, since the theorem says more.
- `SessionsSerial`: sessions do not overlap. It needs `BusyIffRunning`: the
  guard of `RunNow` is about `busy`, the claim about `pc`.
- `DeferredWritesLand`, `RetryComing`: inductive with the type invariant. For
  the latter the interesting step is the retry one-shot: when it leaves the set
  of timers under way it either latches or becomes the running session, and the
  only step that cancels one is taken by a session that then ends in success
  (count zero) or arms another.
- `BootstrapSound`: the action property rests on `BootstrapPendingSound`: a
  pending latch in a carrying session means BOOTSTRAP is in its events and no
  reset came since. A reset clears the pending flag, which is why the old
  session's `Acknowledge` is harmless.
- `CoalescingLosesNothing`: `NothingOwedIsLost` is not inductive. `OwedInv` adds
  that what is owed is what a failure re-queues. The step that matters is the
  latch's: the trigger that leaves it, pushed out or kept out, is a tick, whose
  event is queued, one whose event a queue already has, or counts as dropped.
- `RecordsKept`: `RecordsInv` adds that the session sends everything it holds,
  stage by stage, so what it holds at its good end has been answered; `JobsInv`
  keeps the cancel slots and stages of boots apart from those of reports.

`TriggerProofs`

- `ChangesArrive`, `TornReadsRepaired`: `ChangeInv` is the two properties
  together. Neither is inductive alone: a loop about to arm is in step only
  because each leaf it read was, or a signal is coming. On the writers' side
  (`WriterStep`), whoever changes a leaf leaves a hook for it behind or makes it
  missed, and a hook that goes leaves a signal or makes it missed.
- `TimerKept`: `TimerInv`: the interval is at least a second, and at every place
  of the loop where it leaves the timer alone the timer matches the entry.
- `TicksOnPhase`: an anchored tick falls on the phase and is armed for the next
  due instant. Arming establishes the invariant from the delay alone
  (`ArmingEstablishes`), by division with remainder of a possibly negative
  elapsed time.
- `DarkWindowsEnd`: `DarkInv` adds that a link fault in flight was counted. The
  argument is that every stage before `setOnline` leads to a stage before it,
  to `setOnline` or to a rejection (`ReachingStep`).
- `RefinesRunner`: every step of the composition is a step of `SessionRunner`'s
  own specification or leaves its variables alone.
- `EventArrays`, `SlicesImplementTracker`: `SliceInv` relates each slice to the
  set it stands for and counts what a failed session still has to put back as
  put back. `dedupeEvents` is a recursive function over the slice; what it keeps
  is proved by induction on the number of entries seen, which is had from the
  well-foundedness of `<` on the naturals (`LeastElement`, `InductionUpTo`): the
  library's induction theorem takes an operator and cannot be used.

`TreeAccessProofs`

- The paths first (`ParamTreeProofs`): what a prefix, a parent and a concatenation are of a sequence
  of names (`PrefixFront`, `PrefixOfConcat`, `ConcatFront`). Then one lemma per
  operation of the tree: `GoodCall` says that it keeps `TreeOK` (well formed,
  counters right, watched leaves in place) and that a watched leaf it moved is
  among the changes it returns. Attaching or detaching a subtree leaves every
  counter right but the one of the table concerned (`CountedBut`), and
  `syncEntryCount` repairs that one and no other, because two tables never share
  a counter (`CounterInjective`). `TreeOK` takes the tables in `uncounted` out of
  its claim; a graft adds to them every table it has rows or a counter for, and
  `AddObject` and `DeleteObject` take theirs back.
- `CountersHonest`, `ObserversCatchUp`: `TreeInv`, the two together with
  `TreeOK`. The first is inductive only with it (a batch cannot write a counter
  because counters are read-only); the second needs that a goroutine writes only
  when its earlier changes have been handed over.
- `NothingHalfBuilt`: `RowInv` adds that a USP Add under way knows the row it
  builds, as the path of a row. Its rollback then removes the row or finds it
  gone already (`DeleteObjectOK`).
- `DeferredWritesKept`: `AcceptedInv` says that every leaf of the tree is as
  `DataModel` declares its path, instance numbers read as `{i}`, and that the
  same holds of every write accepted for later. A path that was deleted, grafted
  or reset in between comes back with the type it had (`SameDeclaration`), so the
  batch is refused at the end only for a path that is gone.

`SoftwareModulesProofs`

- `InventoryTrue`, `ReportsTrue`: `Inventory` speaks of the moments when the
  manager is free. `InventoryInv` says at every wait of an operation (the fetch,
  the install delay, the uninstall delay) which units are on record, which of
  them run, and which rows are there besides (`Installing`, `Updating`,
  `Replacing`, `Removing`): between the two halves of an update, for instance, a
  unit is on record and does not run. `Shape` says what the tree then is: the
  profile, the apps that run, the rows of the units, and nothing else, each node
  as its origin declared it. One lemma per operation of the tree says how it
  moves `Shape`: a graft that succeeds adds one app, one that is refused adds
  nothing, and the points `Graft` returns, unmounted again, take out that app and
  no more, since every path of the app the profile has not lies below one of them,
  the shortest of its prefixes that are new (`LeastElement`). This is where
  `Apart` is used (`FitsApart`): the invariant is claimed until something has
  `disturbed` the manager, and the start of an app that is not apart does.
  `ReportsTrue` follows from the same
  steps, each of which compares the records before and after it.

`TreeWritersProofs`

- `SweepsReplaced`, `CountBeforeState`: `DiagInv` is `OneSweep` with
  `CountedFirst`: a run about to write its state has written its count, or a
  reset wiped it. The second theorem is the safety half of `RequestsAnswered`.
- `ScheduledOnce`: `ScheduleInv` says where a generator is: new, waiting in its
  runner, handed over, in the heap.
- `TicksStayInBand`: by cases on the kind of generator, with the arithmetic of
  the wrap (`counter.go:90`) and of the clamps as lemmas.
- `StopIsQuiet`: `QuietInv`: a `Stop` that waits or has returned has marked its
  runner, and a tick looks at the mark again before it writes.

`AccessProofs`

- `RetriesClear`: a request sent away came inside the throttle's window and is
  told to come back after it (`ToldOK`), whatever rounding does.
- `ReplayRefused`: `NonceInv` says that an admitted pair, and the pair a handler
  is verifying, is used up: its nonce is gone, or has seen its count. A nonce
  number is never issued again, so an expired nonce stays refused.
- `CredentialsGetIn`: `AcsInv` and `Answerable`: while nothing changed since the
  401, the stored challenge is the ACS's current one and the answer to it is one
  the ACS has not seen.
- `LoopFollowsTree`: `StunInv`. At most the registered loop is live, cancel is
  registered exactly when running, with settings that want a loop (`OneLoop`), and
  with no reconcile left to run the last one left what the tree wants
  (`Applied`). A live loop runs or has ended by itself; nothing else follows from
  running, which is why the exception is needed.
- `RequestsAcceptedOnce`: `AcceptInv`: until two loops validated at once, an
  accepted request's timestamp is at most the recorded one, and one about to be
  accepted is later.

`UspDeviceProofs`

- `OutagesAreSilent`: `OutageInv`: in an outage the library owns no socket, and a
  dial in progress is older than the outage.
- `ReportsArrive`: `CollectorInv` and `AgentInv`. The collector has one message
  in flight, it belongs to this push's batch, and `Progress` says for each
  standing subscription which reports of the batch it has received. A report from
  the tick that made it on is `Accounted` for (`MadeAccounted`): retained, in the
  push, dropped at the limit, or with every standing subscription.
- `ViewNeverMovesBack`, `CompletesComeFirst`: action properties, from `OrderInv`
  and `SessionInv`. For every path a bound (`Top`) grows with the phases of the
  fault; what a goroutine still has to send is at least what was sent before
  it. No message in a queue is one the controller would have to see
  earlier, or has overtaken, but for the late ones, which stay late. The excepted
  case of a client that `Connect` replaced never ends (`Replaced`), so the
  invariant is claimed until it happens.

The inductive invariants were checked with TLC on the instances of the runs
before they were proved.

Only model-checked:

- what is temporal with fairness: `OwedDelivered`, both `KeepsTicking`,
  `DownloadsSettle`, `RequestsAnswered` but for its safety half,
  `FirmwareSlotFrees`, `AddressCatchesUp`, `OperationsReported`. TLAPS has no
  reasoning about fairness here. Every invariant and every action property of a
  passing run is stated by a theorem.

## 5. Where the code and its documentation differ

Shown by a run: `stun_enable`. `SetBatch` notifies no observer, so an ACS that
writes `STUNEnable` with SetParameterValues starts nothing.

Shown by taking an exception or a restriction out, each quoted in
`PROJECT.json`:

- `Acknowledge` clears value-change paths that no Inform carried (recorded
  mid-session, or before a session without `4 VALUE CHANGE`).
- A watched path deleted after its change was recorded makes every Inform that
  carries `4 VALUE CHANGE` fail to build, and the failed session re-queues that
  event (`OwedDelivered`, with a remove budget).
- Superseding a firmware sequence in its dark window with an image that is
  rejected leaves the device offline for good (`DarkWindowEnds`, without
  `~Rejected`).
- After a factory reset the first install meets its own UUID at a row the
  manager still remembers, and is refused as a duplicate.
- An app that grafts a row into a table of the profile leaves it there when it is
  uninstalled: `Unmount` refuses table instances (`graft.go:125-129`, against the
  comment at `20-23`), the manager logs the refusal and goes on, and the row's
  leaves then refuse the next install (`Inventory`, without `Apart`).
- Uninstalling an app takes out what another app grafted below its objects, and
  the other stays Installed and Active (`manager.go:528`; likewise).
- A graft of rows leaves the table's NumberOfEntries as it was (`graft.go:69`;
  `CountersAgree`, without `uncounted`).
- AddObject, DeleteObject and their USP counterparts act on the lifecycle's rows
  and on those of apps; a deployment unit deleted during its install is reported
  Installed (`ResultsTrue`, without `disturbed`).
- A ValueChange or DUStateChangeComplete trigger that is pushed out of the latch
  loses its event, against "Nothing is lost by coalescing"
  (`docs/guides/scheduler.md:36`; `NothingOwedIsLost`, without `dropped`).
- Once SetParameterAttributes has set Notification 0 on the periodic leaves,
  writes of them no longer reach the scheduler (`docs/guides/scheduler.md:80,85`;
  `NoLostChange` and `KeepsTicking`, without `missed`).
- A notification of the interface going down may be sent after the report of the
  outage and the one of its end (`linkfault.go:140-151`; `ReportsInOrder`, without
  `late`).
- A factory reset under a running STUN loop puts the address and the NAT flag back
  to the profile's, and the loop does not report them again
  (`stun/client.go:286`; `AddressCatchesUp`, without `overwritten`). The published
  ConnectionRequestURL is lost in the same way (`main.go:1607`, not modelled).
- A STUN loop that ended over its server or socket leaves `running` true, and no
  reconcile starts it again until a setting changes (`stun/client.go:171,202`;
  `StunFollowsTree`, without `Ended`).

Met while modelling, CWMP:

- a tick latched while offline during a link fault waits for the next trigger
  (`docs/guides/scheduler.md:35` has it run the moment the session completes);
- a session in progress may drain a record whose event its Inform did not carry:
  the record is queued after the events were drawn (`eventtracker.go:23-37`);
- records the ACS has answered are sent again when the session fails afterwards;
- a retry session that finds nothing to announce counts as a failed session
  (`runsession.go:62`);
- two retry one-shots can be under way at once, one past its cancel check;
- a firmware sequence past its cancel check when the next Download arrives still
  applies (`docs/guides/firmware.md:129`, "Only the second image is fetched,
  applied, and announced");
- a factory reset restores the periodic leaves without the Notification
  attribute that the reschedule hook depends on, and signals no reschedule;
- a deferred batch can be invalidated by any writer before the session ends, not
  only by "a later write in the same session" (`setparametervalues.go`).

The tree's writers:

- `checkManifest` compares UUIDs over the whole device; its comment says one
  execution environment;
- `Check` waits for `Manager.mu`, so a second USP Update() or Uninstall() is not
  refused as busy until the first operation ends;
- a factory reset during an install delay leaves the new execution unit without
  its deployment unit; one during a diagnostic lets the run write its result on
  a device that was never asked;
- a diagnostic run past its select when it is superseded still writes Complete
  over the new run's Requested (`diagnostics.go:30-33`); a USP Set neither
  starts nor cancels a diagnostic, because OnWrite rides SetParameterValues;
- `NewCounter` bounds Max and not Step, so a large Step can overflow the word.

USP and connection requests:

- a Set whose required parameter fails leaves the earlier parameters of that
  object written; an Add's rollback may delete an instance another manager has
  meanwhile been told of; HandleGet does not expand `[expr]` without `*`;
- USP FactoryReset() resets no tree;
- a client is replaced without a Disconnect (`client.go:206`); the Request row is
  removed before OperationComplete is sent, once (`async.go:294`); the command's
  response can follow its OperationComplete (`async.go:228`);
- two reconciles may apply their settings in the opposite order
  (`stun/client.go:166-168`).

## 6. Not modelled

Profile, fleet and flag loading; SOAP; the generated protobuf code and its
wrapper; errors, logging, seeded randomness and test support: parsing, encoding
and helpers without concurrent state, whose results are the constants here. The
protobuf code alone is a quarter of the implementation's lines. Of modelled
components: the rendering of an Inform, the wait bands of the retry policy (data
of a timer that may fire at any time), TLS, proxies and the connection pool, the
byte formats of STUN and USP messages, the shutdown order of the process.
