----------------------------- MODULE Generators -----------------------------
(***************************************************************************)
(* internal/generators: one Scheduler for the process (a timing loop, a    *)
(* bounded job channel, a pool of workers) and one Runner per CPE that     *)
(* holds the generators, owns the ticks and may be stopped.  Every step is *)
(* one critical section, one channel operation or one wait.  Time is kept  *)
(* as the time left until an entry is due; entries that are overdue are    *)
(* all at 0 and keep their registration order.                             *)
(***************************************************************************)
EXTENDS Integers, Sequences, FiniteSets, SequencesExt

CONSTANTS Gens,      \* generator objects, each registered at most once
          Plans,     \* what an instance registers, removes, stops; its pool
          Runners,   \* one per CPE
          RunnerOf,  \* generator |-> its CPE's runner
          Path,      \* generator |-> the leaf it writes
          Interval,  \* generator |-> its interval
          Config,    \* generator |-> what it computes
          Width,     \* bits in a counter's machine word, 64 in the code
          Leaf,      \* the numbers a leaf may hold when a tick reads it
          Workers,   \* the worker goroutines, of which a plan uses some
          QueueDepth \* capacity of the job channel

ASSUME GeneratorAssumption ==
  /\ QueueDepth \in Nat \ {0}
  /\ \A g \in Gens : Interval[g] \in Nat \ {0} /\ RunnerOf[g] \in Runners

Word == 2 ^ Width
(* No counter's step can overflow the word, which profiles keep to but the
   loader does not check: NewCounter bounds Max and not Step. *)
ASSUME StepAssumption ==
  \A g \in Gens : Config[g].type = "counter" =>
    Config[g].max + Config[g].step + Config[g].span < Word

(* What NewCounter, NewDrift and NewEnum check; a jitter of at most 1 keeps the
   span within the step.  Word is a number, which the provers do not know of a
   power. *)
ASSUME ConfigAssumption ==
  /\ Word \in Nat /\ Leaf \subseteq Int
  /\ \A p \in Plans : p.gens \subseteq Gens
  /\ \A g \in Gens :
       LET conf == Config[g]
       IN  /\ conf.type = "counter" =>
                /\ conf.min \in Nat /\ conf.max \in Nat /\ conf.min < conf.max
                /\ conf.step \in Nat \ {0} /\ conf.span \in 0 .. conf.step
           /\ conf.type = "drift" =>
                /\ conf.min \in Int /\ conf.max \in Int /\ conf.min < conf.max
                /\ conf.stepMax \in Nat \ {0}
           /\ conf.type = "enum" =>
                conf.values \in Seq(Range(conf.values)) /\ conf.values # <<>>

VARIABLES queue, seq, wake, timer,       \* Scheduler, under mu, and its channels
          sched,                         \* "new", "started" or "stopped"
          loop, jobs, worker,            \* the goroutines and the job channel
          items, started, stopped,       \* Runner, under its mu
          handing, nudging,              \* registrations on their way to the queue
          stopping,                      \* Runner.Stop's progress
          fresh,                         \* generators not registered yet
          plan                           \* the instance's plan, never changed

schedVars == <<queue, seq, wake, timer, sched, loop, jobs>>
runnerVars == <<items, started, stopped, handing, nudging, stopping, fresh, plan>>
vars == <<schedVars, worker, runnerVars>>

Paths == {Path[g] : g \in Gens}
Cancelled == sched = "stopped"   \* the scheduler's context is done

(***************************************************************************)
(* What a tick computes from the leaf's value.  A counter advances by its  *)
(* step, jittered, and wraps from Max + 1 to Min; a drift walks and is     *)
(* clamped; an enum cycles or draws; a clock is read.                      *)
(***************************************************************************)
advanced(c, state) ==   \* in machine words
  {(state + c.step + delta) % Word : delta \in -c.span .. c.span}

(* A counter that wraps with the width of the band one short. *)
counterShort(c, v) ==
  LET state == IF v < c.min \/ v > c.max THEN c.min ELSE v
  IN  {IF n > c.max THEN c.min + ((n - c.max - 1) % (c.max - c.min + 2)) ELSE n :
         n \in advanced(c, state)}

counterTick(c, v) ==
  LET state == IF v < c.min \/ v > c.max THEN c.min ELSE v
  IN  {IF n > c.max THEN c.min + ((n - c.max - 1) % (c.max - c.min + 1)) ELSE n :
         n \in advanced(c, state)}

clamp(c, n) == IF n < c.min THEN c.min ELSE IF n > c.max THEN c.max ELSE n
driftTick(c, v) ==
  {clamp(c, clamp(c, v) + delta) : delta \in -c.stepMax .. c.stepMax}

nextIndex(c, i) == (i % Len(c.values)) + 1
enumTick(c, i) == IF c.mode = "random" THEN Range(c.values) ELSE {c.values[i]}
timestampTick(c) == c.clock

Ticked(g, v) ==
  CASE Config[g].type = "counter" -> counterTick(Config[g], v)
    [] Config[g].type = "drift" -> driftTick(Config[g], v)
    [] Config[g].type = "enum" ->
         UNION {enumTick(Config[g], nextIndex(Config[g], i)) :
                  i \in DOMAIN Config[g].values}
    [] OTHER -> timestampTick(Config[g])

(***************************************************************************)
(* Runner: Add, Remove, Start, Stop.  handing holds the generators that    *)
(* are registered and still to be pushed on the queue by Add or Start.     *)
(***************************************************************************)
Add(g) ==
  LET r == RunnerOf[g]
  IN  /\ g \in fresh
      /\ ~stopped[r]
      /\ \A h \in items[r] : Path[h] # Path[g]
      /\ items' = [items EXCEPT ![r] = @ \cup {g}]
      /\ handing' = IF started[r] THEN handing \cup {g} ELSE handing
      /\ fresh' = fresh \ {g}
      /\ UNCHANGED <<schedVars, worker, started, stopped, nudging, stopping,
                     plan>>

RemovePath(p, r) ==
  /\ p \in plan.removes
  /\ \E g \in items[r] : Path[g] = p
  /\ items' = [items EXCEPT ![r] = {g \in @ : Path[g] # p}]
  /\ UNCHANGED <<schedVars, worker, started, stopped, handing, nudging,
                 stopping, fresh, plan>>

(* A Start that does not notice that it ran before. *)
StartAgain(r) ==
  /\ ~stopped[r] /\ sched # "new"
  /\ started' = [started EXCEPT ![r] = TRUE]
  /\ handing' = handing \cup items[r]
  /\ UNCHANGED <<schedVars, worker, items, stopped, nudging, stopping, fresh,
                 plan>>

Start(r) ==
  /\ ~stopped[r] /\ ~started[r] /\ sched # "new"
  /\ started' = [started EXCEPT ![r] = TRUE]
  /\ handing' = handing \cup items[r]
  /\ UNCHANGED <<schedVars, worker, items, stopped, nudging, stopping, fresh,
                 plan>>

(* Scheduler.add: push, due one interval from now; nudge when at the head. *)
First(q, e) == \A f \in q : e.due < f.due \/ (e.due = f.due /\ e.seq <= f.seq)
add(g) ==
  LET e == [gen |-> g, due |-> Interval[g], seq |-> seq + 1]
  IN  /\ g \in handing
      /\ handing' = handing \ {g}
      /\ IF sched = "stopped" THEN UNCHANGED <<queue, seq, nudging>>
         ELSE /\ queue' = queue \cup {e}
              /\ seq' = seq + 1
              /\ nudging' = IF First(queue', e) THEN nudging \cup {g} ELSE nudging
      /\ UNCHANGED <<wake, timer, sched, loop, jobs, worker, items, started,
                     stopped, stopping, fresh, plan>>

(* A nudge that is lost. *)
nudgeLost(g) ==
  /\ g \in nudging
  /\ nudging' = nudging \ {g}
  /\ UNCHANGED <<schedVars, worker, items, started, stopped, handing,
                 stopping, fresh, plan>>

nudge(g) ==
  /\ g \in nudging
  /\ nudging' = nudging \ {g}
  /\ wake' = TRUE
  /\ UNCHANGED <<queue, seq, timer, sched, loop, jobs, worker, items, started,
                 stopped, handing, stopping, fresh, plan>>

(* Stop marks the runner and waits for its ticks; InFlight are the ticks that
   have announced themselves. *)
InFlight(r) == {w \in Workers : worker[w].pc \in {"lock", "tick"}
                                /\ RunnerOf[worker[w].gen] = r}
Stop(r) ==
  /\ ~stopped[r] /\ r \in plan.stops
  /\ stopped' = [stopped EXCEPT ![r] = TRUE]
  /\ stopping' = [stopping EXCEPT ![r] = "waiting"]
  /\ UNCHANGED <<schedVars, worker, items, started, handing, nudging, fresh,
                 plan>>

StopReturns(r) ==
  /\ stopping[r] = "waiting"
  /\ \/ InFlight(r) = {} /\ stopping' = [stopping EXCEPT ![r] = "returned"]
     \/ stopping' = [stopping EXCEPT ![r] = "timed out"]
  /\ UNCHANGED <<schedVars, worker, items, started, stopped, handing,
                 nudging, fresh, plan>>

wants(g) == ~stopped[RunnerOf[g]] /\ g \in items[RunnerOf[g]]

(***************************************************************************)
(* Scheduler: Start, Stop, the timing loop.                                *)
(***************************************************************************)
StartScheduler ==
  /\ sched = "new"
  /\ sched' = "started"
  /\ loop' = [loop EXCEPT !.pc = "collect"]
  /\ worker' = [w \in Workers |->
                [pc |-> IF w \in plan.pool THEN "idle" ELSE "gone", gen |-> "none"]]
  /\ UNCHANGED <<queue, seq, wake, timer, jobs, runnerVars>>

StopScheduler ==
  /\ sched = "started" /\ plan.shutdown
  /\ sched' = "stopped"
  /\ timer' = -1
  /\ UNCHANGED <<queue, seq, wake, loop, jobs, worker, runnerVars>>

Earlier(e, f) == e.due < f.due \/ (e.due = f.due /\ e.seq < f.seq)
LeastDue(q) == CHOOSE d \in {e.due : e \in q} : \A e \in q : d <= e.due

(* collectDue pops what is due, drops what nobody wants, re-arms the rest. *)
collectDue ==
  LET due == {e \in queue : e.due = 0}
      ready == {e \in due : wants(e.gen)}
  IN  /\ loop.pc = "collect"
      /\ queue' = (queue \ due)
                    \cup {[e EXCEPT !.due = Interval[e.gen]] : e \in ready}
      /\ loop' = [pc |-> "send",
                  ready |-> [i \in 1 .. Cardinality(ready) |->
                               SetToSortSeq(ready, Earlier)[i].gen],
                  delay |-> IF queue' = {} THEN -1 ELSE LeastDue(queue')]
      /\ UNCHANGED <<seq, wake, timer, sched, jobs, worker, runnerVars>>

(* The hand-off blocks while the channel is full, and gives up on cancel. *)
send ==
  /\ loop.pc = "send" /\ loop.ready # <<>>
  /\ Len(jobs) < QueueDepth
  /\ jobs' = Append(jobs, Head(loop.ready))
  /\ loop' = [loop EXCEPT !.ready = Tail(@)]
  /\ UNCHANGED <<queue, seq, wake, timer, sched, worker, runnerVars>>

armTimer ==
  /\ loop.pc = "send" /\ loop.ready = <<>>
  /\ loop' = [loop EXCEPT !.pc = "wait", !.delay = -1]
  /\ timer' = loop.delay
  /\ UNCHANGED <<queue, seq, wake, sched, jobs, worker, runnerVars>>

Woken ==
  /\ loop.pc = "wait"
  /\ \/ wake /\ wake' = FALSE /\ UNCHANGED timer
     \/ timer = 0 /\ timer' = -1 /\ UNCHANGED wake
  /\ loop' = [loop EXCEPT !.pc = "collect"]
  /\ UNCHANGED <<queue, seq, sched, jobs, worker, runnerVars>>

LoopExits ==
  /\ Cancelled
  /\ loop.pc = "wait" \/ (loop.pc = "send" /\ loop.ready # <<>>)
  /\ loop' = [pc |-> "gone", ready |-> <<>>, delay |-> -1]
  /\ UNCHANGED <<queue, seq, wake, timer, sched, jobs, worker, runnerVars>>

(***************************************************************************)
(* Workers: Runner.tick.                                                   *)
(***************************************************************************)
To(w, pc) == worker' = [worker EXCEPT ![w].pc = pc]
Leave(w) == worker' = [worker EXCEPT ![w] = [pc |-> "idle", gen |-> "none"]]

Take(w) ==
  /\ worker[w].pc = "idle" /\ jobs # <<>>
  /\ worker' = [worker EXCEPT ![w] = [pc |-> "wants", gen |-> Head(jobs)]]
  /\ jobs' = Tail(jobs)
  /\ UNCHANGED <<queue, seq, wake, timer, sched, loop, runnerVars>>

WorkerExits(w) ==
  /\ Cancelled /\ worker[w].pc = "idle"
  /\ To(w, "gone")
  /\ UNCHANGED <<schedVars, runnerVars>>

TickWants(w) ==
  /\ worker[w].pc = "wants"
  /\ IF wants(worker[w].gen) THEN To(w, "enter") ELSE Leave(w)
  /\ UNCHANGED <<schedVars, runnerVars>>

(* A tick that joins the ones in flight without looking again. *)
TickEnterBlind(w) ==
  /\ worker[w].pc = "enter"
  /\ To(w, "lock")
  /\ UNCHANGED <<schedVars, runnerVars>>

(* stopped is read again in the critical section that joins inflight. *)
TickEnter(w) ==
  /\ worker[w].pc = "enter"
  /\ IF stopped[RunnerOf[worker[w].gen]] THEN Leave(w) ELSE To(w, "lock")
  /\ UNCHANGED <<schedVars, runnerVars>>

(* tickMu: one tick of a CPE at a time. *)
TickLock(w) ==
  /\ worker[w].pc = "lock"
  /\ \A x \in InFlight(RunnerOf[worker[w].gen]) : worker[x].pc # "tick"
  /\ To(w, "tick")
  /\ UNCHANGED <<schedVars, runnerVars>>

(* g.Tick reads the leaf, computes, writes: the leaf itself is not kept here,
   since the ACS may have put any value in it by the time a tick reads it. *)
Tick(w) ==
  /\ worker[w].pc = "tick"
  /\ Leave(w)
  /\ UNCHANGED <<schedVars, runnerVars>>

Elapse ==
  /\ \/ \E e \in queue : e.due > 0
     \/ timer > 0
  /\ queue' = {[e EXCEPT !.due = IF @ > 0 THEN @ - 1 ELSE 0] : e \in queue}
  /\ timer' = IF timer > 0 THEN timer - 1 ELSE timer
  /\ UNCHANGED <<seq, wake, sched, loop, jobs, worker, runnerVars>>

Init ==
  /\ queue = {} /\ seq = 0 /\ wake = FALSE /\ timer = -1
  /\ sched = "new" /\ jobs = <<>>
  /\ loop = [pc |-> "new", ready |-> <<>>, delay |-> -1]
  /\ worker = [w \in Workers |-> [pc |-> "new", gen |-> "none"]]
  /\ items = [r \in Runners |-> {}]
  /\ started = [r \in Runners |-> FALSE] /\ stopped = started
  /\ handing = {} /\ nudging = {}
  /\ stopping = [r \in Runners |-> "no"]
  /\ plan \in Plans /\ fresh = plan.gens

LoopStep == collectDue \/ send \/ armTimer \/ Woken \/ LoopExits

Next ==
  \/ \E g \in Gens : Add(g) \/ add(g) \/ nudge(g)
  \/ \E r \in Runners : Start(r) \/ Stop(r) \/ StopReturns(r)
                        \/ \E p \in Paths : RemovePath(p, r)
  \/ StartScheduler \/ StopScheduler
  \/ collectDue \/ send \/ armTimer \/ Woken \/ LoopExits
  \/ \E w \in Workers : Take(w) \/ WorkerExits(w) \/ TickWants(w)
                        \/ TickEnter(w) \/ TickLock(w) \/ Tick(w)
  \/ Elapse

(* Goroutines that can run are run and time passes.  Go's select draws among the
   cases that are ready, so a loop that is cancelled leaves in the end: strong
   fairness.  Nothing is assumed of registrations, removals or stops. *)
Fairness ==
  /\ WF_vars(LoopStep) /\ SF_vars(LoopExits) /\ WF_vars(Elapse)
  /\ \A g \in Gens : WF_vars(add(g)) /\ WF_vars(nudge(g))
  /\ \A w \in Workers :
       WF_vars(TickWants(w) \/ TickEnter(w) \/ TickLock(w) \/ Tick(w))
       /\ WF_vars(WorkerExits(w))
  /\ WF_vars(\E w \in Workers : Take(w))

Spec == Init /\ [][Next]_vars /\ Fairness

(***************************************************************************)
(* Properties                                                              *)
(***************************************************************************)
Entries(g) == {e \in queue : e.gen = g}

(* A generator never has two entries, which would double its cadence; and one
   that its started runner holds has its entry or is on the way to it, which it
   would otherwise never get.  (Runner.Add and Start decide who hands it over.) *)
EachScheduledOnce ==
  \A g \in Gens :
    /\ Cardinality(Entries(g)) + Cardinality(handing \cap {g}) <= 1
    /\ wants(g) /\ started[RunnerOf[g]] /\ ~Cancelled =>
         Entries(g) # {} \/ g \in handing

(* Once Stop has returned without an error no tick of that CPE is running, and
   none starts: its tree is nobody's but the caller's.  (Runner.tick checks
   stopped again where it joins inflight.) *)
QuietAfterStop ==
  \A r \in Runners : stopping[r] = "returned" => InFlight(r) = {}

(* A generator that stays registered keeps ticking while the scheduler runs,
   however full the job channel was and whatever else is added or removed; and
   a scheduler that is stopped lets all its goroutines go. *)
Live(g) == wants(g) /\ started[RunnerOf[g]] /\ sched = "started"
Ticking(g) == \E w \in Workers : worker[w] = [pc |-> "tick", gen |-> g]
KeepsTicking ==
  /\ \A g \in Gens : <>[]Live(g) => []<>Ticking(g)
  /\ Cancelled ~> (loop.pc = "gone" /\ \A w \in Workers : worker[w].pc = "gone")

(* A tick leaves the leaf inside the generator's band, wherever the ACS or an
   earlier generator of the same path had put it.  (counterGen.Tick wraps,
   driftGen.Tick clamps.) *)
Band(c) ==
  CASE c.type \in {"counter", "drift"} -> c.min .. c.max
    [] c.type = "enum" -> Range(c.values)
    [] OTHER -> c.clock
TicksInBand ==
  \A g \in plan.gens : \A v \in Leaf : Ticked(g, v) \subseteq Band(Config[g])
=============================================================================
