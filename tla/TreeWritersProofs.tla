------------------------- MODULE TreeWritersProofs -------------------------
(***************************************************************************)
(* The safety properties of the generators and the diagnostics for any     *)
(* number of CPEs, generators, workers and runs.  A step of one engine     *)
(* leaves the other's variables alone, so each has its own invariant.      *)
(***************************************************************************)
EXTENDS TreeWriters, FiniteSetTheorems, TLAPS

-----------------------------------------------------------------------------
(* Diagnostics: one sweep, and the count before the terminal state *)

Place == {"none", "waiting", "count", "state", "leaving", "gone"}

DiagTypeOK ==
    /\ runs \in 0 .. MaxRuns /\ inFlight \in Nat
    /\ sweep \in [Runs -> [at : Place, cancelled : BOOLEAN]]

\* Between its two writes a run has its count in, unless it was wiped.
CountedFirst ==
    \A r \in Runs : SweepAt(r, "state") => count = ResultCount \/ wiped

DiagInv == DiagTypeOK /\ OneSweep /\ CountedFirst /\ CompleteHasCount

LEMMA DiagInitially == \A left_ : DiagInit(left_) => DiagInv
  BY DiagnosticAssumption DEF DiagInit, DiagInv, DiagTypeOK, OneSweep, CountedFirst,
     CompleteHasCount, SweepAt, Place, Runs, NoRun

LEMMA DiagStays == DiagInv /\ DiagStep => DiagInv'
  <1> SUFFICES ASSUME DiagInv, DiagStep
               PROVE  DiagInv'
    OBVIOUS
  <1> USE DEF DiagInv, DiagTypeOK, OneSweep, CountedFirst, CompleteHasCount, SweepAt,
         Place
  <1>1. ASSUME NEW v \in {"None", "Requested"}, WriteState(v)
        PROVE  DiagInv'
    BY <1>1 DEF WriteState
  <1>2. CASE ReadTrigger
    BY <1>2 DEF ReadTrigger
  <1>3. CASE Begin
    <2>1. DiagTypeOK'
      <3>1. ASSUME NEW r \in Runs
            PROVE  [sweep[r] EXCEPT !.cancelled = @ \/ r = inFlight]
                      \in [at : Place, cancelled : BOOLEAN]
        <4>1. (sweep[r].cancelled \/ r = inFlight) \in BOOLEAN
          OBVIOUS
        <4> QED BY <4>1
      <3>2. sweep' \in [Runs -> [at : Place, cancelled : BOOLEAN]]
        BY <1>3, <3>1 DEF Begin
      <3> QED BY <1>3, <3>2, DiagnosticAssumption DEF Begin
    <2>2. \A r \in Runs : sweep'[r].at = IF r = runs + 1 THEN "waiting" ELSE sweep[r].at
      BY <1>3 DEF Begin
    <2>3. OneSweep'
      BY <1>3 DEF Begin
    <2> QED BY <1>3, <2>1, <2>2, <2>3 DEF Begin
  <1>4. ASSUME NEW r \in Runs, Abandon(r)
        PROVE  DiagInv'
    BY <1>4 DEF Abandon, Move
  <1>5. ASSUME NEW r \in Runs, Elapsed(r)
        PROVE  DiagInv'
    BY <1>5 DEF Elapsed, Move
  <1>6. ASSUME NEW r \in Runs, WriteCount(r)
        PROVE  DiagInv'
    BY <1>6 DEF WriteCount, Move
  <1>7. ASSUME NEW r \in Runs, WriteComplete(r)
        PROVE  DiagInv'
    BY <1>7 DEF WriteComplete, Move
  <1>8. ASSUME NEW r \in Runs, LeaveSweep(r)
        PROVE  DiagInv'
    BY <1>8 DEF LeaveSweep, Move, NoRun
  <1>9. CASE ResetLeaves
    BY <1>9 DEF ResetLeaves
  <1> QED BY <1>1, <1>2, <1>3, <1>4, <1>5, <1>6, <1>7, <1>8, <1>9 DEF DiagStep, SweepStep

LEMMA DiagInvariant == WritersSpec => []DiagInv
  <1>1. WritersInit => DiagInv
    BY DiagInitially DEF WritersInit
  <1>2. DiagInv /\ UNCHANGED diagVars => DiagInv'
    BY DEF DiagInv, DiagTypeOK, OneSweep, CountedFirst, CompleteHasCount, SweepAt,
       diagVars
  <1>3. DiagInv /\ [WritersNext]_writerVars => DiagInv'
    BY <1>2, DiagStays DEF WritersNext, writerVars
  <1> QED BY <1>1, <1>3, PTL DEF WritersSpec

\* Whatever is still going to run out its duration is the run on the register
\* (Runner.inFlight and complete's deferred clean-up).
THEOREM SweepsReplaced == WritersSpec => []OneSweep
  <1>1. DiagInv => OneSweep
    BY DEF DiagInv
  <1> QED BY <1>1, DiagInvariant, PTL

\* The terminal state never shows before the count (complete: "Count first,
\* then state"), however many runs interleave.
THEOREM CountBeforeState == WritersSpec => []CompleteHasCount
  <1>1. DiagInv => CompleteHasCount
    BY DEF DiagInv
  <1> QED BY <1>1, DiagInvariant, PTL

-----------------------------------------------------------------------------
(* Generators: what a tick computes *)

LEMMA WrapInBand ==
    ASSUME NEW lo \in Nat, NEW hi \in Nat, lo < hi, NEW n \in Nat, n > hi
    PROVE  lo + ((n - hi - 1) % (hi - lo + 1)) \in lo .. hi
  <1>1. (n - hi - 1) % (hi - lo + 1) \in 0 .. (hi - lo + 1) - 1
    OBVIOUS
  <1> QED BY <1>1

LEMMA CounterInBand ==
    ASSUME NEW g \in Gens, Config[g].type = "counter", NEW v \in Int
    PROVE  counterTick(Config[g], v) \subseteq Config[g].min .. Config[g].max
  <1> DEFINE c == Config[g]
             state_ == IF v < c.min \/ v > c.max THEN c.min ELSE v
  <1>1. /\ c.min \in Nat /\ c.max \in Nat /\ c.min < c.max
        /\ c.step \in Nat /\ c.span \in 0 .. c.step
        /\ c.max + c.step + c.span < Word /\ Word \in Nat
    BY ConfigAssumption, StepAssumption
  <1>2. state_ \in c.min .. c.max
    BY <1>1
  <1> HIDE DEF c, state_
  <1>3. ASSUME NEW n \in advanced(c, state_)
        PROVE  n \in Nat /\ n >= c.min
    <2>1. PICK delta \in -c.span .. c.span : n = (state_ + c.step + delta) % Word
      BY <1>3 DEF advanced
    <2>2. state_ + c.step + delta \in c.min .. Word - 1
      BY <1>1, <1>2
    <2>3. n = state_ + c.step + delta
      BY <1>1, <2>1, <2>2
    <2> QED BY <1>1, <2>2, <2>3
  <1>4. ASSUME NEW n \in advanced(c, state_)
        PROVE  (IF n > c.max THEN c.min + ((n - c.max - 1) % (c.max - c.min + 1)) ELSE n)
                  \in c.min .. c.max
    <2>1. n \in Nat /\ n >= c.min
      BY <1>3, <1>4
    <2>2. CASE n > c.max
      BY <1>1, <2>1, <2>2, WrapInBand
    <2>3. CASE ~(n > c.max)
      BY <1>1, <2>1, <2>3
    <2> QED BY <2>2, <2>3
  <1> QED BY <1>4 DEF counterTick, c, state_

LEMMA DriftInBand ==
    ASSUME NEW g \in Gens, Config[g].type = "drift", NEW v \in Int
    PROVE  driftTick(Config[g], v) \subseteq Config[g].min .. Config[g].max
  BY ConfigAssumption DEF driftTick, clamp

LEMMA EnumInBand ==
    ASSUME NEW g \in Gens, Config[g].type = "enum", NEW i \in DOMAIN Config[g].values
    PROVE  enumTick(Config[g], nextIndex(Config[g], i)) \subseteq Range(Config[g].values)
  <1>1. nextIndex(Config[g], i) \in DOMAIN Config[g].values
    BY ConfigAssumption DEF nextIndex
  <1> QED BY <1>1 DEF enumTick, Range

\* A generator never leaves its leaf outside its band (counterGen.Tick wraps,
\* driftGen.Tick clamps), for every band, step and jitter the loader accepts
\* whose step does not overflow the word.
LEMMA TickInBand ==
    ASSUME NEW g \in Gens, NEW v \in Leaf
    PROVE  Ticked(g, v) \subseteq Band(Config[g])
  <1>1. v \in Int
    BY ConfigAssumption
  <1>2. CASE Config[g].type = "counter"
    BY <1>1, <1>2, CounterInBand DEF Ticked, Band
  <1>3. CASE Config[g].type = "drift"
    BY <1>1, <1>3, DriftInBand DEF Ticked, Band
  <1>4. CASE Config[g].type = "enum"
    BY <1>4, EnumInBand DEF Ticked, Band
  <1>5. CASE Config[g].type \notin {"counter", "drift", "enum"}
    BY <1>5 DEF Ticked, Band, timestampTick
  <1> QED BY <1>2, <1>3, <1>4, <1>5

-----------------------------------------------------------------------------
(* Generators: who is scheduled *)

\* The queue and the runners; what the channels and workers carry is not needed.
QueueTypeOK ==
    /\ queue \subseteq [gen : Gens, due : Nat, seq : Nat] /\ seq \in Nat
    /\ items \in [Runners -> SUBSET Gens]
    /\ started \in [Runners -> BOOLEAN] /\ stopped \in [Runners -> BOOLEAN]
    /\ handing \subseteq Gens /\ fresh \subseteq Gens
    /\ plan \in Plans

\* A generator is in its runner's items only, and in one of the places on its
\* way: not registered, on its way to the queue, or in it once.
OnePlace ==
    /\ \A e, f \in queue : e.gen = f.gen => e = f
    /\ \A e \in queue : e.gen \notin handing
    /\ \A e \in queue : e.gen \notin fresh
    /\ handing \cap fresh = {}
    /\ \A r \in Runners : \A g \in items[r] : RunnerOf[g] = r /\ g \notin fresh

\* Only a runner that has started hands generators over.
HandedByStarted ==
    /\ \A e \in queue : started[RunnerOf[e.gen]]
    /\ \A g \in handing : started[RunnerOf[g]]

\* A generator its started runner holds has its entry or is on its way to it.
Scheduled ==
    \A g \in Gens : wants(g) /\ started[RunnerOf[g]] /\ ~Cancelled =>
        g \in handing \/ \E e \in queue : e.gen = g

ScheduleInv == QueueTypeOK /\ OnePlace /\ HandedByStarted /\ Scheduled

LEMMA ScheduleInitially == Init => ScheduleInv
  BY ConfigAssumption DEF Init, ScheduleInv, QueueTypeOK, OnePlace, HandedByStarted,
     Scheduled, wants

LEMMA ScheduleStays == ScheduleInv /\ [Next]_vars => ScheduleInv'
  <1> SUFFICES ASSUME ScheduleInv, [Next]_vars
               PROVE  ScheduleInv'
    OBVIOUS
  <1> USE GeneratorAssumption DEF ScheduleInv
  <1>1. ASSUME NEW g \in Gens, Add(g)
        PROVE  ScheduleInv'
    <2> DEFINE r == RunnerOf[g]
    <2>1. QueueTypeOK'
      BY <1>1 DEF Add, QueueTypeOK, schedVars
    <2>2. OnePlace'
      BY <1>1 DEF Add, QueueTypeOK, OnePlace, HandedByStarted, schedVars
    <2>3. HandedByStarted'
      BY <1>1 DEF Add, HandedByStarted, schedVars
    <2>4. Scheduled'
      BY <1>1 DEF Add, QueueTypeOK, Scheduled, wants, Cancelled, schedVars
    <2> QED BY <2>1, <2>2, <2>3, <2>4
  <1>2. ASSUME NEW g \in Gens, add(g)
        PROVE  ScheduleInv'
    <2> DEFINE e == [gen |-> g, due |-> Interval[g], seq |-> seq + 1]
    <2>1. CASE sched = "stopped"
      BY <1>2, <2>1 DEF add, QueueTypeOK, OnePlace, HandedByStarted, Scheduled, wants,
         Cancelled
    <2>2. CASE sched # "stopped"
      <3>1. QueueTypeOK'
        BY <1>2, <2>2 DEF add, QueueTypeOK
      <3>2. OnePlace'
        BY <1>2, <2>2 DEF add, QueueTypeOK, OnePlace
      <3>3. HandedByStarted'
        BY <1>2, <2>2 DEF add, HandedByStarted
      <3>4. Scheduled'
        BY <1>2, <2>2 DEF add, Scheduled, wants, Cancelled
      <3> QED BY <3>1, <3>2, <3>3, <3>4
    <2> QED BY <2>1, <2>2
  <1>3. ASSUME NEW g \in Gens, nudge(g)
        PROVE  ScheduleInv'
    BY <1>3 DEF nudge, QueueTypeOK, OnePlace, HandedByStarted, Scheduled, wants, Cancelled
  <1>4. ASSUME NEW r \in Runners, Start(r)
        PROVE  ScheduleInv'
    <2>1. QueueTypeOK'
      BY <1>4 DEF Start, QueueTypeOK, schedVars
    <2>2. OnePlace'
      BY <1>4 DEF Start, QueueTypeOK, OnePlace, HandedByStarted, schedVars
    <2>3. HandedByStarted'
      BY <1>4 DEF Start, QueueTypeOK, OnePlace, HandedByStarted, schedVars
    <2>4. Scheduled'
      BY <1>4 DEF Start, QueueTypeOK, Scheduled, wants, Cancelled, schedVars
    <2> QED BY <2>1, <2>2, <2>3, <2>4
  <1>5. ASSUME NEW r \in Runners, Stop(r)
        PROVE  ScheduleInv'
    BY <1>5 DEF Stop, QueueTypeOK, OnePlace, HandedByStarted, Scheduled, wants, Cancelled,
       schedVars
  <1>6. ASSUME NEW r \in Runners, StopReturns(r)
        PROVE  ScheduleInv'
    BY <1>6 DEF StopReturns, QueueTypeOK, OnePlace, HandedByStarted, Scheduled, wants,
       Cancelled, schedVars
  <1>7. ASSUME NEW r \in Runners, NEW p \in Paths, RemovePath(p, r)
        PROVE  ScheduleInv'
    BY <1>7 DEF RemovePath, QueueTypeOK, OnePlace, HandedByStarted, Scheduled, wants,
       Cancelled, schedVars
  <1>8. CASE StartScheduler \/ StopScheduler
    BY <1>8 DEF StartScheduler, StopScheduler, QueueTypeOK, OnePlace, HandedByStarted,
       Scheduled, wants, Cancelled, runnerVars
  <1>9. CASE collectDue
    <2> DEFINE due == {e \in queue : e.due = 0}
               ready == {e \in due : wants(e.gen)}
               rearmed == {[e EXCEPT !.due = Interval[e.gen]] : e \in ready}
    <2>1. queue' = (queue \ due) \cup rearmed
      BY <1>9 DEF collectDue
    <2>2. UNCHANGED <<seq, sched, items, started, stopped, handing, fresh, plan>>
      BY <1>9 DEF collectDue, runnerVars
    <2>3. \A e \in ready : /\ [e EXCEPT !.due = Interval[e.gen]].gen = e.gen
                           /\ [e EXCEPT !.due = Interval[e.gen]]
                                 \in [gen : Gens, due : Nat, seq : Nat]
      BY DEF QueueTypeOK
    <2>4. QueueTypeOK'
      BY <2>1, <2>2, <2>3 DEF QueueTypeOK
    <2>5. \A f \in queue' : \E e \in queue : f.gen = e.gen
      BY <2>1, <2>3
    <2>6. OnePlace'
      <3>1. \A e, f \in queue' : e.gen = f.gen => e = f
        BY <2>1, <2>3 DEF OnePlace
      <3> QED BY <2>2, <2>5, <3>1 DEF OnePlace
    <2>7. HandedByStarted'
      BY <2>2, <2>5 DEF HandedByStarted
    <2>8. Scheduled'
      <3> SUFFICES ASSUME NEW g \in Gens, wants(g)', started'[RunnerOf[g]], ~Cancelled',
                          g \notin handing'
                   PROVE  \E f \in queue' : f.gen = g
        BY DEF Scheduled
      <3>1. wants(g)
        BY <2>2 DEF wants
      <3>2. PICK e \in queue : e.gen = g
        BY <2>2, <3>1 DEF Scheduled, Cancelled
      <3>3. CASE e \in due
        <4>1. e \in ready
          BY <3>1, <3>2, <3>3
        <4> QED BY <2>1, <2>3, <3>2, <4>1
      <3>4. CASE e \notin due
        BY <2>1, <3>2, <3>4
      <3> QED BY <3>3, <3>4
    <2> QED BY <2>4, <2>6, <2>7, <2>8
  <1>10. CASE send \/ armTimer \/ Woken \/ LoopExits
    BY <1>10 DEF send, armTimer, Woken, LoopExits, QueueTypeOK, OnePlace, HandedByStarted,
       Scheduled, wants, Cancelled, runnerVars
  <1>11. ASSUME NEW w \in Workers,
                Take(w) \/ WorkerExits(w) \/ TickWants(w) \/ TickEnter(w) \/ TickLock(w)
                  \/ Tick(w)
         PROVE  ScheduleInv'
    <2>1. UNCHANGED <<queue, seq, sched, runnerVars>>
      BY <1>11 DEF Take, WorkerExits, TickWants, TickEnter, TickLock, Tick, schedVars
    <2> QED BY <2>1 DEF QueueTypeOK, OnePlace, HandedByStarted, Scheduled, wants,
               Cancelled, runnerVars
  <1>12. CASE Elapse
    <2> DEFINE aged(e) == [e EXCEPT !.due = IF @ > 0 THEN @ - 1 ELSE 0]
    <2>1. queue' = {aged(e) : e \in queue}
      BY <1>12 DEF Elapse
    <2>2. UNCHANGED <<seq, sched, items, started, stopped, handing, fresh, plan>>
      BY <1>12 DEF Elapse, runnerVars
    <2>3. \A e \in queue : /\ aged(e).gen = e.gen
                           /\ aged(e) \in [gen : Gens, due : Nat, seq : Nat]
      BY DEF QueueTypeOK
    <2> HIDE DEF aged
    <2>4. QueueTypeOK'
      BY <2>1, <2>2, <2>3 DEF QueueTypeOK
    <2>5. OnePlace'
      BY <2>1, <2>2, <2>3 DEF OnePlace
    <2>6. HandedByStarted'
      BY <2>1, <2>2, <2>3 DEF HandedByStarted
    <2>7. Scheduled'
      BY <2>1, <2>2, <2>3 DEF Scheduled, wants, Cancelled
    <2> QED BY <2>4, <2>5, <2>6, <2>7
  <1>13. CASE UNCHANGED vars
    BY <1>13 DEF vars, schedVars, runnerVars, QueueTypeOK, OnePlace, HandedByStarted,
       Scheduled, wants, Cancelled
  <1> QED BY <1>1, <1>2, <1>3, <1>4, <1>5, <1>6, <1>7, <1>8, <1>9, <1>10, <1>11, <1>12,
             <1>13 DEF Next

LEMMA ScheduleInvariant == WritersSpec => []ScheduleInv
  <1>1. WritersInit => ScheduleInv
    BY ScheduleInitially DEF WritersInit
  <1>2. ScheduleInv /\ [WritersNext]_writerVars => ScheduleInv'
    BY ScheduleStays DEF WritersNext, writerVars
  <1> QED BY <1>1, <1>2, PTL DEF WritersSpec

\* A generator never has two entries, and one its started runner holds has its
\* entry or is on the way to it (Runner.Add and Start, Scheduler.add and
\* collectDue).
THEOREM ScheduledOnce == WritersSpec => []EachScheduledOnce
  <1>1. ScheduleInv => EachScheduledOnce
    <2> SUFFICES ASSUME ScheduleInv, NEW g \in Gens
                 PROVE  /\ Cardinality(Entries(g)) + Cardinality(handing \cap {g}) <= 1
                        /\ wants(g) /\ started[RunnerOf[g]] /\ ~Cancelled =>
                             Entries(g) # {} \/ g \in handing
      BY DEF EachScheduledOnce
    <2>1. CASE \E e \in queue : e.gen = g
      <3>1. PICK e \in queue : Entries(g) = {e}
        BY <2>1 DEF ScheduleInv, OnePlace, Entries
      <3>2. handing \cap {g} = {}
        BY <2>1 DEF ScheduleInv, OnePlace
      <3>3. Cardinality({}) = 0 /\ Cardinality({e}) = 1
        BY FS_EmptySet, FS_Singleton
      <3>4. Cardinality(Entries(g)) + Cardinality(handing \cap {g}) <= 1
        BY <3>1, <3>2, <3>3
      <3> QED BY <3>1, <3>4
    <2>2. CASE ~(\E e \in queue : e.gen = g)
      <3>1. Entries(g) = {} /\ Cardinality({}) = 0
        BY <2>2, FS_EmptySet DEF Entries
      <3>2. handing \cap {g} = {} \/ handing \cap {g} = {g}
        OBVIOUS
      <3>3. Cardinality({g}) = 1
        BY FS_Singleton
      <3>4. Cardinality(Entries(g)) + Cardinality(handing \cap {g}) <= 1
        BY <3>1, <3>2, <3>3
      <3> QED BY <2>2, <3>4 DEF ScheduleInv, Scheduled
    <2> QED BY <2>1, <2>2
  <1> QED BY <1>1, ScheduleInvariant, PTL

\* A tick leaves the leaf inside its generator's band, wherever the ACS had put
\* it, for every configuration the constructors accept.
THEOREM TicksStayInBand == WritersSpec => []TicksInBand
  <1>1. ScheduleInv => TicksInBand
    BY TickInBand, ConfigAssumption DEF ScheduleInv, QueueTypeOK, TicksInBand
  <1> QED BY <1>1, ScheduleInvariant, PTL

-----------------------------------------------------------------------------
(* Generators: quiet after Stop *)

\* A Stop that returned had marked its runner; what a worker carries may be
\* anything, since the ticks look at stopped themselves.
QuietInv ==
    /\ DOMAIN worker = Workers
    /\ \A w \in Workers : DOMAIN worker[w] = {"pc", "gen"}
    /\ stopped \in [Runners -> BOOLEAN] /\ DOMAIN stopping = Runners
    /\ \A r \in Runners : stopping[r] \in {"waiting", "returned"} => stopped[r]
    /\ QuietAfterStop

LEMMA QuietStays == QuietInv /\ [Next]_vars => QuietInv'
  <1> SUFFICES ASSUME QuietInv, [Next]_vars
               PROVE  QuietInv'
    OBVIOUS
  <1> USE DEF QuietInv, QuietAfterStop, InFlight
  <1>1. ASSUME UNCHANGED <<worker, stopped, stopping>>
        PROVE  QuietInv'
    BY <1>1
  <1>2. ASSUME NEW g \in Gens, Add(g) \/ add(g) \/ nudge(g)
        PROVE  QuietInv'
    <2>1. UNCHANGED <<worker, stopped, stopping>>
      BY <1>2 DEF Add, add, nudge
    <2> QED BY <1>1, <2>1
  <1>3. ASSUME NEW r \in Runners, Start(r) \/ \E p \in Paths : RemovePath(p, r)
        PROVE  QuietInv'
    <2>1. UNCHANGED <<worker, stopped, stopping>>
      BY <1>3 DEF Start, RemovePath
    <2> QED BY <1>1, <2>1
  <1>4. ASSUME NEW r \in Runners, Stop(r)
        PROVE  QuietInv'
    BY <1>4 DEF Stop
  <1>5. ASSUME NEW r \in Runners, StopReturns(r)
        PROVE  QuietInv'
    <2>1. UNCHANGED <<worker, stopped>> /\ stopping[r] = "waiting"
      BY <1>5 DEF StopReturns
    <2>2. CASE InFlight(r) = {} /\ stopping' = [stopping EXCEPT ![r] = "returned"]
      BY <2>1, <2>2
    <2>3. CASE stopping' = [stopping EXCEPT ![r] = "timed out"]
      BY <2>1, <2>3
    <2> QED BY <1>5, <2>2, <2>3 DEF StopReturns
  <1>6. CASE StartScheduler
    BY <1>6 DEF StartScheduler, runnerVars
  <1>7. CASE StopScheduler \/ collectDue \/ send \/ armTimer \/ Woken \/ LoopExits \/ Elapse
    <2>1. UNCHANGED <<worker, stopped, stopping>>
      BY <1>7 DEF StopScheduler, collectDue, send, armTimer, Woken, LoopExits, Elapse,
         runnerVars
    <2> QED BY <1>1, <2>1
  <1>8. ASSUME NEW w \in Workers, Take(w)
        PROVE  QuietInv'
    BY <1>8 DEF Take, runnerVars
  <1>9. ASSUME NEW w \in Workers, WorkerExits(w)
        PROVE  QuietInv'
    BY <1>9 DEF WorkerExits, To, runnerVars
  <1>10. ASSUME NEW w \in Workers, TickWants(w)
         PROVE  QuietInv'
    BY <1>10 DEF TickWants, To, Leave, runnerVars
  <1>11. ASSUME NEW w \in Workers, TickEnter(w)
         PROVE  QuietInv'
    BY <1>11 DEF TickEnter, To, Leave, runnerVars
  <1>12. ASSUME NEW w \in Workers, TickLock(w)
         PROVE  QuietInv'
    BY <1>12 DEF TickLock, To, runnerVars
  <1>13. ASSUME NEW w \in Workers, Tick(w)
         PROVE  QuietInv'
    BY <1>13 DEF Tick, Leave, runnerVars
  <1>14. CASE UNCHANGED vars
    BY <1>1, <1>14 DEF vars, runnerVars
  <1> QED BY <1>2, <1>3, <1>4, <1>5, <1>6, <1>7, <1>8, <1>9, <1>10, <1>11, <1>12, <1>13,
             <1>14 DEF Next

\* Once Stop has returned without an error no tick of that CPE is running, and
\* none starts (Runner.Stop, and Runner.tick's second look at stopped).
THEOREM StopIsQuiet == WritersSpec => []QuietAfterStop
  <1>1. WritersInit => QuietInv
    BY DEF WritersInit, Init, QuietInv, QuietAfterStop, InFlight
  <1>2. QuietInv /\ [WritersNext]_writerVars => QuietInv'
    BY QuietStays DEF WritersNext, writerVars
  <1>3. QuietInv => QuietAfterStop
    BY DEF QuietInv
  <1> QED BY <1>1, <1>2, <1>3, PTL DEF WritersSpec

=============================================================================
