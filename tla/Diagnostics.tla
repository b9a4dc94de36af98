---------------------------- MODULE Diagnostics ----------------------------
(***************************************************************************)
(* internal/diagnostics: one triggered diagnostic of one CPE.  The ACS     *)
(* writes the trigger to the state leaf; SetParameterValues then calls     *)
(* OnWrite, which registers a run and cancels the one it replaces; the     *)
(* run's goroutine waits out the duration, writes the count and then the   *)
(* terminal state, and takes itself off the register.                      *)
(*                                                                         *)
(* The session's goroutine is the only caller of OnWrite, so it has one    *)
(* program counter.  A run that is cancelled as its timer fires may take   *)
(* either branch of its select; the duration itself is not counted.        *)
(***************************************************************************)
EXTENDS Naturals, FiniteSets

CONSTANTS MaxRuns,      \* bound: how many runs are started
          ResultCount   \* what a run writes to the count leaf

ASSUME DiagnosticAssumption == MaxRuns \in Nat \ {0} /\ ResultCount \in Nat \ {0}

VARIABLES state,      \* the StatePath leaf
          count,      \* the CountPath leaf
          caller,     \* where the session's goroutine is in apply and OnWrite
          runs,       \* how many runs have been started
          sweep,      \* run |-> where it is, and whether it is cancelled
          inFlight,   \* Runner.inFlight's entry for the diagnostic, or NoRun
          diagLeft,   \* what the ACS may still do (bounds)
          wiped       \* history: a reset since the last run wrote its count

diagVars == <<state, count, caller, runs, sweep, inFlight, diagLeft, wiped>>

Runs  == 1 .. MaxRuns
NoRun == 0

SpendDiag(what) == diagLeft[what] > 0 /\ diagLeft' = [diagLeft EXCEPT ![what] = @ - 1]

SweepAt(r, place) == sweep[r].at = place
Move(r, place) == sweep' = [sweep EXCEPT ![r].at = place]

(* apply: the batch is written, and a leaf whose value changed is passed to *)
(* OnWrite; the trigger written over itself is no change.                   *)
WriteState(v) ==
    /\ caller = "idle"
    /\ SpendDiag("writes")
    /\ state' = v
    /\ caller' = IF v # state THEN "written" ELSE "idle"
    /\ UNCHANGED <<count, runs, sweep, inFlight, wiped>>

(* OnWrite reads the leaf again.                                            *)
ReadTrigger ==
    /\ caller = "written"
    /\ caller' = IF state = "Requested" THEN "trigger" ELSE "idle"
    /\ UNCHANGED <<state, count, runs, sweep, inFlight, diagLeft, wiped>>

(* An OnWrite that leaves a run in flight alone (a mutant).                 *)
BeginUnlessRunning ==
    /\ caller = "trigger"
    /\ runs < MaxRuns
    /\ caller' = "idle"
    /\ IF inFlight # NoRun
         THEN UNCHANGED <<runs, sweep, inFlight>>
         ELSE /\ runs' = runs + 1
              /\ sweep' = [sweep EXCEPT ![runs + 1].at = "waiting"]
              /\ inFlight' = runs + 1
    /\ UNCHANGED <<state, count, diagLeft, wiped>>

(* OnWrite under its lock: the run in flight is cancelled and replaced.     *)
Begin ==
    /\ caller = "trigger"
    /\ runs < MaxRuns
    /\ caller' = "idle"
    /\ runs' = runs + 1
    /\ sweep' = [r \in Runs |->
                   IF r = runs + 1 THEN [at |-> "waiting", cancelled |-> FALSE]
                   ELSE [sweep[r] EXCEPT !.cancelled = @ \/ r = inFlight]]
    /\ inFlight' = runs + 1
    /\ UNCHANGED <<state, count, diagLeft, wiped>>

(* complete: the select, the two writes, the deferred clean-up.             *)
Abandon(r) ==
    /\ SweepAt(r, "waiting")
    /\ sweep[r].cancelled
    /\ Move(r, "leaving")
    /\ UNCHANGED <<state, count, caller, runs, inFlight, diagLeft, wiped>>

Elapsed(r) ==
    /\ SweepAt(r, "waiting")
    /\ Move(r, "count")
    /\ UNCHANGED <<state, count, caller, runs, inFlight, diagLeft, wiped>>

WriteCount(r) ==
    /\ SweepAt(r, "count")
    /\ count' = ResultCount
    /\ wiped' = FALSE
    /\ Move(r, "state")
    /\ UNCHANGED <<state, caller, runs, inFlight, diagLeft>>

WriteComplete(r) ==
    /\ SweepAt(r, "state")
    /\ state' = "Complete"
    /\ Move(r, "leaving")
    /\ UNCHANGED <<count, caller, runs, inFlight, diagLeft, wiped>>

(* A clean-up that does not ask whose entry it is (a mutant).               *)
LeaveBlindly(r) ==
    /\ SweepAt(r, "leaving")
    /\ inFlight' = NoRun
    /\ Move(r, "gone")
    /\ UNCHANGED <<state, count, caller, runs, diagLeft, wiped>>

LeaveSweep(r) ==
    /\ SweepAt(r, "leaving")
    /\ inFlight' = IF inFlight = r THEN NoRun ELSE inFlight
    /\ Move(r, "gone")
    /\ UNCHANGED <<state, count, caller, runs, diagLeft, wiped>>

(* A factory reset puts the leaves back and leaves the runs alone.          *)
ResetLeaves ==
    /\ SpendDiag("resets")
    /\ state' = "None" /\ count' = 0
    /\ wiped' = TRUE
    /\ UNCHANGED <<caller, runs, sweep, inFlight>>

DiagInit(left_) ==
    /\ state = "None" /\ count = 0
    /\ caller = "idle" /\ runs = 0
    /\ sweep = [r \in Runs |-> [at |-> "none", cancelled |-> FALSE]]
    /\ inFlight = NoRun
    /\ diagLeft = left_
    /\ wiped = FALSE

SweepStep(r) ==
    \/ Abandon(r)
    \/ Elapsed(r)
    \/ WriteCount(r)
    \/ WriteComplete(r)
    \/ LeaveSweep(r)

DiagStep ==
    \/ \E v \in {"None", "Requested"} : WriteState(v)
    \/ ReadTrigger
    \/ Begin
    \/ \E r \in Runs : SweepStep(r)
    \/ ResetLeaves

(* The session's goroutine and the runs' are run; the ACS owes nothing.     *)
DiagFairness ==
    /\ WF_diagVars(ReadTrigger \/ Begin)
    /\ \A r \in Runs : WF_diagVars(SweepStep(r))

-----------------------------------------------------------------------------
(* One sweep at a time: whatever is still going to run out its duration is  *)
(* the run on the register, so the next trigger finds it and cancels it.    *)
(* (Runner.inFlight: "a blind delete there would clear the entry the run    *)
(* that replaced it is relying on".)                                        *)
OneSweep ==
    \A r \in Runs : SweepAt(r, "waiting") /\ ~sweep[r].cancelled => inFlight = r

(* The terminal state comes with the run's count, or a reset wiped it.      *)
CompleteHasCount == state = "Complete" => count = ResultCount \/ wiped

(* The ACS that writes the trigger and polls sees it answered, however      *)
(* triggers, cancelled runs and their clean-up interleave; and the count is *)
(* in when the terminal state is, except for a reset between the two        *)
(* writes.  (complete: "Count first, then state".)                          *)
RequestsAnswered ==
    /\ state = "Requested" ~> state # "Requested"
    /\ []CompleteHasCount
=============================================================================
