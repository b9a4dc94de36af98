--------------------------- MODULE PeriodicDelay ---------------------------
(***************************************************************************)
(* When a periodic Inform falls due: nextDelayLocked of                    *)
(* internal/cwmp/scheduler/scheduler.go, applied again after every tick    *)
(* and every change of the interval or of PeriodicInformTime.  Instants    *)
(* and delays are integers (nanoseconds in the code); the phase reference  *)
(* may lie in the past or in the future, so the elapsed time may be        *)
(* negative.                                                               *)
(***************************************************************************)
EXTENDS Integers

CONSTANTS
    Lengths,      \* clamped intervals, in time units
    References,     \* instants PeriodicInformTime may name
    Spans,          \* jitterPct * interval, truncated
    MaxHandling,    \* how long a tick's session may take
    Horizon         \* the last instant explored

ASSUME DelayAssumption ==
    /\ Lengths \subseteq Nat \ {0} /\ References \subseteq Int
    /\ Spans \subseteq Nat /\ MaxHandling \in Nat /\ Horizon \in Nat

VARIABLES
    interval, hasPhase, phaseRef, span,     \* the entry
    now,                                    \* the clock
    due                                     \* when the timer fires

delayVars == <<interval, hasPhase, phaseRef, span, now, due>>

\* Go's remainder takes the sign of the dividend.
Rem(a, n) == IF a >= 0 THEN a % n ELSE -((-a) % n)

\* Fault: a negative elapsed time is not brought into the interval.
PhaseDelayNegative(t, ref, i) == i - Rem(t - ref, i)

\* The anchored branch: to the next phaseRef + n * interval after t.
PhaseDelay(t, ref, i) ==
    LET elapsed == Rem(t - ref, i)
        sinceBoundary == IF elapsed < 0 THEN elapsed + i ELSE elapsed
        delay == i - sinceBoundary
    IN  IF delay < 1 THEN i ELSE delay

\* The free-running branch: the interval, off by at most span, at least 1.
JitterDelays(i, s) ==
    {IF i + delta < 1 THEN 1 ELSE i + delta : delta \in (-s)..s}

NextDelays(t, anchored, ref, i, s) ==
    IF anchored THEN {PhaseDelay(t, ref, i)} ELSE JitterDelays(i, s)

-----------------------------------------------------------------------------
DelayInit ==
    /\ interval \in Lengths /\ hasPhase \in BOOLEAN /\ phaseRef \in References
    /\ span \in Spans
    /\ now = 0
    /\ due \in NextDelays(0, hasPhase, phaseRef, interval, span)

\* The timer fires, the session takes a while, and the timer is armed again.
Tick ==
    /\ due <= Horizon
    /\ \E d \in 0..MaxHandling : now' = due + d
    /\ \E delay \in NextDelays(now', hasPhase, phaseRef, interval, span) :
          due' = now' + delay
    /\ UNCHANGED <<interval, hasPhase, phaseRef, span>>

\* A write, at any moment before the timer fires, arms it anew.
Reschedule ==
    /\ due <= Horizon
    /\ now' \in now..(due - 1)
    /\ interval' \in Lengths /\ hasPhase' \in BOOLEAN /\ phaseRef' \in References
    /\ \E delay \in NextDelays(now', hasPhase', phaseRef', interval', span) :
          due' = now' + delay
    /\ UNCHANGED span

DelayNext == Tick \/ Reschedule

DelaySpec == DelayInit /\ [][DelayNext]_delayVars

-----------------------------------------------------------------------------
\* The clock and the timer are instants; the entry holds an offered setting.
DelayTypeOK ==
    /\ interval \in Lengths /\ hasPhase \in BOOLEAN /\ phaseRef \in References
    /\ span \in Spans /\ now \in Nat /\ due \in Nat

\* TR-069 3.2.1.2, nextDelayLocked: an anchored tick falls due on the very next
\* boundary of the phase, whatever the sign of the elapsed time, a free-running
\* one after no more than the interval and its jitter; none is skipped, and
\* none is armed for the instant it is computed in.
DueOnPhase ==
    /\ now < due
    /\ due <= now + interval + (IF hasPhase THEN 0 ELSE span)
    /\ hasPhase => (due - phaseRef) % interval = 0
=============================================================================
