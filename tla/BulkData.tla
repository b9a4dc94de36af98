------------------------------ MODULE BulkData ------------------------------
(***************************************************************************)
(* The bulk data collector (src/internal/usp/agent/bulkdata.go): once a    *)
(* second it reads the profile table again and pushes the reports that are *)
(* due, together with those it could not deliver before.  One profile row; *)
(* a report is named by the time it was collected at.                      *)
(***************************************************************************)
EXTENDS UspLink, Integers, SequencesExt

CONSTANTS
    MaxRetained,   \* maxRetainedReports
    Configs,       \* the rows a controller may write
    PushSubs       \* the subscriptions to the profile's Push!

VARIABLES
    now,      \* the clock, in seconds
    tick,     \* the ticker's channel: the time of an unread tick, or 0
    row,      \* the Profile.{i} row
    st,       \* the collector's bulkDataState for it
    push,     \* the push in progress
    made,     \* history: the reports the collector took
    lost      \* history: the reports it gave up

bulkVars == <<now, tick, row, st, push, made, lost>>

(* A row: whether it exists and is enabled, whether this agent can deliver  *)
(* it as configured, ReportingInterval, NumberOfRetainedFailedReports and   *)
(* TimeReference.                                                           *)
NoRow   == [there |-> FALSE, on |-> FALSE, fit |-> FALSE, every |-> 1,
            keep |-> 0, ref |-> 0]
NoState == [known |-> FALSE, skipped |-> FALSE, every |-> 0, due |-> 0,
            retained |-> <<>>]
NoPush  == [at |-> 0, spec |-> NoRow, subs |-> {}, failed |-> FALSE,
            delivered |-> 0]

(* NumberOfRetainedFailedReports may be negative; an interval that is not a *)
(* positive number makes a profile one this agent cannot deliver.           *)
Rows == [there : BOOLEAN, on : BOOLEAN, fit : BOOLEAN, every : Nat, keep : Int,
         ref : Nat]

ASSUME RowsAssumption ==
    /\ MaxRetained \in Nat
    /\ Configs \subseteq Rows
    /\ \A r \in Configs : r.fit => r.every > 0

(* The first boundary after now of the grid TimeReference and the interval  *)
(* define; one interval from now without a TimeReference.                   *)
firstDue(t, spec) ==
    IF spec.ref = 0 THEN t + spec.every
    ELSE IF t < spec.ref THEN spec.ref
    ELSE spec.ref + ((t - spec.ref) \div spec.every + 1) * spec.every

(* The state a tick at time t starts from: new, or moved to a new interval, *)
(* in which case what is retained is carried over.                          *)
Refreshed(t) ==
    IF st.known /\ ~st.skipped /\ st.every = row.every
      THEN st
      ELSE [known |-> TRUE, skipped |-> FALSE, every |-> row.every,
            due |-> firstDue(t, row), retained |-> st.retained]

(* Step past the present, not to the slot after the one that fired.         *)
StepPast(due, t, every) ==
    IF due > t THEN due ELSE due + ((t - due) \div every + 1) * every

(* time.Ticker: a tick nobody has read makes the next one be dropped.       *)
Clock ==
    /\ left.ticks > 0
    /\ left' = [left EXCEPT !.ticks = @ - 1]
    /\ now' = now + 1
    /\ tick' = IF tick = 0 THEN now + 1 ELSE tick
    /\ UNCHANGED <<down, lib, cur, live, held, queue, wait, joined, got, seen,
                   told, raced>>
    /\ UNCHANGED <<row, st, push, made, lost>>

(* tick for a row that is off, absent, or not one this agent can deliver:   *)
(* its state goes, and with it what was retained.  Only the mark of a       *)
(* skipped profile outlives its row.                                        *)
TickOff ==
    /\ tick # 0 /\ push = NoPush
    /\ tick' = 0
    /\ ~(row.on /\ row.fit)
    /\ st' = IF row.on THEN [NoState EXCEPT !.known = TRUE, !.skipped = TRUE]
             ELSE IF ~row.there /\ st.skipped THEN st
             ELSE NoState
    /\ lost' = lost \cup ToSet(st.retained)
    /\ UNCHANGED linkVars
    /\ UNCHANGED <<now, row, push, made>>

TickEarly ==
    /\ tick # 0 /\ push = NoPush
    /\ tick' = 0
    /\ row.on /\ row.fit
    /\ tick < Refreshed(tick).due
    /\ st' = Refreshed(tick)
    /\ UNCHANGED linkVars
    /\ UNCHANGED <<now, row, push, made, lost>>

(* A report is due: push collects it and reads the subscriptions.           *)
TickDue(subs) ==
    /\ tick # 0 /\ push = NoPush
    /\ tick' = 0
    /\ row.on /\ row.fit
    /\ tick >= Refreshed(tick).due
    /\ st' = Refreshed(tick)
    /\ push' = [NoPush EXCEPT !.at = tick, !.spec = row, !.subs = subs]
    /\ made' = made \cup {tick}
    /\ UNCHANGED <<down, lib, cur, live, held, queue, joined, got, seen, left,
                   told, raced>>
    /\ wait' = [wait EXCEPT !["bulk"] = "idle"]
    /\ UNCHANGED <<now, row, lost>>

(* deliverEvent counts the answer to the last send.                         *)
Counted ==
    [push EXCEPT !.failed = @ \/ wait["bulk"] = "failed",
                 !.delivered = @ + IF wait["bulk"] = "sent" THEN 1 ELSE 0]

(* deliverEvent: the reports to one subscription after the other.           *)
PushNext(s) ==
    /\ push # NoPush
    /\ s \in push.subs
    /\ Answered("bulk")
    /\ push' = [Counted EXCEPT !.subs = @ \ {s}]
    /\ Publish("bulk", [t |-> "push", sub |-> s,
                        reports |-> Append(st.retained, push.at)])
    /\ UNCHANGED <<now, tick, row, st, made, lost>>

(* Delivered as soon as one subscription took it (a mutant).                *)
DeliveredToAny(p) == p.delivered > 0

Delivered(p) == ~p.failed /\ p.delivered > 0

(* What is retained after a failed push: the newest, up to the limit.       *)
Limit(spec) == IF spec.keep < 0 \/ spec.keep > MaxRetained THEN MaxRetained
               ELSE spec.keep

(* push's end, and the tick's: the reports are delivered, or retained; a    *)
(* profile that retains none gives up the new one, and one whose limit is   *)
(* exceeded the oldest; the next report is due after now.                   *)
PushEnds ==
    /\ push # NoPush
    /\ push.subs = {}
    /\ Answered("bulk")
    /\ LET all  == Append(st.retained, push.at)
           over == IF Len(all) > Limit(push.spec) THEN Len(all) - Limit(push.spec)
                   ELSE 0
           keep == IF Delivered(Counted) THEN <<>>
                   ELSE IF push.spec.keep = 0 THEN st.retained
                   ELSE SubSeq(all, over + 1, Len(all))
       IN  /\ st' = [st EXCEPT !.retained = keep,
                               !.due = StepPast(@, push.at, push.spec.every)]
           /\ lost' = IF Delivered(Counted) THEN lost
                      ELSE IF push.spec.keep = 0 THEN lost \cup {push.at}
                      ELSE lost \cup {all[i] : i \in 1 .. over}
    /\ push' = NoPush
    /\ UNCHANGED linkVars
    /\ UNCHANGED <<now, tick, row, made>>

(* The controller writes, or deletes, the row.                              *)
WriteProfile(r) ==
    /\ left.profiles > 0
    /\ left' = [left EXCEPT !.profiles = @ - 1]
    /\ row' = r
    /\ UNCHANGED <<down, lib, cur, live, held, queue, wait, joined, got, seen,
                   told, raced>>
    /\ UNCHANGED <<now, tick, st, push, made, lost>>

BulkInit(r) ==
    /\ now = 0 /\ tick = 0
    /\ row = r
    /\ st = NoState
    /\ push = NoPush
    /\ made = {} /\ lost = {}

BulkStep(subs) ==
    \/ Clock
    \/ TickOff
    \/ TickEarly
    \/ TickDue(subs)
    \/ \E s \in PushSubs : PushNext(s)
    \/ PushEnds
    \/ \E r \in Configs \cup {NoRow} : WriteProfile(r)

=============================================================================
