---------------------------- MODULE MCUspDevice ----------------------------
(* Small instances of UspDevice. *)
EXTENDS UspDevice

MCSenders  == {"run", "handler", "op", "fault", "bulk", "restart"}
MCRestarts == {"restart"}
MCPaths    == {"Status", "LastChange"}
MCSubs     == {"value", "complete", "transfer", "push1", "push2"}
MCStanding == {"push1", "transfer"}
MCPushSubs == {"push1", "push2"}

Row(every, keep, ref) ==
    [there |-> TRUE, on |-> TRUE, fit |-> TRUE, every |-> every, keep |-> keep,
     ref |-> ref]

MCConfigs ==
    {Row(1, -1, 0), Row(2, 1, 2), Row(1, 0, 0), [Row(1, 1, 0) EXCEPT !.fit = FALSE]}

Plain == [rebootDelay |-> TRUE, lastChange |-> TRUE, faultReboot |-> FALSE,
          rowsFit |-> TRUE]
None  == [ops |-> 0, faults |-> 0, losses |-> 0, subs |-> 0, profiles |-> 0,
          ticks |-> 0]

Plan(cfg_, up, row_, left_) == [cfg |-> cfg_, up |-> up, row |-> row_, left |-> left_]

(* P1: an outage, and two in a row of a device without LastChange, with a dropped
   connection.  P2: an outage of a device without LastChange that reboots when it
   ends, while the controller edits a subscription.  P3: the outage begins while the agent is still dialling.
   P4: two operations share the sender.  P5: an operation and an outage.
   P6: a reboot without a delay, on a device whose profile has no Request rows.
   P7: bulk data over a connection that drops twice.  P8: bulk data whose profile
   and subscriptions are written meanwhile.  P9: an operation and a drop. *)
P1 == {Plan(Plain, TRUE, NoRow, [None EXCEPT !.faults = 1, !.losses = 1]),
       Plan([Plain EXCEPT !.lastChange = FALSE], TRUE, NoRow,
            [None EXCEPT !.faults = 2, !.losses = 1])}
P2 == {Plan([Plain EXCEPT !.lastChange = FALSE, !.faultReboot = TRUE], TRUE, NoRow,
           [None EXCEPT !.faults = 1, !.losses = 1, !.subs = 1])}
P3 == {Plan([Plain EXCEPT !.faultReboot = TRUE], FALSE, NoRow, [None EXCEPT !.faults = 1])}
P4 == {Plan(Plain, TRUE, NoRow, [None EXCEPT !.ops = 2])}
P5 == {Plan([Plain EXCEPT !.lastChange = FALSE], TRUE, NoRow, [None EXCEPT !.ops = 1, !.faults = 1])}
P6 == {Plan([Plain EXCEPT !.rebootDelay = FALSE, !.rowsFit = FALSE], FALSE, NoRow,
       [None EXCEPT !.ops = 1, !.losses = 1])}
P7 == {Plan(Plain, TRUE, r, [None EXCEPT !.ticks = 3, !.losses = 2]) : r \in MCConfigs}
P8 == {Plan([Plain EXCEPT !.lastChange = FALSE], TRUE, r,
        [None EXCEPT !.ticks = 3, !.profiles = 1, !.subs = 1]) : r \in MCConfigs}
P9 == {Plan(Plain, TRUE, NoRow, [None EXCEPT !.ops = 1, !.losses = 1])}
MCPlans == P1 \cup P2 \cup P3 \cup P4 \cup P5 \cup P6 \cup P7 \cup P8 \cup P9

=============================================================================
