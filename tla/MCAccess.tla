------------------------------ MODULE MCAccess ------------------------------
(* Small instances of Access: each plan gives one part the means to act.     *)
EXTENDS Access

Login(u, p) == [user |-> u, pass |-> p]

MCLogins == {Login("acs", "old"), Login("acs", "new"), Login(NoUser, "")}

MCIdentities == {Login("cpe", "old"), Login("cpe", "new")}

\* Two requests, one after the other; each may arrive several times.
Datagram(ts, id, login_) == [ts |-> ts, id |-> id, login |-> login_]
MCDatagrams == {Datagram(1, 1, Login("acs", "old")), Datagram(2, 2, Login("acs", "old"))}

Nothing == [requests |-> 0, shutdowns |-> 0, ticks |-> 0, logins |-> 0,
            writes |-> 0, batches |-> 0, stops |-> 0, errors |-> 0,
            losses |-> 0, rebinds |-> 0, datagrams |-> 0, resets |-> 0]

NoSessions == [sessions |-> 0, sends |-> 0, failures |-> 0, rotations |-> 0]

Off == [on |-> FALSE, server |-> "stun1"]
On  == [on |-> TRUE, server |-> "stun1"]

Quiescent ==
    [serving |-> "none", scheme |-> "none", login |-> Login("acs", "old"),
     left |-> Nothing, stun |-> FALSE, leaves |-> Off,
     identities |-> {Login("cpe", "old")}, acs |-> NoSessions,
     factory |-> [leaves |-> Off, login |-> Login("acs", "old"),
                  stored |-> Login("cpe", "old")]]

Listener(scheme_, left_) ==
    [Quiescent EXCEPT !.serving = "new", !.scheme = scheme_, !.left = left_]

Stun(leaves_, left_) ==
    [Quiescent EXCEPT !.stun = TRUE, !.leaves = leaves_, !.factory.leaves = leaves_,
                      !.left = left_]

ListenerPlans == {
    Listener("digest", [Nothing EXCEPT !.requests = 3, !.ticks = 2]),
    Listener("digest", [Nothing EXCEPT !.requests = 3, !.logins = 1, !.shutdowns = 1]),
    Listener("none",   [Nothing EXCEPT !.requests = 4, !.ticks = 5]),
    Listener("basic",  [Nothing EXCEPT !.requests = 2, !.logins = 1])}

StunPlans == {
    \* leaves written one at a time, and the end of the run
    Stun(On,  [Nothing EXCEPT !.writes = 2]),
    Stun(On,  [Nothing EXCEPT !.writes = 1, !.stops = 1, !.losses = 1]),
    \* the binding moves, and requests and responses are lost or refused
    Stun(On,  [Nothing EXCEPT !.writes = 1, !.rebinds = 1, !.losses = 1, !.errors = 1]),
    \* a factory reset, and a loop that ends over its socket
    Stun(On,  [Nothing EXCEPT !.writes = 1, !.rebinds = 1, !.resets = 1]),
    Stun(On,  [Nothing EXCEPT !.writes = 1, !.errors = 1, !.resets = 1]),
    \* UDP connection requests and their copies, with a restart in between
    Stun(On,  [Nothing EXCEPT !.datagrams = 2, !.writes = 1]),
    Stun(On,  [Nothing EXCEPT !.datagrams = 3, !.logins = 1]),
    Stun(Off, [Nothing EXCEPT !.batches = 1, !.writes = 1])}

TransportPlans ==
    {[Quiescent EXCEPT !.identities = MCIdentities, !.left.resets = 1,
                       !.acs = [sessions |-> 2, sends |-> 3, failures |-> 1,
                                rotations |-> 1]]}

\* The ACS enables STUN.
EnablePlans == {Stun(Off, [Nothing EXCEPT !.batches = 1])}

MCPlans == ListenerPlans \cup StunPlans \cup TransportPlans
=============================================================================
