----------------------------- MODULE StunClient -----------------------------
(***************************************************************************)
(* The STUN client (src/internal/cwmp/stun): the observer that reconciles  *)
(* the binding loop with the tree, the loops it starts, the address they   *)
(* report and the UDP connection requests they validate against the        *)
(* credentials CrListener's handlers use too.                              *)
(*                                                                         *)
(* A loop's settings are the server it was started with.  A response is    *)
(* ignored unless it answers the pending request, so a request that is     *)
(* replaced takes what is on its way along: per loop there is at most one  *)
(* request on the wire and one response in the datagram channel.  The NAT, *)
(* the STUN server and the ACS are external.                               *)
(***************************************************************************)
EXTENDS CrListener

CONSTANTS
    Servers,       \* what STUNServerAddress may lead to, NoServer among them
    Resolves,      \* the servers whose address resolves
    Tasks,         \* the reconcile goroutines in flight at once
    MaxLoops,      \* bound: how often a loop is started
    MaxAttempts,   \* the transmissions of one request (9 in the code)
    Datagrams      \* the UDP connection requests the ACS sends: [ts, id, login]

ASSUME StunAssumption ==
    /\ Tasks # {} /\ MaxLoops \in Nat /\ MaxAttempts \in Nat
    /\ \A d \in Datagrams : d.ts \in Nat

VARIABLES
    leaves,      \* the tree's STUN leaves
    task,        \* per goroutine, where its reconcile is
    running,     \* Client.running
    settings,    \* Client.settings
    cur,         \* the loop Client.cancel belongs to, 0 when it is nil
    started,     \* how many loops have been started
    loop,        \* per loop, its state
    binding,     \* per loop, the address the NAT maps its socket to
    wire,        \* the loops whose binding request is on its way
    natDetected, \* the tree's NATDetected
    udpAddress,  \* the tree's UDPConnectionRequestAddress
    last,        \* lastTS, lastID and seen
    taken,       \* history: how often each UDP request was accepted
    unseen,      \* history: the last write of a leaf notified no observer
    stale,       \* history: the last reconcile applied settings read too early
    observing,   \* the observer is registered and the run's context not done
    overwritten, \* history: the leaves a cancelled loop or a factory reset was
                 \* the last to write
    mixed        \* history: two loops had a request validated at once

stunVars == <<leaves, task, running, settings, cur, started, loop, binding,
              wire, natDetected, udpAddress, last, taken, unseen, stale,
              observing, overwritten, mixed>>

NoServer == "no server"
Loops    == 1 .. MaxLoops
NoLoop   == [at |-> "none", live |-> FALSE]
Nowhere  == <<0, "none">>

Local(l)  == <<l, "local">>
Public(l) == {Local(l)} \cup ({l} \X {"mapped", "moved"})

(* current and the test of reconcile: whether a loop is wanted at all.      *)
wants(s) == s.on /\ s.server # NoServer

-----------------------------------------------------------------------------
(* The tree's side.                                                         *)

(* Reconciliation is asked for on a goroutine of its own (Start).           *)
Spawn ==
    \E t \in Tasks :
      /\ task[t].at = "idle"
      /\ task' = [task EXCEPT ![t].at = "enable"]

(* A write of one leaf through Set or SetSystem (a USP Set, the device's    *)
(* own): the client's observer runs and spawns a reconcile.                 *)
WriteLeaf ==
    /\ Spend("writes")
    /\ \/ leaves' = [leaves EXCEPT !.on = ~@]
       \/ \E s \in Servers \ {leaves.server} : leaves' = [leaves EXCEPT !.server = s]
    /\ IF observing THEN Spawn ELSE UNCHANGED task
    /\ unseen' = FALSE
    /\ UNCHANGED <<running, settings, cur, started, loop, binding, wire,
                   natDetected, udpAddress, last, taken, stale, observing, overwritten, mixed>>

(* A SetParameterValues: SetBatch writes its leaves at once and notifies    *)
(* no observer.                                                             *)
SetBatch ==
    /\ Spend("batches")
    /\ leaves' \in [on : BOOLEAN, server : Servers] \ {leaves}
    /\ unseen' = TRUE
    /\ UNCHANGED <<task, running, settings, cur, started, loop, binding, wire,
                   natDetected, udpAddress, last, taken, stale, observing, overwritten, mixed>>

(* reconcile's reads, leaf by leaf and without the client's lock.           *)
ReadEnable(t) ==
    /\ task[t].at = "enable"
    /\ task' = [task EXCEPT ![t].want.on = leaves.on, ![t].at = "server"]
    /\ UNCHANGED <<leaves, running, settings, cur, started, loop, binding, wire,
                   natDetected, udpAddress, last, taken, unseen, stale, observing,
                   overwritten, mixed, left>>

ReadServer(t) ==
    /\ task[t].at = "server"
    /\ task' = [task EXCEPT ![t].want.server = leaves.server, ![t].at = "lock"]
    /\ UNCHANGED <<leaves, running, settings, cur, started, loop, binding, wire,
                   natDetected, udpAddress, last, taken, unseen, stale, observing,
                   overwritten, mixed, left>>

(* Nothing to do for the settings the last loop had, running or not (a       *)
(* mutant).                                                                  *)
upToDateStopped(want) == want = settings

upToDate(want) == running /\ want = settings

(* The rest of reconcile, under the lock.                                   *)
Reconcile(t) ==
    LET want == task[t].want IN
    /\ task[t].at = "lock"
    /\ started < MaxLoops
    /\ task' = [task EXCEPT ![t] = [at |-> "idle", want |-> leaves]]
    /\ stale' = (want # leaves)
    /\ wire' = IF upToDate(want) THEN wire ELSE wire \ {cur}
    /\ IF upToDate(want)
         THEN UNCHANGED <<running, settings, cur, started, loop>>
         ELSE LET stopped == IF cur = 0 THEN loop ELSE [loop EXCEPT ![cur].live = FALSE]
              IN  IF wants(want)
                    THEN /\ started' = started + 1
                         /\ cur' = started + 1
                         /\ running' = TRUE
                         /\ settings' = want
                         /\ loop' = [stopped EXCEPT ![started + 1] =
                              [at |-> "open", live |-> observing, server |-> want.server,
                               attempts |-> 0, change |-> FALSE, mapped |-> Nowhere,
                               response |-> Nowhere, in |-> << >>, user |-> NoUser,
                               pass |-> ""]]
                    ELSE /\ loop' = stopped
                         /\ cur' = 0
                         /\ running' = IF cur = 0 THEN running ELSE FALSE
                         /\ UNCHANGED <<settings, started>>
    /\ UNCHANGED <<leaves, binding, natDetected, udpAddress, last, taken, unseen,
                   observing, overwritten, mixed, left>>

(* What Start returned, when the run ends: its context is done by then, so  *)
(* a loop started later is cancelled from the start.                        *)
Stop ==
    /\ Spend("stops")
    /\ observing
    /\ observing' = FALSE
    /\ loop' = IF cur = 0 THEN loop ELSE [loop EXCEPT ![cur].live = FALSE]
    /\ wire' = wire \ {cur}
    /\ UNCHANGED <<leaves, task, running, settings, cur, started, binding,
                   natDetected, udpAddress, last, taken, unseen, stale, overwritten,
                   mixed>>

-----------------------------------------------------------------------------
(* loop.                                                                    *)

LoopAt(l, place) == loop[l].at = place

LoopUnchanged == UNCHANGED <<leaves, task, running, settings, cur, started, last,
                             taken, unseen, stale, observing, left>>

(* send: a new pending request, transmitted once.                           *)
sent(state, change) ==
    [state EXCEPT !.attempts = 1, !.change = change, !.response = Nowhere]

Transmit(l) == wire' = IF loop[l].live THEN wire \cup {l} ELSE wire

(* The socket and the first request.  A server that does not resolve ends   *)
(* the loop, and running stays as it is.                                    *)
Open(l) ==
    /\ LoopAt(l, "open")
    /\ IF loop[l].server \in Resolves
         THEN loop' = [loop EXCEPT ![l] = [sent(@, TRUE) EXCEPT !.at = "select"]]
              /\ Transmit(l)
         ELSE loop' = [loop EXCEPT ![l].at = "done"] /\ UNCHANGED wire
    /\ LoopUnchanged
    /\ UNCHANGED <<binding, natDetected, udpAddress, overwritten, mixed>>

(* The loop ends by itself as well when no socket can be had, or when a     *)
(* read of it fails: readDatagrams closes the channel, and the loop returns *)
(* once it has taken what is in it.  running stays as it is here too.       *)
SocketFails(l) ==
    /\ Spend("errors")
    /\ loop[l].live
    /\ \/ LoopAt(l, "open") /\ loop[l].server \in Resolves
       \/ LoopAt(l, "select") /\ loop[l].response = Nowhere /\ loop[l].in = << >>
    /\ loop' = [loop EXCEPT ![l].at = "done"]
    /\ wire' = wire \ {l}
    /\ UNCHANGED <<leaves, task, running, settings, cur, started, binding,
                   natDetected, udpAddress, last, taken, unseen, stale, observing,
                   overwritten, mixed>>

Cancelled(l) ==
    /\ LoopAt(l, "select")
    /\ ~loop[l].live
    /\ loop' = [loop EXCEPT ![l].at = "done"]
    /\ LoopUnchanged
    /\ UNCHANGED <<binding, wire, natDetected, udpAddress, overwritten, mixed>>

(* The keepalive replaces whatever request is pending.  A cancelled loop    *)
(* may still get here, or to Retransmit, but its socket is closed and       *)
(* nothing comes of it.                                                     *)
KeepAlive(l) ==
    /\ LoopAt(l, "select")
    /\ loop[l].live
    /\ loop' = [loop EXCEPT ![l] = sent(@, FALSE)]
    /\ Transmit(l)
    /\ LoopUnchanged
    /\ UNCHANGED <<binding, natDetected, udpAddress, overwritten, mixed>>

Retransmit(l) ==
    /\ LoopAt(l, "select")
    /\ loop[l].live
    /\ loop[l].attempts > 0
    /\ IF loop[l].attempts >= MaxAttempts
         THEN loop' = [loop EXCEPT ![l].attempts = 0, ![l].response = Nowhere]
              /\ wire' = wire \ {l}
         ELSE loop' = [loop EXCEPT ![l].attempts = @ + 1] /\ Transmit(l)
    /\ LoopUnchanged
    /\ UNCHANGED <<binding, natDetected, udpAddress, overwritten, mixed>>

(* Only the first mapping is reported (a mutant).                            *)
movedOnce(l, addr) == loop[l].mapped = Nowhere

moved(l, addr) == loop[l].mapped # addr

(* The response to the pending request.  A new mapping is reported; one     *)
(* that replaces another is also announced at once.                         *)
Response(l) ==
    LET addr  == loop[l].response
        clear == [loop[l] EXCEPT !.attempts = 0, !.response = Nowhere]
    IN
    /\ LoopAt(l, "select")
    /\ addr # Nowhere
    /\ IF moved(l, addr)
         THEN /\ loop' = [loop EXCEPT ![l] =
                   [IF @.mapped = Nowhere THEN clear ELSE sent(@, TRUE)
                      EXCEPT !.mapped = addr, !.at = "nat"]]
              /\ wire' = IF loop[l].mapped # Nowhere /\ loop[l].live
                           THEN wire \cup {l} ELSE wire
         ELSE loop' = [loop EXCEPT ![l] = clear] /\ UNCHANGED wire
    /\ LoopUnchanged
    /\ UNCHANGED <<binding, natDetected, udpAddress, overwritten, mixed>>

(* A Binding Error Response, or one without a usable MAPPED-ADDRESS.        *)
ErrorResponse(l) ==
    /\ Spend("errors")
    /\ LoopAt(l, "select")
    /\ l \in wire
    /\ loop[l].attempts > 0
    /\ loop' = [loop EXCEPT ![l].attempts = 0]
    /\ wire' = wire \ {l}
    /\ UNCHANGED <<leaves, task, running, settings, cur, started, binding,
                   natDetected, udpAddress, last, taken, unseen, stale, observing,
                   overwritten, mixed>>

(* report, a leaf at a time.  Two loops may be in it at once.               *)
ReportNat(l) ==
    /\ LoopAt(l, "nat")
    /\ natDetected' = (loop[l].mapped # Local(l))
    /\ overwritten' = IF loop[l].live THEN overwritten \ {"nat"} ELSE overwritten \cup {"nat"}
    /\ loop' = [loop EXCEPT ![l].at = "address"]
    /\ LoopUnchanged
    /\ UNCHANGED <<binding, wire, udpAddress, mixed>>

ReportAddress(l) ==
    /\ LoopAt(l, "address")
    /\ udpAddress' = loop[l].mapped
    /\ overwritten' = IF loop[l].live THEN overwritten \ {"address"} ELSE overwritten \cup {"address"}
    /\ loop' = [loop EXCEPT ![l].at = "select"]
    /\ LoopUnchanged
    /\ UNCHANGED <<binding, wire, natDetected, mixed>>

-----------------------------------------------------------------------------
(* connectionRequest.                                                       *)

(* The username, then the password, are read from the tree.                 *)
RequestUser(l) ==
    /\ LoopAt(l, "select")
    /\ loop[l].in # << >>
    /\ loop' = [loop EXCEPT ![l].user = login.user, ![l].at = "pass"]
    /\ LoopUnchanged
    /\ UNCHANGED <<binding, wire, natDetected, udpAddress, overwritten, mixed>>

RequestPass(l) ==
    /\ LoopAt(l, "pass")
    /\ loop' = [loop EXCEPT ![l].pass = login.pass, ![l].at = "last"]
    /\ LoopUnchanged
    /\ UNCHANGED <<binding, wire, natDetected, udpAddress, overwritten, mixed>>

(* The replay check without the timestamp (a mutant).                        *)
freshById(d, seen) == ~seen.any \/ d.id # seen.id

fresh(d, seen) == d.ts > seen.ts /\ (seen.any => d.id # seen.id)

Signed(l, d) == d.login = [user |-> loop[l].user, pass |-> loop[l].pass]

(* The record is read in one lock section and written in another.           *)
RequestCheck(l) ==
    LET d == Head(loop[l].in) IN
    /\ LoopAt(l, "last")
    /\ loop' = [loop EXCEPT
         ![l].at = IF fresh(d, last) /\ Signed(l, d) THEN "accept" ELSE "select",
         ![l].in = IF fresh(d, last) /\ Signed(l, d) THEN @ ELSE Tail(@)]
    /\ LoopUnchanged
    /\ UNCHANGED <<binding, wire, natDetected, udpAddress, overwritten, mixed>>

(* The record, and OnConnectionRequest.                                     *)
RequestAccept(l) ==
    LET d == Head(loop[l].in) IN
    /\ LoopAt(l, "accept")
    /\ last' = [ts |-> d.ts, id |-> d.id, any |-> TRUE]
    /\ taken' = [taken EXCEPT ![d] = @ + 1]
    /\ mixed' = (mixed \/ \E k \in Loops \ {l} : loop[k].at = "accept")
    /\ loop' = [loop EXCEPT ![l].at = "select", ![l].in = Tail(@)]
    /\ UNCHANGED <<leaves, task, running, settings, cur, started, binding, wire,
                   natDetected, udpAddress, unseen, stale, observing, overwritten, left>>

-----------------------------------------------------------------------------
(* Outside: the network, the NAT, the STUN server and the ACS.              *)

Answer(l) ==
    /\ l \in wire
    /\ loop[l].live
    /\ loop[l].at # "done"
    /\ wire' = wire \ {l}
    /\ loop' = [loop EXCEPT ![l].response =
                  IF @ = Nowhere /\ loop[l].attempts > 0 THEN binding[l] ELSE @]
    /\ LoopUnchanged
    /\ UNCHANGED <<binding, natDetected, udpAddress, overwritten, mixed>>

Lose(l) ==
    /\ Spend("losses")
    /\ l \in wire
    /\ wire' = wire \ {l}
    /\ UNCHANGED <<leaves, task, running, settings, cur, started, loop, binding,
                   natDetected, udpAddress, last, taken, unseen, stale, observing,
                   overwritten, mixed>>

(* The NAT maps the socket somewhere else.                                  *)
Rebind(l) ==
    /\ Spend("rebinds")
    /\ loop[l].live
    /\ \E a \in Public(l) \ {binding[l]} : binding' = [binding EXCEPT ![l] = a]
    /\ UNCHANGED <<leaves, task, running, settings, cur, started, loop, wire,
                   natDetected, udpAddress, last, taken, unseen, stale, observing,
                   overwritten, mixed>>

(* The ACS sends a request, and copies of it, through the binding.          *)
SendRequest(l) ==
    /\ Spend("datagrams")
    /\ loop[l].live
    /\ loop[l].at # "open"
    /\ \E d \in Datagrams : loop' = [loop EXCEPT ![l].in = Append(@, d)]
    /\ UNCHANGED <<leaves, task, running, settings, cur, started, binding, wire,
                   natDetected, udpAddress, last, taken, unseen, stale, observing,
                   overwritten, mixed>>

(* Start reconciles once; a profile without the leaves has no client.       *)
StunInit(modelled, leaves_) ==
    /\ leaves = leaves_
    /\ task = [t \in Tasks |->
                 [at |-> IF modelled /\ t = CHOOSE u \in Tasks : TRUE
                           THEN "enable" ELSE "idle",
                  want |-> leaves_]]
    /\ running = FALSE
    /\ settings = [on |-> FALSE, server |-> NoServer]
    /\ cur = 0
    /\ started = 0
    /\ loop = [l \in Loops |-> NoLoop]
    /\ binding = [l \in Loops |-> <<l, "mapped">>]
    /\ wire = {}
    /\ natDetected = FALSE
    /\ udpAddress = Nowhere
    /\ last = [ts |-> 0, id |-> 0, any |-> FALSE]
    /\ taken = [d \in Datagrams |-> 0]
    /\ unseen = FALSE
    /\ stale = FALSE
    /\ observing = TRUE
    /\ overwritten = {}
    /\ mixed = FALSE

(* The steps of a loop between two selects.                                 *)
Busy(l) ==
    \/ Open(l) \/ ReportNat(l) \/ ReportAddress(l) \/ RequestPass(l)
    \/ RequestCheck(l) \/ RequestAccept(l)

LoopStep(l) ==
    \/ Busy(l) \/ Cancelled(l) \/ KeepAlive(l) \/ Retransmit(l) \/ Response(l)
    \/ RequestUser(l)

StunStep ==
    /\ \/ WriteLeaf \/ SetBatch \/ Stop
       \/ \E t \in Tasks : ReadEnable(t) \/ ReadServer(t) \/ Reconcile(t)
       \/ \E l \in Loops :
            \/ LoopStep(l) \/ SocketFails(l) \/ ErrorResponse(l) \/ Answer(l)
            \/ Lose(l) \/ Rebind(l) \/ SendRequest(l)
    /\ UNCHANGED <<serving, scheme, login, clock, nonces, issued, lastAllowed,
                   handler, admitted, told>>

(* Goroutines are scheduled, timers fire, a select that finds a datagram    *)
(* ready again and again takes it, and the server answers again and again   *)
(* what is sent to it again and again.  Nothing is assumed of a loop that   *)
(* has been replaced.                                                       *)
StunFairness ==
    /\ \A t \in Tasks : WF_stunVars(ReadEnable(t) \/ ReadServer(t) \/ Reconcile(t))
    /\ WF_stunVars(\E l \in Loops \cap {cur} : Busy(l))
    /\ WF_stunVars(\E l \in Loops \cap {cur} : KeepAlive(l))
    /\ SF_stunVars(\E l \in Loops \cap {cur} : Answer(l))
    /\ SF_stunVars(\E l \in Loops \cap {cur} : Response(l))

-----------------------------------------------------------------------------
Quiet == \A t \in Tasks : task[t].at = "idle"

\* The loops that run, and the ones that ended though nobody cancelled them.
Running == {l \in Loops : loop[l].live /\ loop[l].at \notin {"none", "done"}}
Ended   == {l \in Loops : loop[l].live /\ loop[l].at = "done"}

FollowsTree ==
    Running = (IF observing /\ wants(leaves) THEN {cur} ELSE {}) \ Ended

(* Once the reconciles the tree's writes spawned have run, the client runs  *)
(* one loop, and with the tree's settings, or none when the tree wants none *)
(* (reconcile: "starts, restarts or stops the loop to match the tree").     *)
(* Three things the code does break this and are excepted, each a hazard: a *)
(* SetParameterValues or a factory reset, which tell no observer; a         *)
(* reconcile that read the leaves before another's write and took the lock  *)
(* after it; and a loop that ended by itself, over a server that does not   *)
(* resolve or over its socket, which nothing starts again.                  *)
StunFollowsTree ==
    Quiet /\ ~unseen /\ ~stale =>
        FollowsTree /\ (observing /\ cur # 0 => settings = leaves)

(* The same without the first exception, with no reconcile left to run:     *)
(* what the guide says of an ACS that writes STUNEnable true.  It is not    *)
(* so: SetBatch tells no observer.                                          *)
StunStartsWhenEnabled ==
    Quiet /\ ~stale => FollowsTree

(* Each UDP connection request triggers one session, however many copies of *)
(* it and of later requests arrive and however often the loop is restarted  *)
(* in between (connectionRequest), unless two loops validated at once: the  *)
(* check and the record are two lock sections.                              *)
AcceptedOnce ==
    mixed \/ \A d \in Datagrams : taken[d] <= 1

(* The address and the NAT flag in the tree catch up with the binding of    *)
(* the running loop, whatever requests and responses are lost, replaced by  *)
(* a keepalive or refused, and wherever the NAT moves it (loop, report).    *)
(* Excepted are a loop that ended by itself, which nothing starts again,    *)
(* and a leaf that a cancelled loop's late report or a factory reset was    *)
(* the last to write: the running loop reports only what is new to it.      *)
AddressCatchesUp ==
    <>[](cur # 0 /\ loop[cur].live /\ loop[cur].at # "done" /\ overwritten = {} =>
           /\ udpAddress = binding[cur]
           /\ natDetected = (binding[cur] # Local(cur)))
=============================================================================
