------------------------------ MODULE UspLink ------------------------------
(***************************************************************************)
(* The USP agent's message transport (src/internal/usp/mtp/mqtt): the      *)
(* client (client.go) and the simulated uplink its sockets run over        *)
(* (link.go).  The MQTT library, the broker and the controller behind it   *)
(* are external and are modelled from how the client uses them: the        *)
(* library keeps a QoS 1 message until the broker acknowledges it, resends *)
(* what is unacknowledged when its session comes back, and retries lost    *)
(* connections by itself; the broker keeps one session per client id.      *)
(*                                                                         *)
(* Every Connect makes a new library client, so clients are numbered and   *)
(* cur is the one Client.client points at.  A client owns at most one      *)
(* socket, so a socket has its client's number.                            *)
(***************************************************************************)
EXTENDS Naturals, Sequences, FiniteSets

CONSTANTS
    MaxClients,   \* bound: how many times the agent connects
    Senders,      \* the goroutines that publish and wait for the answer
    Paths         \* the parameters whose value changes are reported

ASSUME ClientsAssumption == MaxClients \in Nat \ {0}

VARIABLES
    down,      \* link.down
    lib,       \* the state of each library client
    cur,       \* Client.client
    live,      \* link.live: the sockets the library owns
    held,      \* link.held: the sockets an outage took, still open
    queue,     \* per client, the messages the broker has not acknowledged
    wait,      \* per sender, its last Publish: in progress, or how it ended
    joined,    \* the clients whose Connect token is done
    got,       \* every message the controller has received
    seen,      \* per path, the latest report the controller received
    left,      \* what may still happen (bounds)
    told,      \* history: the broker noticed something during this outage
    raced      \* history: a dial was in flight when the link was cut

linkVars == <<down, lib, cur, live, held, queue, wait, joined, got, seen,
              left, told, raced>>

Clients == 1 .. MaxClients
Nobody  == "nobody"

(* paho's IsConnected with auto-reconnect and connect-retry set: true of a  *)
(* client that is connecting or reconnecting too, which is why Publish      *)
(* looks at the link first.                                                 *)
IsConnected(k) == lib[k] \in {"open", "retry", "dialing"}

(* A client that Connect has replaced without anyone disconnecting it: it   *)
(* keeps its queue and goes on reconnecting.                                *)
Replaced == \E k \in 1 .. cur - 1 : lib[k] # "closed"

(* A Close that does not ask who owns the socket (a mutant).                 *)
CloseAlways(k) ==
    /\ live' = live \ {k}
    /\ told' = (told \/ (down /\ k \in live \cup held))

(* severableConn.Close with link.release: only a socket the library still   *)
(* owns is closed, and closing one is what the broker notices.              *)
Close(k) ==
    /\ live' = live \ {k}
    /\ told' = (told \/ (down /\ k \in live))

-----------------------------------------------------------------------------
(* The fault's half: cut and restore.                                       *)

LinkDown ==
    /\ down'  = TRUE
    /\ held'  = held \cup live
    /\ live'  = {}
    /\ told'  = FALSE
    /\ raced' = (\E k \in Clients : lib[k] = "dialing")
    /\ UNCHANGED <<lib, cur, queue, wait, joined, got, seen>>

LinkUp ==
    /\ down' = FALSE
    /\ held' = {}
    /\ UNCHANGED <<lib, cur, live, queue, wait, joined, got, seen, left, told,
                   raced>>

-----------------------------------------------------------------------------
(* The library's half.                                                      *)

(* openConnection up to the dial: refused while the link is down.           *)
OpenConnection(k) ==
    /\ lib[k] = "retry"
    /\ ~down
    /\ lib' = [lib EXCEPT ![k] = "dialing"]
    /\ UNCHANGED <<down, cur, live, held, queue, wait, joined, got, seen,
                   left, told, raced>>

(* openConnection from the dial on, and the session over the new socket.    *)
(* The link is not looked at again, so a dial that straddles the cut ends   *)
(* with a live socket in the outage, over which no CONNECT goes out and     *)
(* which the library then closes.  Otherwise the broker takes the session   *)
(* over from any other client with this agent's id.                         *)
Dialled(k) ==
    /\ lib[k] = "dialing"
    /\ IF down
         THEN /\ lib' = [lib EXCEPT ![k] = "retry"]
              /\ told' = TRUE
              /\ UNCHANGED <<live, joined>>
         ELSE /\ lib' = [j \in Clients |->
                           IF j = k THEN "open"
                           ELSE IF lib[j] = "open" THEN "retry" ELSE lib[j]]
              /\ live' = {k}
              /\ joined' = joined \cup {k}
              /\ told' = told
    /\ UNCHANGED <<down, cur, held, queue, wait, got, seen, left, raced>>

(* severableConn.Read fails once the link has taken the socket; the library *)
(* closes it, which is a no-op for a held one, and starts to reconnect.     *)
ReadFails(k) ==
    /\ lib[k] = "open"
    /\ k \notin live
    /\ lib' = [lib EXCEPT ![k] = "retry"]
    /\ Close(k)
    /\ UNCHANGED <<down, cur, held, queue, wait, joined, got, seen, left,
                   raced>>

(* The session over which client k's messages reach the broker is up.       *)
Carries(k) == lib[k] = "open" /\ k \in live /\ ~down

(* Connections are lost without a fault too.                                *)
BrokerDrops(k) ==
    /\ left.losses > 0
    /\ Carries(k)
    /\ lib'  = [lib EXCEPT ![k] = "retry"]
    /\ live' = live \ {k}
    /\ left' = [left EXCEPT !.losses = @ - 1]
    /\ UNCHANGED <<down, cur, held, queue, wait, joined, got, seen, told,
                   raced>>

(* What the controller makes of a message it receives.                      *)
Receive(m) ==
    /\ got'  = got \cup {m}
    /\ seen' = IF m.t = "value" THEN [seen EXCEPT ![m.path] = m.at] ELSE seen

(* The broker takes the oldest unacknowledged message.  The acknowledgement *)
(* answers the sender, if it still waits; or it is lost with the            *)
(* connection, and the message will be sent again.                          *)
Reaches(k) ==
    /\ Carries(k)
    /\ queue[k] # <<>>
    /\ Receive(Head(queue[k]).msg)

Acknowledged(k) ==
    /\ Reaches(k)
    /\ queue' = [queue EXCEPT ![k] = Tail(@)]
    /\ wait'  = [p \in Senders |->
                   IF Head(queue[k]).by = p THEN "sent" ELSE wait[p]]
    /\ UNCHANGED <<down, lib, cur, live, held, joined, left, told, raced>>

AckLost(k) ==
    /\ left.losses > 0
    /\ Reaches(k)
    /\ lib'  = [lib EXCEPT ![k] = "retry"]
    /\ live' = live \ {k}
    /\ left' = [left EXCEPT !.losses = @ - 1]
    /\ UNCHANGED <<down, cur, held, queue, wait, joined, told, raced>>

-----------------------------------------------------------------------------
(* The agent's half.                                                        *)

Publishable == ~down /\ IsConnected(cur)

(* Client.Publish up to the wait for the acknowledgement, for a sender that *)
(* waits and for one that does not look at the answer.                      *)
Enqueue(by, m) ==
    queue' = [queue EXCEPT ![cur] = Append(@, [by |-> by, msg |-> m])]

Publish(p, m) ==
    /\ \/ /\ Publishable
          /\ Enqueue(p, m)
          /\ wait' = [wait EXCEPT ![p] = "waiting"]
       \/ /\ ~Publishable
          /\ wait' = [wait EXCEPT ![p] = "failed"]
          /\ UNCHANGED queue
    /\ UNCHANGED <<down, lib, cur, live, held, joined, got, seen, left, told,
                   raced>>

PublishAsync(m) ==
    /\ \/ Publishable /\ Enqueue(Nobody, m)
       \/ ~Publishable /\ UNCHANGED queue
    /\ UNCHANGED <<down, lib, cur, live, held, wait, joined, got, seen, left,
                   told, raced>>

(* publishTimeout: the sender is answered, the library keeps the message.   *)
(* A session that is up acknowledges in time; a late acknowledgement is     *)
(* AckLost.                                                                 *)
PublishTimesOut(p) ==
    /\ wait[p] = "waiting"
    /\ \E k \in Clients :
          /\ ~Carries(k)
          /\ \E i \in DOMAIN queue[k] : queue[k][i].by = p
    /\ wait' = [wait EXCEPT ![p] = "failed"]
    /\ queue' = [k \in Clients |->
                   [i \in DOMAIN queue[k] |->
                      IF queue[k][i].by = p
                        THEN [queue[k][i] EXCEPT !.by = Nobody]
                        ELSE queue[k][i]]]
    /\ UNCHANGED <<down, lib, cur, live, held, joined, got, seen, left, told,
                   raced>>

Answered(p) == wait[p] # "waiting"

(* Disconnect: the library drops what it held and fails its senders.        *)
Disconnect ==
    IF IsConnected(cur)
      THEN /\ lib' = [lib EXCEPT ![cur] = "closed"]
           /\ queue' = [queue EXCEPT ![cur] = <<>>]
           /\ wait' = [p \in Senders |->
                         IF \E i \in DOMAIN queue[cur] : queue[cur][i].by = p
                           THEN "failed" ELSE wait[p]]
           /\ Close(cur)
           /\ UNCHANGED <<down, cur, held, joined, got, seen, left, raced>>
      ELSE UNCHANGED linkVars

(* Connect up to the wait for its token: a new client, whatever became of   *)
(* the one before it.                                                       *)
Connect ==
    /\ cur < MaxClients
    /\ cur' = cur + 1
    /\ lib' = [lib EXCEPT ![cur + 1] = "retry"]
    /\ UNCHANGED <<down, live, held, queue, wait, joined, got, seen, left,
                   told, raced>>

Connected == lib[cur] = "open"

(* Runner.Run has called Connect; or the session it made is up.             *)
LinkInit(up) ==
    /\ down = FALSE
    /\ lib = [k \in Clients |-> IF k > 1 THEN "none"
                                ELSE IF up THEN "open" ELSE "retry"]
    /\ cur = 1
    /\ live = (IF up THEN {1} ELSE {}) /\ held = {}
    /\ queue = [k \in Clients |-> <<>>]
    /\ wait = [p \in Senders |-> "sent"]
    /\ joined = live
    /\ got = {}
    /\ seen = [path \in Paths |-> 0]
    /\ told = FALSE /\ raced = FALSE

LibraryStep(k) ==
    \/ OpenConnection(k)
    \/ Dialled(k)
    \/ ReadFails(k)
    \/ BrokerDrops(k)
    \/ Acknowledged(k)
    \/ AckLost(k)

LinkStep ==
    \/ \E k \in Clients : LibraryStep(k)
    \/ \E p \in Senders : PublishTimesOut(p)

=============================================================================
