-------------------------- MODULE UspDeviceProofs --------------------------
(***************************************************************************)
(* The safety properties of the USP side for any number of connections,    *)
(* outages, operations, subscriptions, profiles and reports: what the      *)
(* broker sees of an outage, and what becomes of a bulk data report.       *)
(***************************************************************************)
EXTENDS UspDevice, SequenceTheorems, TLAPS

-----------------------------------------------------------------------------
(* The link: an outage is silent *)

Phase == {"none", "retry", "dialing", "open", "closed"}

LinkTypeOK ==
    /\ down \in BOOLEAN /\ told \in BOOLEAN /\ raced \in BOOLEAN
    /\ cur \in Clients
    /\ lib \in [Clients -> Phase]

\* In an outage the library owns no socket, so whatever it closes is nothing
\* the broker sees, and a dial in progress is older than the outage.
OutageInv ==
    /\ LinkTypeOK
    /\ down => live = {}
    /\ down /\ (\E k \in Clients : lib[k] = "dialing") => raced
    /\ OutageIsSilent

LEMMA OutageInitially == Init => OutageInv
  <1> SUFFICES ASSUME NEW plan \in Plans, LinkInit(plan.up)
               PROVE  OutageInv
    BY DEF Init
  <1>1. lib \in [Clients -> Phase]
    BY DEF LinkInit, Phase
  <1>2. cur \in Clients
    BY ClientsAssumption DEF LinkInit, Clients
  <1>3. down = FALSE /\ told = FALSE /\ raced = FALSE
    BY DEF LinkInit
  <1> QED BY <1>1, <1>2, <1>3 DEF OutageInv, LinkTypeOK, OutageIsSilent

OutageVars == <<down, lib, cur, live, told, raced>>

LEMMA OutageUnchanged == OutageInv /\ UNCHANGED OutageVars => OutageInv'
  BY DEF OutageInv, LinkTypeOK, OutageIsSilent, OutageVars

LEMMA OutageLibrary ==
    ASSUME OutageInv, NEW k \in Clients, LibraryStep(k)
    PROVE  OutageInv'
  <1> USE DEF OutageInv, LinkTypeOK, OutageIsSilent, Phase
  <1>1. CASE OpenConnection(k)
    BY <1>1 DEF OpenConnection
  <1>2. CASE Dialled(k)
    BY <1>2 DEF Dialled
  <1>3. CASE ReadFails(k)
    BY <1>3 DEF ReadFails, Close
  <1>4. CASE BrokerDrops(k)
    BY <1>4 DEF BrokerDrops
  <1>5. CASE Acknowledged(k)
    BY <1>5 DEF Acknowledged
  <1>6. CASE AckLost(k)
    BY <1>6 DEF AckLost
  <1> QED BY <1>1, <1>2, <1>3, <1>4, <1>5, <1>6 DEF LibraryStep

LEMMA OutageDisconnect == OutageInv /\ Disconnect => OutageInv'
  BY DEF Disconnect, Close, linkVars, OutageInv, LinkTypeOK, OutageIsSilent, Phase

LEMMA OutageConnect == OutageInv /\ Connect => OutageInv'
  BY ClientsAssumption DEF Connect, OutageInv, LinkTypeOK, OutageIsSilent, Phase, Clients

LEMMA PublishesQuietly ==
    /\ \A p, m : Publish(p, m) => UNCHANGED OutageVars
    /\ \A m : PublishAsync(m) => UNCHANGED OutageVars
    /\ \A p, sub, m : SendTo(p, sub, m) => UNCHANGED OutageVars
  BY DEF Publish, PublishAsync, SendTo, OutageVars

LEMMA OutageAgent == OutageInv /\ AgentStep => OutageInv'
  <1> SUFFICES ASSUME OutageInv, AgentStep
               PROVE  OutageInv'
    OBVIOUS
  <1> USE OutageUnchanged, PublishesQuietly
  <1>1. ASSUME NEW p \in Announcers, AnnounceStep(p)
        PROVE  OutageInv'
    BY <1>1 DEF AnnounceStep, Onboard, Onboarded, Boot, linkVars, OutageVars
  <1>2. ASSUME NEW p \in {"run"} \cup Restarts, Rejoined(p)
        PROVE  OutageInv'
    BY <1>2 DEF Rejoined, linkVars, OutageVars
  <1>3. ASSUME NEW r \in Restarts, RestartStep(r)
        PROVE  OutageInv'
    BY <1>3, OutageDisconnect, OutageConnect
       DEF RestartStep, RestartDisconnects, RestartConnects
  <1>4. CASE Operate
    BY <1>4 DEF Operate, OperateRestart, OperateFirmware, Operated, OutageVars
  <1>5. CASE Reply
    BY <1>5 DEF Reply
  <1>6. CASE OperationStep
    BY <1>6, OutageDisconnect, OutageConnect
       DEF OperationStep, DownloadStarts, DownloadFails, DownloadEnds,
           TransferComplete, ActivateStarts, GoesDark, Applied, FirmwareBoot,
           Release, Complete, linkVars, OutageVars
  <1>7. CASE TriggerFault
    BY <1>7 DEF TriggerFault, LinkDown, OutageInv, LinkTypeOK, OutageIsSilent
  <1>8. CASE WindowEnds
    BY <1>8 DEF WindowEnds, LinkUp, OutageInv, LinkTypeOK, OutageIsSilent
  <1>9. CASE FaultStep /\ ~WindowEnds
    BY <1>9 DEF FaultStep, InterfaceDown, RejoinWaited, AccountDown, AccountDuration,
                InterfaceUp, AccountSince, AccountRestart, ReportValueChange,
                linkVars, OutageVars
  <1>10. ASSUME NEW m \in spawned, SendSpawned(m)
         PROVE  OutageInv'
    BY <1>10 DEF SendSpawned
  <1>11. ASSUME NEW s \in Subs \ Standing, Subscribes(s)
         PROVE  OutageInv'
    BY <1>11 DEF Subscribes, OutageVars
  <1> QED BY <1>1, <1>2, <1>3, <1>4, <1>5, <1>6, <1>7, <1>8, <1>9, <1>10, <1>11
          DEF AgentStep

LEMMA OutageInvariant == Spec => []OutageInv
  <1>1. OutageInv /\ LinkStep => OutageInv'
    BY OutageLibrary, OutageUnchanged DEF LinkStep, PublishTimesOut, OutageVars
  <1>2. OutageInv /\ BulkStep(enabled \cap PushSubs) => OutageInv'
    BY OutageUnchanged, PublishesQuietly
       DEF BulkStep, Clock, TickOff, TickEarly, TickDue, PushNext, PushEnds,
           WriteProfile, linkVars, OutageVars
  <1>3. OutageInv /\ [Next]_vars => OutageInv'
    BY <1>1, <1>2, OutageAgent, OutageUnchanged DEF Next, vars, linkVars, OutageVars
  <1> QED BY <1>3, OutageInitially, PTL DEF Spec

\* The broker sees nothing of an outage that no dial straddled (link.go), with
\* any number of outages, reconnections, restarts and activations.
THEOREM OutagesAreSilent == Spec => []OutageIsSilent
  <1>1. OutageInv => OutageIsSilent
    BY DEF OutageInv
  <1> QED BY <1>1, OutageInvariant, PTL

-----------------------------------------------------------------------------
(* Bulk data: no report is dropped silently *)

Answer == {"idle", "sent", "waiting", "failed"}

BulkTypeOK ==
    /\ wait \in [Senders -> Answer]
    /\ now \in Nat /\ tick \in Nat
    /\ row \in Rows /\ (row.fit => row.every > 0)
    /\ st \in [known : BOOLEAN, skipped : BOOLEAN, every : Nat, due : Int,
               retained : Seq(Nat)]
    /\ push \in [at : Nat, spec : Rows, subs : SUBSET PushSubs, failed : BOOLEAN,
                 delivered : Nat]
    /\ push # NoPush => push.at # 0 /\ push.spec.every > 0

\* A library client's queue is a sequence of messages, whatever they carry.
QueueTypeOK ==
    \E M : queue \in [Clients -> Seq([by : Senders \cup {Nobody}, msg : M])]

\* What the push in progress sends, and to whom it owes it.
Batch == Append(st.retained, push.at)
Owed  == Standing \cap PushSubs

Reached(s, r) == \E n \in got : n.t = "push" /\ n.sub = s /\ r \in ToSet(n.reports)

\* Somebody still answers for report r, or it has reached everybody.
Accounted(r) ==
    \/ r \in ToSet(st.retained)
    \/ push # NoPush /\ r = push.at
    \/ r \in lost
    \/ \A s \in Owed : Reached(s, r)

Sent(k) == DOMAIN queue[k]
Bulk(k, i) == queue[k][i].by = "bulk"

\* The collector waits for one message at a time, and it is this push's.
OneInFlight ==
    \A k, l \in Clients : \A i \in Sent(k), j \in Sent(l) :
        Bulk(k, i) /\ Bulk(l, j) => k = l /\ i = j

InFlightIsBatch ==
    \A k \in Clients : \A i \in Sent(k) :
        Bulk(k, i) => /\ wait["bulk"] = "waiting" /\ push # NoPush
                      /\ queue[k][i].msg.t = "push"
                      /\ queue[k][i].msg.reports = Batch

\* A subscription the push has come past has the batch, unless a send failed or
\* the answer to the last one is outstanding.
Progress ==
    push # NoPush =>
       \A s \in Owed :
          \/ s \in push.subs
          \/ push.failed \/ wait["bulk"] = "failed"
          \/ \A r \in ToSet(Batch) : Reached(s, r)
          \/ /\ wait["bulk"] = "waiting"
             /\ \A k \in Clients : \A i \in Sent(k) :
                   Bulk(k, i) => queue[k][i].msg.sub = s

\* Every report the collector took is accounted for.
MadeAccounted == \A r \in made : Accounted(r)

CollectorInv ==
    /\ BulkTypeOK /\ QueueTypeOK
    /\ OneInFlight /\ InFlightIsBatch /\ Progress
    /\ MadeAccounted

\* The controller leaves the standing subscriptions on, and what the agent
\* sends on goroutines of their own is no report.
AgentInv ==
    /\ Standing \subseteq enabled
    /\ \A m \in spawned : m.t # "push"

LEMMA AppendParts ==
    ASSUME NEW S, NEW q \in Seq(S), NEW e \in S
    PROVE  /\ Append(q, e) \in Seq(S)
           /\ Len(q) \in Nat /\ DOMAIN q = 1 .. Len(q)
           /\ DOMAIN Append(q, e) = 1 .. Len(q) + 1
           /\ \A i \in 1 .. Len(q) : Append(q, e)[i] = q[i]
           /\ Append(q, e)[Len(q) + 1] = e
  OBVIOUS

LEMMA AppendSet ==
    ASSUME NEW S, NEW q \in Seq(S), NEW e \in S
    PROVE  ToSet(Append(q, e)) = ToSet(q) \cup {e}
  <1>1. \A x : x \in ToSet(Append(q, e)) => x \in ToSet(q) \cup {e}
    BY AppendParts DEF ToSet
  <1>2. ToSet(q) \subseteq ToSet(Append(q, e))
    BY AppendParts DEF ToSet
  <1>3. e \in ToSet(Append(q, e))
    <2>1. Len(q) + 1 \in DOMAIN Append(q, e)
      BY AppendParts
    <2> QED BY <2>1, AppendParts DEF ToSet
  <1> QED BY <1>1, <1>2, <1>3

LEMMA TailParts ==
    ASSUME NEW S, NEW q \in Seq(S), q # <<>>
    PROVE  /\ Tail(q) \in Seq(S)
           /\ Len(q) \in Nat \ {0} /\ DOMAIN q = 1 .. Len(q)
           /\ DOMAIN Tail(q) = 1 .. Len(q) - 1
           /\ \A i \in 1 .. Len(q) - 1 : Tail(q)[i] = q[i + 1]
           /\ Head(q) = q[1]
  OBVIOUS

LEMMA SeqSubset ==
    ASSUME NEW S, NEW T, S \subseteq T, NEW q \in Seq(S)
    PROVE  q \in Seq(T)
  BY SeqMonotonic

\* No message moves and the collector's push stays where it is.
LEMMA CollectorSame ==
    ASSUME CollectorInv, UNCHANGED <<queue, got, st, push, made, lost>>,
           BulkTypeOK', wait'["bulk"] = wait["bulk"]
    PROVE  CollectorInv'
  <1>1. QueueTypeOK'
    BY DEF CollectorInv, QueueTypeOK
  <1>2. OneInFlight' /\ InFlightIsBatch'
    BY DEF CollectorInv, OneInFlight, InFlightIsBatch, Sent, Bulk, Batch
  <1>3. \A s, r : Reached(s, r)' <=> Reached(s, r)
    BY DEF Reached
  <1>4. \A r : Accounted(r)' <=> Accounted(r)
    BY <1>3 DEF Accounted, Owed
  <1>5. Progress'
    BY <1>3 DEF CollectorInv, Progress, Sent, Bulk, Batch, Owed
  <1>6. MadeAccounted'
    BY <1>4 DEF CollectorInv, MadeAccounted
  <1> QED BY <1>1, <1>2, <1>5, <1>6 DEF CollectorInv

\* A step of somebody else's.
LEMMA CollectorIdle ==
    ASSUME CollectorInv, UNCHANGED <<queue, got, bulkVars>>,
           wait' \in [Senders -> Answer], wait'["bulk"] = wait["bulk"]
    PROVE  CollectorInv'
  <1>1. UNCHANGED <<queue, got, now, tick, row, st, push, made, lost>>
    BY DEF bulkVars
  <1>2. BulkTypeOK'
    BY <1>1 DEF CollectorInv, BulkTypeOK
  <1> QED BY <1>1, <1>2, CollectorSame

\* What an Enqueue leaves in the queues.
LEMMA Enqueues ==
    ASSUME QueueTypeOK, cur \in Clients, NEW by \in Senders \cup {Nobody}, NEW m,
           Enqueue(by, m)
    PROVE  /\ QueueTypeOK'
           /\ \A k \in Clients : \A i \in Sent(k)' :
                 \/ i \in Sent(k) /\ queue'[k][i] = queue[k][i]
                 \/ /\ k = cur /\ i = Len(queue[cur]) + 1
                    /\ queue'[k][i] = [by |-> by, msg |-> m]
  <1>1. PICK M : queue \in [Clients -> Seq([by : Senders \cup {Nobody}, msg : M])]
    BY DEF QueueTypeOK
  <1> DEFINE E == [by : Senders \cup {Nobody}, msg : M]
             F == [by : Senders \cup {Nobody}, msg : M \cup {m}]
             e == [by |-> by, msg |-> m]
  <1>2. E \subseteq F /\ e \in F
    OBVIOUS
  <1>3. queue' = [queue EXCEPT ![cur] = Append(queue[cur], e)]
    BY DEF Enqueue
  <1> HIDE DEF E, F, e
  <1>4. queue \in [Clients -> Seq(F)]
    <2>1. queue \in [Clients -> Seq(E)]
      BY <1>1 DEF E
    <2>2. ASSUME NEW k \in Clients
          PROVE  queue[k] \in Seq(F)
      BY <1>2, <2>1, SeqSubset
    <2> QED BY <2>1, <2>2
  <1>5. /\ Append(queue[cur], e) \in Seq(F)
        /\ Len(queue[cur]) \in Nat /\ DOMAIN queue[cur] = 1 .. Len(queue[cur])
        /\ DOMAIN Append(queue[cur], e) = 1 .. Len(queue[cur]) + 1
        /\ \A i \in 1 .. Len(queue[cur]) : Append(queue[cur], e)[i] = queue[cur][i]
        /\ Append(queue[cur], e)[Len(queue[cur]) + 1] = e
    BY <1>2, <1>4, AppendParts
  <1>6. queue' \in [Clients -> Seq(F)]
    BY <1>3, <1>4, <1>5
  <1>7. QueueTypeOK'
    BY <1>6 DEF QueueTypeOK, F
  <1>8. ASSUME NEW k \in Clients, NEW i \in Sent(k)'
        PROVE  \/ i \in Sent(k) /\ queue'[k][i] = queue[k][i]
               \/ k = cur /\ i = Len(queue[cur]) + 1 /\ queue'[k][i] = e
    BY <1>3, <1>4, <1>5 DEF Sent
  <1> QED BY <1>7, <1>8 DEF e

\* Another sender's message joins a queue.
LEMMA OtherEnqueued ==
    ASSUME CollectorInv, cur \in Clients, NEW by \in Senders \cup {Nobody}, NEW m,
           Enqueue(by, m), by # "bulk", m.t # "push", UNCHANGED <<got, bulkVars>>,
           wait' \in [Senders -> Answer], wait'["bulk"] = wait["bulk"]
    PROVE  CollectorInv'
  <1>1. UNCHANGED <<got, now, tick, row, st, push, made, lost>>
    BY DEF bulkVars
  <1>2. BulkTypeOK'
    BY <1>1 DEF CollectorInv, BulkTypeOK
  <1>3. /\ QueueTypeOK'
        /\ \A k \in Clients : \A i \in Sent(k)' :
              \/ i \in Sent(k) /\ queue'[k][i] = queue[k][i]
              \/ queue'[k][i].by # "bulk" /\ queue'[k][i].msg.t # "push"
    <2>1. /\ QueueTypeOK'
          /\ \A k \in Clients : \A i \in Sent(k)' :
                \/ i \in Sent(k) /\ queue'[k][i] = queue[k][i]
                \/ queue'[k][i] = [by |-> by, msg |-> m]
      BY Enqueues DEF CollectorInv
    <2> QED BY <2>1
  <1>4. OneInFlight' /\ InFlightIsBatch'
    BY <1>1, <1>3 DEF CollectorInv, OneInFlight, InFlightIsBatch, Sent, Bulk, Batch
  <1>5. \A s, r : Reached(s, r)' <=> Reached(s, r)
    BY <1>1 DEF Reached
  <1>6. \A r : Accounted(r)' <=> Accounted(r)
    BY <1>1, <1>5 DEF Accounted, Owed
  <1>7. Progress'
    BY <1>1, <1>3, <1>5 DEF CollectorInv, Progress, Sent, Bulk, Batch, Owed
  <1>8. MadeAccounted'
    BY <1>1, <1>6 DEF CollectorInv, MadeAccounted
  <1> QED BY <1>2, <1>3, <1>4, <1>7, <1>8 DEF CollectorInv

\* A message of the queues is received: what was accounted for still is, and a
\* report of that message has reached its subscription.
LEMMA ReceivedStays ==
    ASSUME CollectorInv, NEW k \in Clients, Reaches(k), UNCHANGED bulkVars
    PROVE  /\ \A s, r : Reached(s, r) => Reached(s, r)'
           /\ MadeAccounted'
           /\ queue[k][1] = Head(queue[k]) /\ 1 \in Sent(k)
           /\ \A s : Bulk(k, 1) /\ s = queue[k][1].msg.sub
                    => \A r \in ToSet(Batch) : Reached(s, r)'
  <1> DEFINE m == Head(queue[k]).msg
  <1>1. UNCHANGED <<now, tick, row, st, push, made, lost>>
    BY DEF bulkVars
  <1>2. got' = got \cup {m} /\ queue[k] # <<>>
    BY DEF Reaches, Receive
  <1>3. PICK M : queue \in [Clients -> Seq([by : Senders \cup {Nobody}, msg : M])]
    BY DEF CollectorInv, QueueTypeOK
  <1>4. queue[k][1] = Head(queue[k]) /\ 1 \in Sent(k)
    <2>1. queue[k] \in Seq([by : Senders \cup {Nobody}, msg : M])
      BY <1>3
    <2> QED BY <1>2, <2>1, TailParts DEF Sent
  <1>5. ASSUME NEW s, NEW r, Reached(s, r)
        PROVE  Reached(s, r)'
    BY <1>2, <1>5 DEF Reached
  <1>6. ASSUME NEW r, Accounted(r)
        PROVE  Accounted(r)'
    BY <1>1, <1>5, <1>6 DEF Accounted, Owed
  <1>7. MadeAccounted'
    BY <1>1, <1>6 DEF CollectorInv, MadeAccounted
  <1>8. ASSUME NEW s, Bulk(k, 1), s = queue[k][1].msg.sub, NEW r \in ToSet(Batch)
        PROVE  Reached(s, r)'
    <2>1. m \in got' /\ m.t = "push" /\ m.reports = Batch /\ m = queue[k][1].msg
      BY <1>2, <1>4, <1>8 DEF CollectorInv, InFlightIsBatch
    <2> QED BY <1>8, <2>1 DEF Reached
  <1> QED BY <1>4, <1>5, <1>7, <1>8

\* The acknowledgement is lost: the message stays, to be sent again.
LEMMA CollectorAckLost ==
    ASSUME CollectorInv, NEW k \in Clients, AckLost(k), UNCHANGED bulkVars
    PROVE  CollectorInv'
  <1>1. UNCHANGED <<queue, wait, now, tick, row, st, push, made, lost>>
    BY DEF bulkVars, AckLost
  <1>2. /\ \A s, r : Reached(s, r) => Reached(s, r)'
        /\ MadeAccounted'
    BY ReceivedStays DEF AckLost
  <1>3. BulkTypeOK' /\ QueueTypeOK'
    BY <1>1 DEF CollectorInv, BulkTypeOK, QueueTypeOK
  <1>4. OneInFlight' /\ InFlightIsBatch'
    BY <1>1 DEF CollectorInv, OneInFlight, InFlightIsBatch, Sent, Bulk, Batch
  <1>5. Progress'
    BY <1>1, <1>2 DEF CollectorInv, Progress, Sent, Bulk, Batch, Owed
  <1> QED BY <1>2, <1>3, <1>4, <1>5 DEF CollectorInv

\* The acknowledgement answers its sender and takes the message off the queue.
LEMMA CollectorAcknowledged ==
    ASSUME CollectorInv, NEW k \in Clients, Acknowledged(k), UNCHANGED bulkVars,
           "bulk" \in Senders
    PROVE  CollectorInv'
  <1>1. UNCHANGED <<now, tick, row, st, push, made, lost>>
    BY DEF bulkVars
  <1>2. /\ \A s, r : Reached(s, r) => Reached(s, r)'
        /\ MadeAccounted'
        /\ queue[k][1] = Head(queue[k]) /\ 1 \in Sent(k)
        /\ \A s : Bulk(k, 1) /\ s = queue[k][1].msg.sub
                 => \A r \in ToSet(Batch) : Reached(s, r)'
    BY ReceivedStays DEF Acknowledged
  <1>3. /\ wait' \in [Senders -> Answer]
        /\ wait'["bulk"] = IF Bulk(k, 1) THEN "sent" ELSE wait["bulk"]
    BY <1>2 DEF Acknowledged, CollectorInv, BulkTypeOK, Answer, Bulk
  <1>4. BulkTypeOK'
    BY <1>1, <1>3 DEF CollectorInv, BulkTypeOK
  <1>5. /\ QueueTypeOK'
        /\ \A l \in Clients : \A i \in Sent(l)' :
              \/ l # k /\ i \in Sent(l) /\ queue'[l][i] = queue[l][i]
              \/ l = k /\ i \in Nat /\ i > 0 /\ i + 1 \in Sent(l)
                 /\ queue'[l][i] = queue[l][i + 1]
    <2>1. PICK M : queue \in [Clients -> Seq([by : Senders \cup {Nobody}, msg : M])]
      BY DEF CollectorInv, QueueTypeOK
    <2> DEFINE E == [by : Senders \cup {Nobody}, msg : M]
    <2>2. queue \in [Clients -> Seq(E)]
      BY <2>1
    <2>3. queue' = [queue EXCEPT ![k] = Tail(queue[k])] /\ queue[k] # <<>>
      BY DEF Acknowledged, Reaches
    <2> HIDE DEF E
    <2>4. /\ Tail(queue[k]) \in Seq(E)
          /\ Len(queue[k]) \in Nat \ {0} /\ DOMAIN queue[k] = 1 .. Len(queue[k])
          /\ DOMAIN Tail(queue[k]) = 1 .. Len(queue[k]) - 1
          /\ \A i \in 1 .. Len(queue[k]) - 1 : Tail(queue[k])[i] = queue[k][i + 1]
      BY <2>2, <2>3, TailParts
    <2>5. queue' \in [Clients -> Seq(E)]
      BY <2>2, <2>3, <2>4
    <2>6. QueueTypeOK'
      BY <2>5 DEF QueueTypeOK, E
    <2>7. ASSUME NEW l \in Clients, NEW i \in Sent(l)'
          PROVE  \/ l # k /\ i \in Sent(l) /\ queue'[l][i] = queue[l][i]
                 \/ l = k /\ i \in Nat /\ i > 0 /\ i + 1 \in Sent(l)
                    /\ queue'[l][i] = queue[l][i + 1]
      BY <2>2, <2>3, <2>4 DEF Sent
    <2> QED BY <2>6, <2>7
  <1>6. \A l \in Clients : \A i \in Sent(l)' :
           \E j \in Sent(l) : queue'[l][i] = queue[l][j] /\ (l = k => j # 1)
    BY <1>5
  <1>7. OneInFlight'
    BY <1>5 DEF CollectorInv, OneInFlight, Sent, Bulk
  <1>8. Bulk(k, 1) => \A l \in Clients : \A i \in Sent(l)' : ~Bulk(l, i)'
    BY <1>2, <1>6 DEF CollectorInv, OneInFlight, Bulk
  <1>9. InFlightIsBatch'
    <2> SUFFICES ASSUME NEW l \in Clients, NEW i \in Sent(l)', Bulk(l, i)'
                 PROVE  /\ wait'["bulk"] = "waiting" /\ push # NoPush
                        /\ queue'[l][i].msg.t = "push"
                        /\ queue'[l][i].msg.reports = Batch
      BY <1>1 DEF InFlightIsBatch, Batch
    <2>1. PICK j \in Sent(l) : queue'[l][i] = queue[l][j]
      BY <1>6
    <2>2. Bulk(l, j) /\ ~Bulk(k, 1)
      BY <1>8, <2>1 DEF Bulk
    <2> QED BY <1>3, <2>1, <2>2 DEF CollectorInv, InFlightIsBatch
  <1>10. Progress'
    <2> SUFFICES ASSUME push # NoPush, NEW s \in Owed
                 PROVE  \/ s \in push.subs
                        \/ push.failed \/ wait'["bulk"] = "failed"
                        \/ \A r \in ToSet(Batch) : Reached(s, r)'
                        \/ /\ wait'["bulk"] = "waiting"
                           /\ \A l \in Clients : \A i \in Sent(l)' :
                                 Bulk(l, i)' => queue'[l][i].msg.sub = s
      BY <1>1 DEF Progress, Owed, Batch
    <2>1. \/ s \in push.subs
          \/ push.failed \/ wait["bulk"] = "failed"
          \/ \A r \in ToSet(Batch) : Reached(s, r)
          \/ /\ wait["bulk"] = "waiting"
             /\ \A l \in Clients : \A i \in Sent(l) : Bulk(l, i) => queue[l][i].msg.sub = s
      BY DEF CollectorInv, Progress
    <2>2. CASE wait["bulk"] = "failed"
      BY <1>2, <1>3, <2>2 DEF CollectorInv, InFlightIsBatch
    <2>3. CASE /\ wait["bulk"] = "waiting"
               /\ \A l \in Clients : \A i \in Sent(l) : Bulk(l, i) => queue[l][i].msg.sub = s
      BY <1>2, <1>3, <1>6, <2>3 DEF Bulk
    <2> QED BY <1>2, <2>1, <2>2, <2>3
  <1> QED BY <1>2, <1>4, <1>5, <1>7, <1>9, <1>10 DEF CollectorInv

LEMMA FunctionIsSeq ==
    ASSUME NEW S, NEW n \in Nat, NEW f \in [1 .. n -> S]
    PROVE  f \in Seq(S)
  BY SeqDef

\* The messages stay where they are; some no longer have a sender who waits.
LEMMA CollectorTimesOut ==
    ASSUME CollectorInv, NEW p \in Senders, PublishTimesOut(p), UNCHANGED bulkVars,
           "bulk" \in Senders
    PROVE  CollectorInv'
  <1>1. UNCHANGED <<got, now, tick, row, st, push, made, lost>>
    BY DEF bulkVars, PublishTimesOut
  <1>2. /\ wait' \in [Senders -> Answer]
        /\ wait'["bulk"] = IF p = "bulk" THEN "failed" ELSE wait["bulk"]
    BY DEF PublishTimesOut, CollectorInv, BulkTypeOK, Answer
  <1>3. BulkTypeOK'
    BY <1>1, <1>2 DEF CollectorInv, BulkTypeOK
  <1>4. /\ QueueTypeOK'
        /\ \A k \in Clients : \A i \in Sent(k)' :
              /\ i \in Sent(k)
              /\ queue'[k][i].msg = queue[k][i].msg
              /\ queue'[k][i].by = IF queue[k][i].by = p THEN Nobody ELSE queue[k][i].by
    <2>1. PICK M : queue \in [Clients -> Seq([by : Senders \cup {Nobody}, msg : M])]
      BY DEF CollectorInv, QueueTypeOK
    <2> DEFINE E == [by : Senders \cup {Nobody}, msg : M]
               Loses(e) == IF e.by = p THEN [e EXCEPT !.by = Nobody] ELSE e
    <2>2. queue' = [k \in Clients |-> [i \in DOMAIN queue[k] |-> Loses(queue[k][i])]]
      BY DEF PublishTimesOut
    <2>3. ASSUME NEW e \in E
          PROVE  /\ Loses(e) \in E
                 /\ Loses(e).msg = e.msg
                 /\ Loses(e).by = IF e.by = p THEN Nobody ELSE e.by
      OBVIOUS
    <2> HIDE DEF Loses
    <2>4. ASSUME NEW k \in Clients
          PROVE  /\ queue'[k] \in Seq(E)
                 /\ DOMAIN queue'[k] = DOMAIN queue[k]
                 /\ \A i \in DOMAIN queue[k] :
                       queue[k][i] \in E /\ queue'[k][i] = Loses(queue[k][i])
      <3>1. queue[k] \in Seq(E)
        BY <2>1
      <3> HIDE DEF E
      <3>2. Len(queue[k]) \in Nat /\ DOMAIN queue[k] = 1 .. Len(queue[k])
            /\ \A i \in DOMAIN queue[k] : queue[k][i] \in E
        BY <3>1
      <3>3. queue'[k] = [i \in 1 .. Len(queue[k]) |-> Loses(queue[k][i])]
        BY <2>2, <3>2
      <3>4. queue'[k] \in [1 .. Len(queue[k]) -> E]
        BY <2>3, <3>2, <3>3
      <3> QED BY <3>2, <3>3, <3>4, FunctionIsSeq
    <2>5. queue' \in [Clients -> Seq(E)]
      BY <2>2, <2>4
    <2>6. QueueTypeOK'
      BY <2>5 DEF QueueTypeOK
    <2> HIDE DEF E
    <2> QED BY <2>3, <2>4, <2>6 DEF Sent
  <1>5. \A k \in Clients : \A i \in Sent(k)' :
           Bulk(k, i)' => Bulk(k, i) /\ p # "bulk"
    BY <1>4 DEF Bulk, Nobody
  <1>6. OneInFlight' /\ InFlightIsBatch'
    <2>1. OneInFlight'
      BY <1>4, <1>5 DEF CollectorInv, OneInFlight
    <2>2. ASSUME NEW k \in Clients, NEW i \in Sent(k)', Bulk(k, i)'
          PROVE  /\ wait'["bulk"] = "waiting" /\ push # NoPush
                 /\ queue'[k][i].msg.t = "push"
                 /\ queue'[k][i].msg.reports = Batch
      BY <1>2, <1>4, <1>5, <2>2 DEF CollectorInv, InFlightIsBatch
    <2> QED BY <1>1, <2>1, <2>2 DEF InFlightIsBatch, Batch
  <1>7. \A s, r : Reached(s, r)' <=> Reached(s, r)
    BY <1>1 DEF Reached
  <1>8. \A r : Accounted(r)' <=> Accounted(r)
    BY <1>1, <1>7 DEF Accounted, Owed
  <1>9. Progress'
    BY <1>1, <1>2, <1>4, <1>5, <1>7 DEF CollectorInv, Progress, Batch, Owed
  <1>10. MadeAccounted'
    BY <1>1, <1>8 DEF CollectorInv, MadeAccounted
  <1> QED BY <1>3, <1>4, <1>6, <1>9, <1>10 DEF CollectorInv

\* A client is closed: its messages go, and their senders are told.
LEMMA CollectorDisconnects ==
    ASSUME CollectorInv, cur \in Clients, Disconnect, UNCHANGED bulkVars,
           "bulk" \in Senders
    PROVE  CollectorInv'
  <1>1. CASE ~IsConnected(cur)
    BY <1>1, CollectorIdle DEF Disconnect, linkVars, CollectorInv, BulkTypeOK
  <1>2. CASE IsConnected(cur)
    <2> DEFINE hit == \E i \in Sent(cur) : Bulk(cur, i)
    <2>1. UNCHANGED <<got, now, tick, row, st, push, made, lost>>
      BY <1>2 DEF bulkVars, Disconnect
    <2>2. /\ wait' \in [Senders -> Answer]
          /\ wait'["bulk"] = IF hit THEN "failed" ELSE wait["bulk"]
      BY <1>2 DEF Disconnect, CollectorInv, BulkTypeOK, Answer, Sent, Bulk
    <2>3. BulkTypeOK'
      BY <2>1, <2>2 DEF CollectorInv, BulkTypeOK
    <2>4. QueueTypeOK'
      <3>1. PICK M : queue \in [Clients -> Seq([by : Senders \cup {Nobody}, msg : M])]
        BY DEF CollectorInv, QueueTypeOK
      <3>2. queue' \in [Clients -> Seq([by : Senders \cup {Nobody}, msg : M])]
        BY <1>2, <3>1, EmptySeq DEF Disconnect
      <3> QED BY <3>2 DEF QueueTypeOK
    <2>5. \A k \in Clients : \A i \in Sent(k)' :
             k # cur /\ i \in Sent(k) /\ queue'[k][i] = queue[k][i]
      <3>1. queue' = [queue EXCEPT ![cur] = <<>>] /\ DOMAIN queue = Clients
        BY <1>2 DEF Disconnect, CollectorInv, QueueTypeOK
      <3> QED BY <3>1 DEF Sent
    <2>6. hit => \A k \in Clients : \A i \in Sent(k)' : ~Bulk(k, i)'
      BY <2>5 DEF CollectorInv, OneInFlight, Bulk
    <2>7. OneInFlight'
      BY <2>5 DEF CollectorInv, OneInFlight, Bulk
    <2>8. InFlightIsBatch'
      BY <2>1, <2>2, <2>5, <2>6 DEF CollectorInv, InFlightIsBatch, Bulk, Batch
    <2>9. \A s, r : Reached(s, r)' <=> Reached(s, r)
      BY <2>1 DEF Reached
    <2>10. \A r : Accounted(r)' <=> Accounted(r)
      BY <2>1, <2>9 DEF Accounted, Owed
    <2>11. Progress'
      BY <2>1, <2>2, <2>5, <2>9 DEF CollectorInv, Progress, Bulk, Batch, Owed
    <2>12. MadeAccounted'
      BY <2>1, <2>10 DEF CollectorInv, MadeAccounted
    <2> QED BY <2>3, <2>4, <2>7, <2>8, <2>11, <2>12 DEF CollectorInv
  <1> QED BY <1>1, <1>2

LEMMA CollectorPublish ==
    ASSUME CollectorInv, cur \in Clients, UNCHANGED bulkVars,
           NEW p \in Senders \ {"bulk"}, NEW m, m.t # "push"
    PROVE  /\ Publish(p, m) => CollectorInv'
           /\ PublishAsync(m) => CollectorInv'
           /\ \A sub : SendTo(p, sub, m) => CollectorInv'
  <1>1. /\ wait \in [Senders -> Answer]
        /\ \A v \in Answer : /\ [wait EXCEPT ![p] = v] \in [Senders -> Answer]
                             /\ [wait EXCEPT ![p] = v]["bulk"] = wait["bulk"]
    BY DEF CollectorInv, BulkTypeOK
  <1>2. ASSUME Publish(p, m)
        PROVE  CollectorInv'
    <2>1. CASE Publishable
      BY <1>1, <1>2, <2>1, OtherEnqueued DEF Publish, Answer
    <2>2. CASE ~Publishable
      BY <1>1, <1>2, <2>2, CollectorIdle DEF Publish, Answer
    <2> QED BY <2>1, <2>2
  <1>3. ASSUME PublishAsync(m)
        PROVE  CollectorInv'
    <2>1. CASE Publishable
      BY <1>1, <1>3, <2>1, OtherEnqueued DEF PublishAsync, Nobody
    <2>2. CASE ~Publishable
      BY <1>1, <1>3, <2>2, CollectorIdle DEF PublishAsync
    <2> QED BY <2>1, <2>2
  <1>4. ASSUME NEW sub, SendTo(p, sub, m)
        PROVE  CollectorInv'
    <2>1. CASE sub \in enabled
      BY <1>2, <1>4, <2>1 DEF SendTo
    <2>2. CASE sub \notin enabled
      BY <1>1, <1>4, <2>2, CollectorIdle DEF SendTo, Answer
    <2> QED BY <2>1, <2>2
  <1> QED BY <1>2, <1>3, <1>4

LEMMA CollectorAgent ==
    ASSUME CollectorInv, AgentInv, cur \in Clients, AgentStep, UNCHANGED bulkVars
    PROVE  CollectorInv'
  <1>1. /\ "run" \in Senders \ {"bulk"} /\ "handler" \in Senders \ {"bulk"}
        /\ "op" \in Senders \ {"bulk"} /\ "fault" \in Senders \ {"bulk"}
        /\ Restarts \subseteq Senders \ {"bulk"} /\ "bulk" \in Senders
    BY SendersAssumption
  <1>2. \A key : /\ Message("onboard", key).t # "push"
                 /\ Message("boot", key).t # "push"
                 /\ Message("answer", key).t # "push"
                 /\ Message("complete", key).t # "push"
                 /\ Message("transfer", key).t # "push"
    BY DEF Message
  <1>3. \A path, at : Value(path, at).t # "push"
    BY DEF Value
  <1>4. UNCHANGED <<queue, wait, got>> => CollectorInv'
    BY CollectorIdle DEF CollectorInv, BulkTypeOK
  <1>5. ASSUME NEW p \in Announcers, AnnounceStep(p)
        PROVE  CollectorInv'
    BY <1>1, <1>2, <1>4, <1>5, CollectorPublish
       DEF Announcers, AnnounceStep, Onboard, Onboarded, Boot, linkVars
  <1>6. ASSUME NEW p \in {"run"} \cup Restarts, Rejoined(p)
        PROVE  CollectorInv'
    BY <1>4, <1>6 DEF Rejoined, linkVars
  <1>7. ASSUME NEW r \in Restarts, RestartStep(r)
        PROVE  CollectorInv'
    BY <1>1, <1>4, <1>7, CollectorDisconnects
       DEF RestartStep, RestartDisconnects, RestartConnects, Connect
  <1>8. CASE Operate
    BY <1>4, <1>8 DEF Operate, OperateRestart, OperateFirmware, Operated
  <1>9. CASE Reply
    BY <1>1, <1>2, <1>9, CollectorPublish DEF Reply
  <1>10. CASE OperationStep
    <2>1. CASE DownloadStarts
      BY <1>4, <2>1 DEF DownloadStarts, linkVars
    <2>2. CASE DownloadFails
      BY <1>1, <1>2, <2>2, CollectorPublish DEF DownloadFails, Complete
    <2>3. CASE DownloadEnds
      BY <1>1, <1>2, <2>3, CollectorPublish DEF DownloadEnds, Complete
    <2>4. CASE TransferComplete
      BY <1>1, <1>2, <2>4, CollectorPublish DEF TransferComplete
    <2>5. CASE ActivateStarts
      BY <1>1, <1>2, <2>5, CollectorPublish DEF ActivateStarts, Complete
    <2>6. CASE GoesDark
      BY <1>1, <2>6, CollectorDisconnects DEF GoesDark
    <2>7. CASE Applied
      BY <1>4, <2>7 DEF Applied, Connect
    <2>8. CASE FirmwareBoot
      BY <1>1, <1>2, <1>4, <2>8, CollectorPublish DEF FirmwareBoot, linkVars
    <2>9. CASE Release
      BY <1>4, <2>9 DEF Release, linkVars
    <2> QED BY <1>10, <2>1, <2>2, <2>3, <2>4, <2>5, <2>6, <2>7, <2>8, <2>9
            DEF OperationStep
  <1>11. CASE TriggerFault
    BY <1>4, <1>11 DEF TriggerFault, LinkDown
  <1>12. CASE FaultStep
    <2>1. CASE AccountDown \/ AccountDuration \/ AccountSince
      BY <1>1, <1>3, <2>1, CollectorPublish
         DEF AccountDown, AccountDuration, AccountSince, ReportValueChange
    <2>2. CASE InterfaceDown \/ WindowEnds \/ RejoinWaited \/ InterfaceUp \/ AccountRestart
      BY <1>4, <2>2 DEF InterfaceDown, WindowEnds, LinkUp, RejoinWaited, InterfaceUp,
                        AccountRestart, linkVars
    <2> QED BY <1>12, <2>1, <2>2 DEF FaultStep
  <1>13. ASSUME NEW m \in spawned, SendSpawned(m)
         PROVE  CollectorInv'
    BY <1>1, <1>13, CollectorPublish DEF SendSpawned, AgentInv
  <1>14. ASSUME NEW s \in Subs \ Standing, Subscribes(s)
         PROVE  CollectorInv'
    BY <1>4, <1>14 DEF Subscribes
  <1> QED BY <1>5, <1>6, <1>7, <1>8, <1>9, <1>10, <1>11, <1>12, <1>13, <1>14
          DEF AgentStep

LEMMA CollectorLink ==
    ASSUME CollectorInv, LinkStep, UNCHANGED bulkVars
    PROVE  CollectorInv'
  <1>1. "bulk" \in Senders
    BY SendersAssumption
  <1>2. UNCHANGED <<queue, wait, got>> => CollectorInv'
    BY CollectorIdle DEF CollectorInv, BulkTypeOK
  <1>3. ASSUME NEW k \in Clients, LibraryStep(k)
        PROVE  CollectorInv'
    BY <1>1, <1>2, <1>3, CollectorAcknowledged, CollectorAckLost
       DEF LibraryStep, OpenConnection, Dialled, ReadFails, BrokerDrops
  <1> QED BY <1>1, <1>3, CollectorTimesOut DEF LinkStep

LEMMA AgentStays ==
    /\ AgentInv /\ AgentStep => AgentInv'
    /\ AgentInv /\ UNCHANGED agentVars => AgentInv'
  <1>1. ASSUME AgentInv, UNCHANGED <<enabled, spawned>>
        PROVE  AgentInv'
    BY <1>1 DEF AgentInv
  <1>2. ASSUME AgentInv, UNCHANGED enabled,
               \A m \in spawned' : m \in spawned \/ \E path, at : m = Value(path, at)
        PROVE  AgentInv'
    BY <1>2 DEF AgentInv, Value
  <1>3. ASSUME AgentInv, AgentStep
        PROVE  AgentInv'
    <2>1. CASE InterfaceDown
      <3>1. \A m \in spawned' : m \in spawned \/ \E path, at : m = Value(path, at)
        BY <2>1 DEF InterfaceDown, Notify
      <3> QED BY <1>2, <1>3, <2>1, <3>1 DEF InterfaceDown
    <2>2. CASE InterfaceUp
      <3>1. \A m \in spawned' : m \in spawned \/ \E path, at : m = Value(path, at)
        BY <2>2 DEF InterfaceUp, Notify
      <3> QED BY <1>2, <1>3, <2>2, <3>1 DEF InterfaceUp
    <2>3. ASSUME NEW m \in spawned, SendSpawned(m)
          PROVE  AgentInv'
      BY <1>2, <1>3, <2>3 DEF SendSpawned
    <2>4. ASSUME NEW s \in Subs \ Standing, Subscribes(s)
          PROVE  AgentInv'
      BY <1>3, <2>4 DEF Subscribes, AgentInv
    <2>5. CASE \/ \E p \in Announcers : AnnounceStep(p)
               \/ \E p \in {"run"} \cup Restarts : Rejoined(p)
               \/ \E r \in Restarts : RestartStep(r)
               \/ Operate
               \/ Reply
      BY <1>1, <1>3, <2>5
         DEF AnnounceStep, Onboard, Onboarded, Boot, Rejoined, RestartStep,
             RestartDisconnects, RestartConnects, Operate, OperateRestart,
             OperateFirmware, Reply, subVars
    <2>6. CASE OperationStep
      BY <1>1, <1>3, <2>6
         DEF OperationStep, DownloadStarts, DownloadFails, DownloadEnds,
             TransferComplete, ActivateStarts, GoesDark, Applied, FirmwareBoot,
             Release, Complete, subVars
    <2>7. CASE TriggerFault
      BY <1>1, <1>3, <2>7 DEF TriggerFault, subVars
    <2>8. CASE WindowEnds \/ RejoinWaited \/ AccountDown \/ AccountDuration
               \/ AccountSince \/ AccountRestart
      BY <1>1, <1>3, <2>8
         DEF WindowEnds, RejoinWaited, AccountDown, AccountDuration, AccountSince,
             AccountRestart, ReportValueChange, subVars
    <2> QED BY <1>3, <2>1, <2>2, <2>3, <2>4, <2>5, <2>6, <2>7, <2>8
            DEF AgentStep, FaultStep
  <1> QED BY <1>1, <1>3 DEF agentVars, subVars

\* Between pushes nothing of the collector's is in flight.
LEMMA BetweenPushes ==
    ASSUME CollectorInv, push = NoPush, UNCHANGED <<queue, got>>,
           BulkTypeOK', Progress', MadeAccounted'
    PROVE  CollectorInv'
  <1>1. QueueTypeOK'
    BY DEF CollectorInv, QueueTypeOK
  <1>2. \A k \in Clients : \A i \in Sent(k)' : i \in Sent(k) /\ ~Bulk(k, i) /\ ~Bulk(k, i)'
    BY DEF CollectorInv, InFlightIsBatch, Bulk, Sent
  <1>3. OneInFlight' /\ InFlightIsBatch'
    BY <1>2 DEF OneInFlight, InFlightIsBatch
  <1> QED BY <1>1, <1>3 DEF CollectorInv

LEMMA DivisionIsInt ==
    ASSUME NEW a \in Int, NEW b \in Nat, b > 0
    PROVE  (a \div b + 1) * b \in Int
  <1>1. a \div b \in Int
    OBVIOUS
  <1> QED BY <1>1

LEMMA RefreshedType ==
    ASSUME BulkTypeOK, row.fit
    PROVE  /\ Refreshed(tick) \in [known : BOOLEAN, skipped : BOOLEAN, every : Nat,
                                   due : Int, retained : Seq(Nat)]
           /\ Refreshed(tick).retained = st.retained
  <1>1. row.every \in Nat /\ row.every > 0 /\ row.ref \in Nat /\ tick \in Nat
    BY DEF BulkTypeOK, Rows
  <1>2. ((tick - row.ref) \div row.every + 1) * row.every \in Int
    BY <1>1, DivisionIsInt
  <1>3. firstDue(tick, row) \in Int
    BY <1>1, <1>2 DEF firstDue
  <1> HIDE DEF firstDue
  <1> QED BY <1>1, <1>3 DEF Refreshed, BulkTypeOK

LEMMA StepPastType ==
    ASSUME NEW due \in Int, NEW t \in Nat, NEW every \in Nat, every > 0
    PROVE  StepPast(due, t, every) \in Int
  <1>1. ((t - due) \div every + 1) * every \in Int
    BY DivisionIsInt
  <1> QED BY <1>1 DEF StepPast

LEMMA CollectorTickOff ==
    ASSUME CollectorInv, TickOff
    PROVE  CollectorInv'
  <1>1. UNCHANGED <<queue, wait, got, now, row, push, made>> /\ push = NoPush /\ tick' = 0
    BY DEF TickOff, linkVars
  <1>2. /\ st' \in [known : BOOLEAN, skipped : BOOLEAN, every : Nat, due : Int,
                    retained : Seq(Nat)]
        /\ lost' = lost \cup ToSet(st.retained)
    <2>1. NoState \in [known : BOOLEAN, skipped : BOOLEAN, every : Nat, due : Int,
                       retained : Seq(Nat)]
      BY DEF NoState
    <2> QED BY <2>1 DEF TickOff, CollectorInv, BulkTypeOK
  <1>3. BulkTypeOK'
    BY <1>1, <1>2 DEF CollectorInv, BulkTypeOK
  <1>4. Progress'
    BY <1>1 DEF Progress
  <1>5. ASSUME NEW r, Accounted(r)
        PROVE  Accounted(r)'
    BY <1>1, <1>2, <1>5 DEF Accounted, Reached, Owed
  <1>6. MadeAccounted'
    BY <1>1, <1>5 DEF CollectorInv, MadeAccounted
  <1> QED BY <1>1, <1>3, <1>4, <1>6, BetweenPushes

LEMMA CollectorTickEarly ==
    ASSUME CollectorInv, TickEarly
    PROVE  CollectorInv'
  <1>1. /\ UNCHANGED <<queue, wait, got, now, row, push, made, lost>>
        /\ push = NoPush /\ tick' = 0 /\ st' = Refreshed(tick) /\ row.fit
    BY DEF TickEarly, linkVars
  <1>2. /\ st' \in [known : BOOLEAN, skipped : BOOLEAN, every : Nat, due : Int,
                    retained : Seq(Nat)]
        /\ st'.retained = st.retained
    BY <1>1, RefreshedType DEF CollectorInv
  <1>3. BulkTypeOK'
    BY <1>1, <1>2 DEF CollectorInv, BulkTypeOK
  <1>4. Progress'
    BY <1>1 DEF Progress
  <1>5. ASSUME NEW r, Accounted(r)
        PROVE  Accounted(r)'
    BY <1>1, <1>2, <1>5 DEF Accounted, Reached, Owed
  <1>6. MadeAccounted'
    BY <1>1, <1>5 DEF CollectorInv, MadeAccounted
  <1> QED BY <1>1, <1>3, <1>4, <1>6, BetweenPushes

LEMMA CollectorTickDue ==
    ASSUME CollectorInv, AgentInv, TickDue(enabled \cap PushSubs)
    PROVE  CollectorInv'
  <1>1. /\ UNCHANGED <<queue, got, now, row, lost>>
        /\ push = NoPush /\ tick # 0 /\ tick' = 0 /\ st' = Refreshed(tick) /\ row.fit
        /\ made' = made \cup {tick}
        /\ push' = [at |-> tick, spec |-> row, subs |-> enabled \cap PushSubs,
                    failed |-> FALSE, delivered |-> 0]
        /\ wait' = [wait EXCEPT !["bulk"] = "idle"]
    BY DEF TickDue, NoPush
  <1>2. /\ st' \in [known : BOOLEAN, skipped : BOOLEAN, every : Nat, due : Int,
                    retained : Seq(Nat)]
        /\ st'.retained = st.retained
    BY <1>1, RefreshedType DEF CollectorInv
  <1>3. BulkTypeOK'
    <2>1. push' \in [at : Nat, spec : Rows, subs : SUBSET PushSubs, failed : BOOLEAN,
                     delivered : Nat]
      BY <1>1 DEF CollectorInv, BulkTypeOK
    <2>2. push'.at # 0 /\ push'.spec.every > 0
      BY <1>1 DEF CollectorInv, BulkTypeOK
    <2>3. wait' \in [Senders -> Answer]
      BY <1>1 DEF CollectorInv, BulkTypeOK, Answer
    <2> QED BY <1>1, <1>2, <2>1, <2>2, <2>3 DEF CollectorInv, BulkTypeOK
  <1>4. Progress'
    <2>1. Owed \subseteq push'.subs
      BY <1>1 DEF AgentInv, Owed
    <2> QED BY <2>1 DEF Progress, Owed
  <1>5. ASSUME NEW r, Accounted(r)
        PROVE  Accounted(r)'
    BY <1>1, <1>2, <1>5 DEF Accounted, Reached, Owed
  <1>6. push' # NoPush
    BY <1>1 DEF NoPush
  <1>7. MadeAccounted'
    <2>1. \A r : r = tick => Accounted(r)'
      BY <1>1, <1>6 DEF Accounted
    <2> QED BY <1>1, <1>5, <2>1 DEF CollectorInv, MadeAccounted
  <1> QED BY <1>1, <1>3, <1>4, <1>7, BetweenPushes

\* What deliverEvent has counted when it comes to the next subscription.
LEMMA CountedParts ==
    ASSUME BulkTypeOK
    PROVE  /\ Counted \in [at : Nat, spec : Rows, subs : SUBSET PushSubs,
                           failed : BOOLEAN, delivered : Nat]
           /\ Counted.at = push.at /\ Counted.spec = push.spec
           /\ Counted.subs = push.subs
           /\ Counted.failed = (push.failed \/ wait["bulk"] = "failed")
  <1> DEFINE f == push.failed \/ wait["bulk"] = "failed"
             d == push.delivered + IF wait["bulk"] = "sent" THEN 1 ELSE 0
  <1>1. f \in BOOLEAN
    OBVIOUS
  <1>2. d \in Nat
    BY DEF BulkTypeOK
  <1>3. Counted = [push EXCEPT !.failed = f, !.delivered = d]
    BY DEF Counted
  <1> HIDE DEF f, d
  <1>4. /\ Counted \in [at : Nat, spec : Rows, subs : SUBSET PushSubs,
                         failed : BOOLEAN, delivered : Nat]
        /\ Counted.at = push.at /\ Counted.spec = push.spec
        /\ Counted.subs = push.subs /\ Counted.failed = f
    BY <1>1, <1>2, <1>3 DEF BulkTypeOK
  <1> QED BY <1>4 DEF f

\* Once it is answered, nothing of the collector's is in flight, and a
\* subscription the push has come past has the batch unless a send failed.
LEMMA WhenAnswered ==
    ASSUME CollectorInv, Answered("bulk"), push # NoPush
    PROVE  /\ \A k \in Clients : \A i \in Sent(k) : ~Bulk(k, i)
           /\ \A s \in Owed : \/ s \in push.subs
                              \/ push.failed \/ wait["bulk"] = "failed"
                              \/ \A r \in ToSet(Batch) : Reached(s, r)
  BY DEF CollectorInv, InFlightIsBatch, Progress, Answered

LEMMA CollectorPushNext ==
    ASSUME CollectorInv, cur \in Clients, NEW s \in PushSubs, PushNext(s)
    PROVE  CollectorInv'
  <1> DEFINE m == [t |-> "push", sub |-> s, reports |-> Batch]
  <1>1. /\ UNCHANGED <<got, now, tick, row, st, made, lost>> /\ push # NoPush
        /\ Publish("bulk", m) /\ Answered("bulk")
        /\ push' = [Counted EXCEPT !.subs = @ \ {s}]
    BY DEF PushNext, Publish, Batch
  <1>2. "bulk" \in Senders /\ push.at # 0 /\ push.spec.every > 0
    BY <1>1, SendersAssumption DEF CollectorInv, BulkTypeOK
  <1>3. /\ push' \in [at : Nat, spec : Rows, subs : SUBSET PushSubs,
                      failed : BOOLEAN, delivered : Nat]
        /\ push'.at = push.at /\ push'.spec = push.spec /\ push'.subs = push.subs \ {s}
        /\ push'.failed = (push.failed \/ wait["bulk"] = "failed")
    BY <1>1, CountedParts DEF CollectorInv
  <1>4. push' # NoPush /\ Batch' = Batch
    BY <1>1, <1>2, <1>3 DEF NoPush, Batch
  <1>5. wait' \in [Senders -> Answer] /\ wait'["bulk"] \in {"waiting", "failed"}
    BY <1>1, <1>2 DEF CollectorInv, BulkTypeOK, Publish, Answer
  <1>6. BulkTypeOK'
    BY <1>1, <1>2, <1>3, <1>5 DEF CollectorInv, BulkTypeOK
  <1>7. /\ QueueTypeOK'
        /\ \A k \in Clients : \A i \in Sent(k)' :
              \/ i \in Sent(k) /\ queue'[k][i] = queue[k][i]
              \/ /\ k = cur /\ i = Len(queue[cur]) + 1 /\ wait'["bulk"] = "waiting"
                 /\ queue'[k][i] = [by |-> "bulk", msg |-> m]
    <2>1. CASE Publishable
      <3>1. Enqueue("bulk", m) /\ wait'["bulk"] = "waiting"
        BY <1>1, <1>2, <2>1 DEF Publish, CollectorInv, BulkTypeOK
      <3> HIDE DEF m
      <3> QED BY <1>2, <3>1, Enqueues DEF CollectorInv
    <2>2. CASE ~Publishable
      <3>1. queue' = queue
        BY <1>1, <2>2 DEF Publish
      <3> QED BY <3>1 DEF CollectorInv, QueueTypeOK, Sent
    <2> QED BY <2>1, <2>2
  <1>8. \A k \in Clients : \A i \in Sent(k)' :
           Bulk(k, i)' => /\ k = cur /\ i = Len(queue[cur]) + 1
                          /\ wait'["bulk"] = "waiting" /\ queue'[k][i].msg = m
    <2>1. \A k \in Clients : \A i \in Sent(k) : ~Bulk(k, i)
      BY <1>1, WhenAnswered
    <2> HIDE DEF m
    <2> QED BY <1>7, <2>1 DEF Bulk
  <1>9. OneInFlight'
    BY <1>8 DEF OneInFlight
  <1>10. InFlightIsBatch'
    <2>1. ASSUME NEW k \in Clients, NEW i \in Sent(k)', Bulk(k, i)'
          PROVE  /\ wait'["bulk"] = "waiting" /\ push' # NoPush
                 /\ queue'[k][i].msg.t = "push"
                 /\ queue'[k][i].msg.reports = Batch'
      BY <1>4, <1>8, <2>1
    <2> QED BY <2>1 DEF InFlightIsBatch
  <1>11. \A v, r : Reached(v, r)' <=> Reached(v, r)
    BY <1>1 DEF Reached
  <1>12. \A r : Accounted(r)' <=> Accounted(r)
    BY <1>1, <1>3, <1>4, <1>11 DEF Accounted, Owed
  <1>13. Progress'
    <2> SUFFICES ASSUME NEW v \in Owed
                 PROVE  \/ v \in push'.subs
                        \/ push'.failed \/ wait'["bulk"] = "failed"
                        \/ \A r \in ToSet(Batch) : Reached(v, r)'
                        \/ /\ wait'["bulk"] = "waiting"
                           /\ \A k \in Clients : \A i \in Sent(k)' :
                                 Bulk(k, i)' => queue'[k][i].msg.sub = v
      BY <1>4 DEF Progress, Owed
    <2>1. CASE v = s
      BY <1>5, <1>8, <2>1
    <2>2. CASE v # s
      <3>1. \/ v \in push.subs
            \/ push.failed \/ wait["bulk"] = "failed"
            \/ \A r \in ToSet(Batch) : Reached(v, r)
        BY <1>1, WhenAnswered
      <3> QED BY <1>3, <1>11, <2>2, <3>1
    <2> QED BY <2>1, <2>2
  <1>14. MadeAccounted'
    BY <1>1, <1>12 DEF CollectorInv, MadeAccounted
  <1> QED BY <1>6, <1>7, <1>9, <1>10, <1>13, <1>14 DEF CollectorInv

LEMMA CollectorPushEnds ==
    ASSUME CollectorInv, PushEnds
    PROVE  CollectorInv'
  <1> DEFINE over == IF Len(Batch) > Limit(push.spec)
                       THEN Len(Batch) - Limit(push.spec) ELSE 0
             keep == IF Delivered(Counted) THEN <<>>
                     ELSE IF push.spec.keep = 0 THEN st.retained
                     ELSE SubSeq(Batch, over + 1, Len(Batch))
             due  == StepPast(st.due, push.at, push.spec.every)
  <1>1. /\ UNCHANGED <<queue, wait, got, now, tick, row, made>>
        /\ push # NoPush /\ push.subs = {} /\ Answered("bulk") /\ push' = NoPush
        /\ st' = [st EXCEPT !.retained = keep, !.due = due]
        /\ lost' = IF Delivered(Counted) THEN lost
                   ELSE IF push.spec.keep = 0 THEN lost \cup {push.at}
                   ELSE lost \cup {Batch[i] : i \in 1 .. over}
    BY DEF PushEnds, linkVars, Batch
  <1>2. st.retained \in Seq(Nat) /\ push.at \in Nat /\ push.spec \in Rows
    BY DEF CollectorInv, BulkTypeOK
  <1>3. Batch \in Seq(Nat) /\ ToSet(Batch) = ToSet(st.retained) \cup {push.at}
    BY <1>2, AppendParts, AppendSet DEF Batch
  <1>4. /\ keep \in Seq(Nat)
        /\ \A r \in ToSet(Batch) :
              \/ Delivered(Counted)
              \/ r \in ToSet(keep)
              \/ r \in lost'
    <2>1. Limit(push.spec) \in Nat
      BY <1>2, RowsAssumption DEF Limit, Rows
    <2>2. /\ Len(Batch) \in Nat /\ over \in Nat /\ over <= Len(Batch)
          /\ DOMAIN Batch = 1 .. Len(Batch)
          /\ \A i \in (over + 1) .. Len(Batch) : Batch[i] \in Nat
      BY <1>3, <2>1
    <2> HIDE DEF over
    <2> DEFINE rest == SubSeq(Batch, over + 1, Len(Batch))
    <2>3. /\ rest \in Seq(Nat)
          /\ DOMAIN rest = 1 .. Len(Batch) - over
          /\ \A i \in 1 .. Len(Batch) - over : rest[i] = Batch[over + i]
      <3>1. PICK f : f = over + 1
        OBVIOUS
      <3>2. PICK n \in Nat : n = Len(Batch)
        BY <2>2
      <3>3. f \in Int /\ f >= 1 /\ n - f + 1 = n - over
        BY <2>2, <3>1
      <3>4. \A i \in f .. n : Batch[i] \in Nat
        BY <2>2, <3>1, <3>2
      <3>5. SubSeq(Batch, f, n) \in Seq(Nat)
        BY <3>3, <3>4, SubSeqProperties
      <3>6. SubSeq(Batch, f, n) = [i \in 1 .. n - f + 1 |-> Batch[i + f - 1]]
        BY <2>2, <3>1, <3>2
      <3> QED BY <2>2, <3>1, <3>2, <3>3, <3>5, <3>6
    <2>4. ASSUME NEW r \in ToSet(Batch)
          PROVE  r \in ToSet(rest) \/ r \in {Batch[i] : i \in 1 .. over}
      <3>1. PICK i \in 1 .. Len(Batch) : r = Batch[i]
        BY <2>2 DEF ToSet
      <3>2. CASE i > over
        <4>1. i - over \in DOMAIN rest /\ rest[i - over] = Batch[i]
          BY <2>2, <2>3, <3>2
        <4> QED BY <3>1, <4>1 DEF ToSet
      <3>3. CASE ~(i > over)
        BY <2>2, <3>1, <3>3
      <3> QED BY <3>2, <3>3
    <2> HIDE DEF rest
    <2>5. keep = IF Delivered(Counted) THEN <<>>
                 ELSE IF push.spec.keep = 0 THEN st.retained ELSE rest
      BY DEF rest
    <2> HIDE DEF keep
    <2>6. keep \in Seq(Nat)
      BY <1>2, <2>3, <2>5, EmptySeq
    <2> QED BY <1>1, <1>3, <2>4, <2>5, <2>6
  <1>5. due \in Int
    <2>1. /\ st.due \in Int /\ push.spec.every \in Nat /\ push.spec.every > 0
          /\ push.at \in Nat
      BY <1>1, <1>2 DEF CollectorInv, BulkTypeOK, Rows
    <2> QED BY <2>1, StepPastType
  <1> HIDE DEF keep, due
  <1>6. /\ st' \in [known : BOOLEAN, skipped : BOOLEAN, every : Nat, due : Int,
                    retained : Seq(Nat)]
        /\ st'.retained = keep
    BY <1>1, <1>4, <1>5 DEF CollectorInv, BulkTypeOK
  <1>7. BulkTypeOK'
    <2>1. NoPush \in [at : Nat, spec : Rows, subs : SUBSET PushSubs, failed : BOOLEAN,
                      delivered : Nat]
      BY DEF NoPush, NoRow, Rows
    <2> QED BY <1>1, <1>6, <2>1 DEF CollectorInv, BulkTypeOK
  <1>8. /\ QueueTypeOK'
        /\ \A k \in Clients : \A i \in Sent(k)' : i \in Sent(k) /\ ~Bulk(k, i)'
    BY <1>1, WhenAnswered DEF CollectorInv, QueueTypeOK, Sent, Bulk
  <1>9. OneInFlight' /\ InFlightIsBatch'
    BY <1>8 DEF OneInFlight, InFlightIsBatch
  <1>10. Progress'
    BY <1>1 DEF Progress
  <1>11. ASSUME NEW r, Accounted(r)
         PROVE  Accounted(r)'
    <2>1. \A v : Reached(v, r)' <=> Reached(v, r)
      BY <1>1 DEF Reached
    <2>2. CASE r \in lost \/ \A v \in Owed : Reached(v, r)
      BY <1>1, <2>1, <2>2 DEF Accounted, Owed
    <2>3. CASE r \in ToSet(Batch) /\ ~Delivered(Counted)
      <3>1. r \in ToSet(st'.retained) \/ r \in lost'
        BY <1>4, <1>6, <2>3
      <3> QED BY <3>1 DEF Accounted
    <2>4. CASE r \in ToSet(Batch) /\ Delivered(Counted)
      <3>1. ~push.failed /\ wait["bulk"] # "failed"
        BY <2>4, CountedParts DEF Delivered, CollectorInv
      <3>2. \A v \in Owed : Reached(v, r)
        BY <1>1, <2>4, <3>1, WhenAnswered
      <3> QED BY <2>1, <3>2 DEF Accounted, Owed
    <2> QED BY <1>3, <1>11, <2>2, <2>3, <2>4 DEF Accounted
  <1>12. MadeAccounted'
    BY <1>1, <1>11 DEF CollectorInv, MadeAccounted
  <1> QED BY <1>7, <1>8, <1>9, <1>10, <1>12 DEF CollectorInv

LEMMA ConfiguredRows ==
    ASSUME NEW r \in Configs \cup {NoRow}
    PROVE  r \in Rows /\ (r.fit => r.every > 0)
  <1>1. NoRow \in Rows
    BY DEF NoRow, Rows
  <1>2. NoRow.every > 0
    BY DEF NoRow
  <1>3. CASE r \in Configs
    BY <1>3, RowsAssumption
  <1> QED BY <1>1, <1>2, <1>3

LEMMA CollectorBulk ==
    ASSUME CollectorInv, AgentInv, cur \in Clients, BulkStep(enabled \cap PushSubs)
    PROVE  CollectorInv'
  <1>1. CASE Clock
    <2>1. UNCHANGED <<queue, wait, got, row, st, push, made, lost>>
      BY <1>1 DEF Clock
    <2>2. BulkTypeOK'
      BY <1>1, <2>1 DEF Clock, CollectorInv, BulkTypeOK
    <2> QED BY <2>1, <2>2, CollectorSame
  <1>2. ASSUME NEW r \in Configs \cup {NoRow}, WriteProfile(r)
        PROVE  CollectorInv'
    <2>1. UNCHANGED <<queue, wait, got, now, tick, st, push, made, lost>> /\ row' = r
      BY <1>2 DEF WriteProfile
    <2>2. r \in Rows /\ (r.fit => r.every > 0)
      BY ConfiguredRows
    <2>3. BulkTypeOK'
      BY <2>1, <2>2 DEF CollectorInv, BulkTypeOK
    <2> QED BY <2>1, <2>3, CollectorSame
  <1> QED BY <1>1, <1>2, CollectorTickOff, CollectorTickEarly, CollectorTickDue,
             CollectorPushNext, CollectorPushEnds DEF BulkStep

LEMMA CollectorInitially == Init => CollectorInv /\ AgentInv
  <1> SUFFICES ASSUME NEW plan \in Plans, LinkInit(plan.up), AgentInit(plan.up),
                      BulkInit(plan.row)
               PROVE  CollectorInv /\ AgentInv
    BY DEF Init
  <1>1. row \in Rows /\ (row.fit => row.every > 0)
    BY PlansAssumption, ConfiguredRows DEF BulkInit
  <1>2. BulkTypeOK
    <2>1. st \in [known : BOOLEAN, skipped : BOOLEAN, every : Nat, due : Int,
                  retained : Seq(Nat)]
      BY DEF BulkInit, NoState
    <2>2. push \in [at : Nat, spec : Rows, subs : SUBSET PushSubs, failed : BOOLEAN,
                    delivered : Nat]
      BY DEF BulkInit, NoPush, NoRow, Rows
    <2>3. wait \in [Senders -> Answer]
      BY DEF LinkInit, Answer
    <2> QED BY <1>1, <2>1, <2>2, <2>3 DEF BulkInit, BulkTypeOK
  <1>3. QueueTypeOK
    <2>1. queue \in [Clients -> Seq([by : Senders \cup {Nobody}, msg : {}])]
      BY EmptySeq DEF LinkInit
    <2> QED BY <2>1 DEF QueueTypeOK
  <1>4. \A k \in Clients : Sent(k) = {}
    BY DEF LinkInit, Sent
  <1>5. OneInFlight /\ InFlightIsBatch
    BY <1>4 DEF OneInFlight, InFlightIsBatch
  <1>6. Progress /\ MadeAccounted
    BY DEF BulkInit, Progress, MadeAccounted
  <1>7. AgentInv
    BY PlansAssumption DEF AgentInit, AgentInv
  <1> QED BY <1>2, <1>3, <1>5, <1>6, <1>7 DEF CollectorInv

LEMMA CollectorInvariant == Spec => [](CollectorInv /\ AgentInv)
  <1> DEFINE Inv == CollectorInv /\ AgentInv
  <1>1. Inv /\ OutageInv /\ [Next]_vars => Inv'
    <2> SUFFICES ASSUME CollectorInv, AgentInv, cur \in Clients, [Next]_vars
                 PROVE  CollectorInv' /\ AgentInv'
      BY DEF OutageInv, LinkTypeOK
    <2>1. CASE LinkStep /\ UNCHANGED <<agentVars, bulkVars>>
      BY <2>1, CollectorLink, AgentStays
    <2>2. CASE AgentStep /\ UNCHANGED bulkVars
      BY <2>2, CollectorAgent, AgentStays
    <2>3. CASE BulkStep(enabled \cap PushSubs) /\ UNCHANGED agentVars
      BY <2>3, CollectorBulk, AgentStays
    <2>4. CASE UNCHANGED vars
      <3>1. UNCHANGED <<queue, wait, got, bulkVars, agentVars>>
        BY <2>4 DEF vars, linkVars
      <3> QED BY <3>1, CollectorIdle, AgentStays DEF CollectorInv, BulkTypeOK
    <2> QED BY <2>1, <2>2, <2>3, <2>4 DEF Next
  <1> QED BY <1>1, CollectorInitially, OutageInvariant, PTL DEF Spec

\* Every report the collector took is retained, being pushed, given up by the
\* collector's own rules, or has reached every standing subscription (push and
\* deliverEvent), over lost connections, replaced clients, rewritten profiles
\* and changing subscriptions.
THEOREM ReportsArrive == Spec => []ReportsReach
  <1>1. CollectorInv => ReportsReach
    BY DEF CollectorInv, MadeAccounted, Accounted, Reached, Owed, ReportsReach, Kept
  <1> QED BY <1>1, CollectorInvariant, PTL

-----------------------------------------------------------------------------
(* The order in which the controller receives what the agent sends *)

Msg(k, i) == queue[k][i].msg

FaultPlace == {"idle", "interface", "window", "rejoin", "account", "duration", "up",
               "since", "restart", "boot"}

\* Before its OperationComplete is sent, an operation is at one of these.
Pending == pc["op"] \in {"Download()", "fetching", "Activate()"}

\* Where a goroutine other than the operation's is when it may yet send Boot!.
Announcing == {"disconnect", "dark", "connecting", "onboard", "onboarded", "boot"}

AgentPlace ==
    FaultPlace \cup Announcing
      \cup {"reply", "Download()", "fetching", "transferred", "transferFailed",
            "Activate()", "activate", "release"}

JobType == [cmd : Commands \cup {"none"}, key : Nat, auto : BOOLEAN, client : Nat]

OrderTypeOK ==
    /\ left \in [ops : Nat, faults : Nat, losses : Nat, subs : Nat, profiles : Nat,
                 ticks : Nat]
    /\ pc \in [Senders -> AgentPlace]
    /\ job \in [Senders -> JobType]
    /\ seen \in [Paths -> Int]
    /\ outage \in Nat
    /\ pc["fault"] \in FaultPlace
    /\ down <=> pc["fault"] \in {"interface", "window"}

\* The latest report of the interface that may have been sent: the fault
\* goroutine accounts for an outage in order.
Top == IF pc["fault"] \in {"interface", "window"} THEN 2 * outage - 2
       ELSE IF pc["fault"] \in {"rejoin", "account", "duration", "up"} THEN 2 * outage - 1
       ELSE 2 * outage

\* The key of an operation that has begun, other than the one still pending.
Used(key) ==
    /\ key \in Nat
    /\ key = 0 \/ key > left.ops
    /\ Pending => key # job["op"].key

MsgOK(m) ==
    /\ m.t = "value" => m = Value(m.path, m.at) /\ m.at \in Int /\ m.at <= Top
    /\ m.t \in {"transfer", "boot"} => Used(m.key)

\* What the goroutines work on, and what they have left to send.
JobsOK ==
    /\ job["fault"].key = 0
    /\ pc["op"] # "idle" => job["op"].key > left.ops
    /\ \A p \in Senders \ {"op"} : pc[p] \in Announcing => Used(job[p].key)

\* A notification on a goroutine of its own meets the outage, or is late, or is
\* the one that says the last outage is over.
Settled == {"since", "restart", "boot", "idle"}

OwnOK(m) ==
    \E path : \E at \in Int :
       /\ m = Value(path, at)
       /\ \/ at <= 2 * outage - 1 /\ (down \/ m \in late)
          \/ at = 2 * outage /\ pc["fault"] \in Settled

SpawnedOK == \A m \in spawned : OwnOK(m)

Contents ==
    /\ \A m \in got : MsgOK(m)
    /\ \A k \in Clients : \A i \in Sent(k) : MsgOK(Msg(k, i))
    /\ \A path \in Paths : seen[path] <= Top

\* A client that is closed, or not made yet, holds no message.
IdleEmpty ==
    \A k \in Clients : /\ lib[k] \in {"none", "closed"} => queue[k] = <<>>
                       /\ k > cur => lib[k] = "none"

\* Message m, received before n, would make n arrive out of order.
Overtakes(m, n) ==
    \/ /\ m.t = "value" /\ n.t = "value" /\ m.path = n.path /\ m.at > n.at
       /\ n \notin late
    \/ n.t = "complete" /\ m \in {Message("transfer", n.key), Message("boot", n.key)}

TooLate(n) ==
    \/ n.t = "value" /\ n.path \in Paths /\ seen[n.path] > n.at /\ n \notin late
    \/ /\ n.t = "complete" /\ n \notin got
       /\ Message("transfer", n.key) \in got \/ Message("boot", n.key) \in got

InOrder ==
    Replaced \/
       \A j \in Sent(cur) :
          /\ ~TooLate(Msg(cur, j))
          /\ \A i \in Sent(cur) : i < j => ~Overtakes(Msg(cur, i), Msg(cur, j))

MailInv == Contents /\ IdleEmpty /\ InOrder

OrderInv == OrderTypeOK /\ JobsOK /\ SpawnedOK /\ MailInv

\* What a step must not undo: the bounds on what has been sent only grow.
Grows ==
    /\ \A m : MsgOK(m) => MsgOK(m)'
    /\ Top \in Int /\ Top' \in Int /\ Top <= Top'
    /\ late \subseteq late'

\* A message that may be sent now.
Fresh(m) == ~TooLate(m) /\ \A x : MsgOK(x) => ~Overtakes(x, m)

LEMMA SentIsInterval ==
    ASSUME QueueTypeOK, NEW k \in Clients
    PROVE  Len(queue[k]) \in Nat /\ Sent(k) = 1 .. Len(queue[k])
  <1>1. PICK M : queue \in [Clients -> Seq([by : Senders \cup {Nobody}, msg : M])]
    BY DEF QueueTypeOK
  <1> DEFINE E == [by : Senders \cup {Nobody}, msg : M]
  <1>2. queue[k] \in Seq(E)
    BY <1>1
  <1> HIDE DEF E
  <1> QED BY <1>2 DEF Sent

\* No message moves.
LEMMA StillOrdered ==
    ASSUME InOrder, UNCHANGED <<queue, got, seen, cur>>, late \subseteq late',
           Replaced => Replaced'
    PROVE  InOrder'
  <1> SUFFICES ASSUME ~Replaced, NEW j \in Sent(cur), NEW i \in Sent(cur)
               PROVE  /\ ~TooLate(Msg(cur, j))'
                      /\ i < j => ~Overtakes(Msg(cur, i), Msg(cur, j))'
    BY DEF InOrder, Sent
  <1>1. /\ ~TooLate(Msg(cur, j))
        /\ i < j => ~Overtakes(Msg(cur, i), Msg(cur, j))
    BY DEF InOrder
  <1>2. Msg(cur, i)' = Msg(cur, i) /\ Msg(cur, j)' = Msg(cur, j)
    BY DEF Msg
  <1> QED BY <1>1, <1>2 DEF TooLate, Overtakes

LEMMA MailQuiet ==
    ASSUME MailInv, UNCHANGED <<queue, got, seen, lib, cur>>, Grows,
           seen \in [Paths -> Int]
    PROVE  MailInv'
  <1>1. \A k \in Clients : /\ Sent(k)' = Sent(k)
                           /\ \A i \in Sent(k) : Msg(k, i)' = Msg(k, i)
    BY DEF Sent, Msg
  <1>2. Contents'
    <2>1. \A path \in Paths : seen'[path] <= Top'
      BY DEF MailInv, Contents, Grows
    <2> QED BY <1>1, <2>1 DEF MailInv, Contents, Grows
  <1>3. IdleEmpty'
    BY DEF MailInv, IdleEmpty
  <1>4. InOrder'
    BY StillOrdered DEF MailInv, Replaced, Grows
  <1> QED BY <1>2, <1>3, <1>4 DEF MailInv

LEMMA MailEnqueue ==
    ASSUME QueueTypeOK, LinkTypeOK, MailInv, seen \in [Paths -> Int], IsConnected(cur),
           NEW by \in Senders \cup {Nobody}, NEW m, Enqueue(by, m),
           UNCHANGED <<got, seen, lib, cur>>, Grows, Fresh(m), MsgOK(m)'
    PROVE  MailInv'
  <1> DEFINE last == Len(queue[cur]) + 1
  <1>1. cur \in Clients
    BY DEF LinkTypeOK
  <1>2. \A k \in Clients : \A i \in Sent(k)' :
           \/ i \in Sent(k) /\ queue'[k][i] = queue[k][i]
           \/ k = cur /\ i = last /\ queue'[k][i] = [by |-> by, msg |-> m]
    BY <1>1, Enqueues
  <1>3. \A k \in Clients : \A i \in Sent(k)' :
           \/ i \in Sent(k) /\ Msg(k, i)' = Msg(k, i)
           \/ k = cur /\ i = last /\ Msg(k, i)' = m
    BY <1>2 DEF Msg
  <1>4. \A i \in Sent(cur) : i < last
    BY <1>1, SentIsInterval
  <1>5. \A i \in Sent(cur) : i \in Int
    BY <1>1, SentIsInterval
  <1>6. last \in Int
    BY <1>1, SentIsInterval
  <1> HIDE DEF last
  <1>7. Contents'
    <2>1. \A path \in Paths : seen'[path] <= Top'
      BY DEF MailInv, Contents, Grows
    <2>2. \A k \in Clients : \A i \in Sent(k)' : MsgOK(Msg(k, i))'
      <3> SUFFICES ASSUME NEW k \in Clients, NEW i \in Sent(k)'
                   PROVE  MsgOK(Msg(k, i))'
        OBVIOUS
      <3>1. CASE i \in Sent(k) /\ Msg(k, i)' = Msg(k, i)
        BY <3>1 DEF MailInv, Contents, Grows, MsgOK
      <3>2. CASE Msg(k, i)' = m
        BY <3>2 DEF MsgOK
      <3> QED BY <1>3, <3>1, <3>2
    <2> QED BY <2>1, <2>2 DEF MailInv, Contents, Grows
  <1>8. IdleEmpty'
    BY DEF MailInv, IdleEmpty, Enqueue, IsConnected, LinkTypeOK
  <1>9. InOrder'
    <2> SUFFICES ASSUME ~Replaced, NEW j \in Sent(cur)', NEW i \in Sent(cur)'
                 PROVE  ~TooLate(Msg(cur, j))' /\ (i < j => ~Overtakes(Msg(cur, i), Msg(cur, j))')
      BY DEF InOrder, Replaced
    <2>1. late \subseteq late'
      BY DEF Grows
    <2>2. ~TooLate(Msg(cur, j))'
      <3>1. CASE j \in Sent(cur) /\ Msg(cur, j)' = Msg(cur, j)
        BY <2>1, <3>1 DEF MailInv, InOrder, TooLate
      <3>2. CASE Msg(cur, j)' = m
        BY <2>1, <3>2 DEF Fresh, TooLate
      <3> QED BY <1>1, <1>3, <3>1, <3>2
    <2>3. ASSUME i < j
          PROVE  ~Overtakes(Msg(cur, i), Msg(cur, j))'
      <3>1. i \in Sent(cur) /\ Msg(cur, i)' = Msg(cur, i)
        BY <1>1, <1>3, <1>4, <1>5, <1>6, <2>3
      <3>2. CASE j \in Sent(cur) /\ Msg(cur, j)' = Msg(cur, j)
        BY <2>1, <2>3, <3>1, <3>2 DEF MailInv, InOrder, Overtakes
      <3>3. CASE Msg(cur, j)' = m
        <4>1. MsgOK(Msg(cur, i))
          BY <1>1, <3>1 DEF MailInv, Contents
        <4>2. ~Overtakes(Msg(cur, i), m)
          BY <4>1 DEF Fresh
        <4> QED BY <2>1, <3>1, <3>3, <4>2 DEF Overtakes
      <3> QED BY <1>1, <1>3, <3>2, <3>3
    <2> QED BY <2>2, <2>3
  <1> QED BY <1>7, <1>8, <1>9 DEF MailInv

LEMMA MailPublish ==
    ASSUME QueueTypeOK, LinkTypeOK, MailInv, seen \in [Paths -> Int], Grows,
           NEW p \in Senders, NEW m, down \/ Fresh(m), MsgOK(m)'
    PROVE  /\ Publish(p, m) => MailInv'
           /\ PublishAsync(m) => MailInv'
           /\ \A sub : SendTo(p, sub, m) => MailInv'
  <1>1. ASSUME Publish(p, m)
        PROVE  MailInv'
    BY <1>1, MailEnqueue, MailQuiet DEF Publish, Publishable
  <1>2. ASSUME PublishAsync(m)
        PROVE  MailInv'
    BY <1>2, MailEnqueue, MailQuiet DEF PublishAsync, Publishable
  <1>3. ASSUME NEW sub, SendTo(p, sub, m)
        PROVE  MailInv'
    BY <1>1, <1>3, MailQuiet DEF SendTo
  <1> QED BY <1>1, <1>2, <1>3

\* The messages are where they were.
LEMMA MailTimesOut ==
    ASSUME QueueTypeOK, LinkTypeOK, MailInv, seen \in [Paths -> Int], Grows,
           NEW p \in Senders, PublishTimesOut(p)
    PROVE  MailInv'
  <1>1. UNCHANGED <<got, seen, lib, cur>>
    BY DEF PublishTimesOut
  <1>2. \A k \in Clients : /\ Sent(k)' = Sent(k)
                           /\ \A i \in Sent(k) : Msg(k, i)' = Msg(k, i)
    <2>1. PICK M : queue \in [Clients -> Seq([by : Senders \cup {Nobody}, msg : M])]
      BY DEF QueueTypeOK
    <2>2. ASSUME NEW k \in Clients, NEW i \in Sent(k)
          PROVE  queue[k][i] \in [by : Senders \cup {Nobody}, msg : M]
      <3> DEFINE E == [by : Senders \cup {Nobody}, msg : M]
      <3>1. queue[k] \in Seq(E)
        BY <2>1
      <3> HIDE DEF E
      <3>2. queue[k][i] \in E
        BY <3>1 DEF Sent
      <3> QED BY <3>2 DEF E
    <2>3. queue' = [k \in Clients |->
                      [i \in DOMAIN queue[k] |->
                         IF queue[k][i].by = p
                           THEN [queue[k][i] EXCEPT !.by = Nobody]
                           ELSE queue[k][i]]]
      BY DEF PublishTimesOut
    <2>4. \A k \in Clients : Sent(k)' = Sent(k)
      BY <2>3 DEF Sent
    <2>5. ASSUME NEW k \in Clients, NEW i \in Sent(k)
          PROVE  Msg(k, i)' = Msg(k, i)
      BY <2>2, <2>3 DEF Sent, Msg
    <2> QED BY <2>4, <2>5
  <1>3. Contents'
    <2>1. \A path \in Paths : seen'[path] <= Top'
      BY <1>1 DEF MailInv, Contents, Grows
    <2>2. \A m \in got' : MsgOK(m)'
      BY <1>1 DEF MailInv, Contents, Grows
    <2>3. ASSUME NEW k \in Clients, NEW i \in Sent(k)'
          PROVE  MsgOK(Msg(k, i))'
      BY <1>2, <2>3 DEF MailInv, Contents, Grows, MsgOK
    <2> QED BY <2>1, <2>2, <2>3 DEF Contents
  <1>4. IdleEmpty'
    <2>1. ASSUME NEW k \in Clients, queue[k] = <<>>
          PROVE  queue'[k] = <<>>
      BY <2>1 DEF PublishTimesOut
    <2> QED BY <1>1, <2>1 DEF MailInv, IdleEmpty
  <1>5. InOrder'
    <2> SUFFICES ASSUME ~Replaced, cur \in Clients, NEW j \in Sent(cur)', NEW i \in Sent(cur)'
                 PROVE  ~TooLate(Msg(cur, j))' /\ (i < j => ~Overtakes(Msg(cur, i), Msg(cur, j))')
      BY <1>1 DEF InOrder, Replaced, LinkTypeOK
    <2>1. /\ j \in Sent(cur) /\ i \in Sent(cur)
          /\ Msg(cur, j)' = Msg(cur, j) /\ Msg(cur, i)' = Msg(cur, i)
      BY <1>1, <1>2 DEF Sent, Msg
    <2> QED BY <1>1, <2>1 DEF MailInv, InOrder, TooLate, Overtakes, Grows
  <1> QED BY <1>3, <1>4, <1>5 DEF MailInv

\* The client's messages are gone.
LEMMA MailDisconnect ==
    ASSUME QueueTypeOK, LinkTypeOK, MailInv, seen \in [Paths -> Int], Grows, Disconnect
    PROVE  MailInv'
  <1>1. CASE ~IsConnected(cur)
    BY <1>1, MailQuiet DEF Disconnect, linkVars
  <1>2. CASE IsConnected(cur)
    <2>1. /\ UNCHANGED <<got, seen, cur>> /\ cur \in Clients
          /\ lib' = [lib EXCEPT ![cur] = "closed"] /\ queue' = [queue EXCEPT ![cur] = <<>>]
          /\ DOMAIN queue = Clients /\ lib \in [Clients -> Phase]
      BY <1>2 DEF Disconnect, LinkTypeOK, QueueTypeOK
    <2>2. \A k \in Clients : \A i \in Sent(k)' :
             k # cur /\ i \in Sent(k) /\ Msg(k, i)' = Msg(k, i)
      BY <2>1 DEF Sent, Msg
    <2>3. Contents'
      <3>1. \A path \in Paths : seen'[path] <= Top'
        BY <2>1 DEF MailInv, Contents, Grows
      <3>2. \A m \in got' : MsgOK(m)'
        BY <2>1 DEF MailInv, Contents, Grows
      <3>3. ASSUME NEW k \in Clients, NEW i \in Sent(k)'
            PROVE  MsgOK(Msg(k, i))'
        BY <2>2, <3>3 DEF MailInv, Contents, Grows, MsgOK
      <3> QED BY <3>1, <3>2, <3>3 DEF Contents
    <2>4. IdleEmpty'
      BY <1>2, <2>1 DEF MailInv, IdleEmpty, IsConnected
    <2>5. InOrder'
      BY <2>1, <2>2 DEF InOrder
    <2> QED BY <2>3, <2>4, <2>5 DEF MailInv
  <1> QED BY <1>1, <1>2

\* The new client has nothing to send yet.
LEMMA MailConnect ==
    ASSUME QueueTypeOK, LinkTypeOK, MailInv, seen \in [Paths -> Int], Grows, Connect
    PROVE  MailInv'
  <1>1. /\ UNCHANGED <<queue, got, seen>> /\ cur' = cur + 1 /\ cur' \in Clients
        /\ cur \in Clients /\ lib \in [Clients -> Phase]
        /\ lib' = [lib EXCEPT ![cur + 1] = "retry"]
    BY ClientsAssumption DEF Connect, LinkTypeOK, Clients
  <1>2. queue[cur'] = <<>>
    BY <1>1 DEF MailInv, IdleEmpty, Clients
  <1>3. Contents'
    <2>1. \A path \in Paths : seen'[path] <= Top'
      BY <1>1 DEF MailInv, Contents, Grows
    <2> QED BY <1>1, <2>1 DEF MailInv, Contents, Grows, Sent, Msg
  <1>4. IdleEmpty'
    BY <1>1 DEF MailInv, IdleEmpty, Clients
  <1>5. Sent(cur)' = {}
    BY <1>1, <1>2 DEF Sent
  <1> QED BY <1>3, <1>4, <1>5 DEF MailInv, InOrder

\* Once a client has been replaced without a Disconnect, one always has.
LEMMA ReplacedStays ==
    ASSUME LinkTypeOK, Replaced, UNCHANGED cur,
           \A k \in Clients : lib[k] # "closed" => lib'[k] # "closed"
    PROVE  Replaced'
  <1>1. PICK k \in 1 .. cur - 1 : lib[k] # "closed"
    BY DEF Replaced
  <1>2. k \in Clients
    BY ClientsAssumption DEF LinkTypeOK, Clients
  <1> QED BY <1>1, <1>2 DEF Replaced

\* What the controller receives over the only session is in order.
LEMMA ReceivedInOrder ==
    ASSUME QueueTypeOK, LinkTypeOK, IdleEmpty, InOrder, ~Replaced,
           NEW k \in Clients, Reaches(k)
    PROVE  /\ k = cur /\ 1 \in Sent(cur) /\ Head(queue[cur]).msg = Msg(cur, 1)
           /\ ~TooLate(Msg(cur, 1))
  <1>1. k = cur
    BY DEF Reaches, IdleEmpty, Replaced, LinkTypeOK, Clients
  <1>2. 1 \in Sent(cur) /\ Head(queue[cur]) = queue[cur][1]
    <2>1. PICK M : queue \in [Clients -> Seq([by : Senders \cup {Nobody}, msg : M])]
      BY DEF QueueTypeOK
    <2> DEFINE E == [by : Senders \cup {Nobody}, msg : M]
    <2>2. queue[cur] \in Seq(E) /\ queue[cur] # <<>>
      BY <1>1, <2>1 DEF Reaches
    <2> HIDE DEF E
    <2> QED BY <2>2, TailParts DEF Sent
  <1> QED BY <1>1, <1>2 DEF InOrder, Msg

\* Receiving a message leaves in order what it did not overtake.
LEMMA StillInTime ==
    ASSUME NEW m, Receive(m), seen \in [Paths -> Int], late \subseteq late',
           NEW n, ~TooLate(n), ~Overtakes(m, n)
    PROVE  ~TooLate(n)'
  BY DEF Receive, TooLate, Overtakes

LEMMA NotTooLateItself ==
    ASSUME NEW m, Receive(m), seen \in [Paths -> Int], MsgOK(m), ~TooLate(m)
    PROVE  ~TooLate(m)'
  BY DEF Receive, TooLate, MsgOK

LEMMA ReceivedContents ==
    ASSUME Contents, QueueTypeOK, seen \in [Paths -> Int], Grows,
           NEW k \in Clients, Reaches(k)
    PROVE  /\ \A m \in got' : MsgOK(m)'
           /\ \A path \in Paths : seen'[path] <= Top'
           /\ MsgOK(Head(queue[k]).msg)
  <1>1. queue[k] # <<>> /\ Receive(Head(queue[k]).msg)
    BY DEF Reaches
  <1>2. 1 \in Sent(k) /\ Head(queue[k]) = queue[k][1]
    <2>1. PICK M : queue \in [Clients -> Seq([by : Senders \cup {Nobody}, msg : M])]
      BY DEF QueueTypeOK
    <2> DEFINE E == [by : Senders \cup {Nobody}, msg : M]
    <2>2. queue[k] \in Seq(E) /\ queue[k] # <<>>
      BY <1>1, <2>1
    <2> HIDE DEF E
    <2> QED BY <2>2, TailParts DEF Sent
  <1> DEFINE m == Head(queue[k]).msg
  <1>3. MsgOK(m)
    BY <1>2 DEF Contents, Msg
  <1> HIDE DEF m
  <1>4. got' = got \cup {m} /\ Receive(m)
    BY <1>1 DEF Receive, m
  <1>5. \A n \in got' : MsgOK(n)'
    BY <1>3, <1>4 DEF Contents, Grows
  <1>6. \A path \in Paths : seen'[path] <= Top'
    BY <1>3, <1>4 DEF Receive, MsgOK, Contents, Grows
  <1> QED BY <1>3, <1>5, <1>6 DEF m

LEMMA MailAckLost ==
    ASSUME QueueTypeOK, LinkTypeOK, MailInv, seen \in [Paths -> Int], Grows,
           NEW k \in Clients, AckLost(k)
    PROVE  MailInv'
  <1>1. /\ UNCHANGED <<queue, cur>> /\ Reaches(k) /\ lib[k] = "open"
        /\ lib' = [lib EXCEPT ![k] = "retry"]
        /\ cur \in Clients /\ lib \in [Clients -> Phase]
    BY DEF AckLost, Reaches, Carries, LinkTypeOK
  <1>2. Contents'
    <2>1. \A l \in Clients : \A i \in Sent(l) : MsgOK(Msg(l, i))
      BY DEF MailInv, Contents
    <2> QED BY <1>1, <2>1, ReceivedContents DEF MailInv, Contents, Grows, Sent, Msg
  <1>3. IdleEmpty'
    BY <1>1 DEF MailInv, IdleEmpty
  <1>4. InOrder'
    <2>0. late \subseteq late'
      BY DEF Grows
    <2> SUFFICES ASSUME ~Replaced'
                 PROVE  \A j \in Sent(cur) :
                           /\ ~TooLate(Msg(cur, j))'
                           /\ \A i \in Sent(cur) : i < j => ~Overtakes(Msg(cur, i), Msg(cur, j))
      BY <1>1, <2>0 DEF InOrder, Sent, Msg, Overtakes
    <2>1. ~Replaced
      BY <1>1, ReplacedStays
    <2>2. /\ k = cur /\ 1 \in Sent(cur) /\ Head(queue[cur]).msg = Msg(cur, 1)
          /\ ~TooLate(Msg(cur, 1))
      BY <1>1, <2>1, ReceivedInOrder DEF MailInv
    <2>3. Receive(Msg(cur, 1)) /\ MsgOK(Msg(cur, 1))
      BY <1>1, <2>2 DEF Reaches, MailInv, Contents
    <2>4. \A j \in Sent(cur) :
             /\ ~TooLate(Msg(cur, j))
             /\ \A i \in Sent(cur) : i < j => ~Overtakes(Msg(cur, i), Msg(cur, j))
      BY <2>1 DEF MailInv, InOrder
    <2>5. ASSUME NEW j \in Sent(cur)
          PROVE  ~TooLate(Msg(cur, j))'
      <3> DEFINE h == Msg(cur, 1)
                 n == Msg(cur, j)
      <3>1. Msg(cur, j)' = n
        BY <1>1 DEF Msg
      <3>2. Receive(h) /\ MsgOK(h) /\ ~TooLate(h) /\ ~TooLate(n)
        BY <2>2, <2>3, <2>4
      <3>3. j = 1 \/ ~Overtakes(h, n)
        BY <1>1, <2>2, <2>4, SentIsInterval
      <3>4. j = 1 => n = h
        OBVIOUS
      <3> HIDE DEF h, n
      <3>5. ASSUME NEW x, x = n
            PROVE  ~TooLate(x)'
        BY <2>0, <3>2, <3>3, <3>4, <3>5, StillInTime, NotTooLateItself
      <3> QED BY <3>1, <3>5 DEF TooLate
    <2> QED BY <2>4, <2>5
  <1> QED BY <1>2, <1>3, <1>4 DEF MailInv

LEMMA MailAcknowledged ==
    ASSUME QueueTypeOK, LinkTypeOK, MailInv, seen \in [Paths -> Int], Grows,
           NEW k \in Clients, Acknowledged(k)
    PROVE  MailInv'
  <1>1. /\ UNCHANGED <<lib, cur>> /\ Reaches(k) /\ lib[k] = "open"
        /\ queue' = [queue EXCEPT ![k] = Tail(@)] /\ queue[k] # <<>>
        /\ cur \in Clients /\ lib \in [Clients -> Phase] /\ DOMAIN queue = Clients
    BY DEF Acknowledged, Reaches, Carries, LinkTypeOK, QueueTypeOK
  <1>2. \A l \in Clients : \A i \in Sent(l)' :
           \/ l # k /\ i \in Sent(l) /\ Msg(l, i)' = Msg(l, i)
           \/ l = k /\ i \in Nat /\ i > 0 /\ i + 1 \in Sent(l) /\ Msg(l, i)' = Msg(l, i + 1)
    <2>1. PICK M : queue \in [Clients -> Seq([by : Senders \cup {Nobody}, msg : M])]
      BY DEF QueueTypeOK
    <2> DEFINE E == [by : Senders \cup {Nobody}, msg : M]
    <2>2. queue[k] \in Seq(E)
      BY <2>1
    <2> HIDE DEF E
    <2>3. /\ Len(queue[k]) \in Nat \ {0} /\ DOMAIN queue[k] = 1 .. Len(queue[k])
          /\ DOMAIN Tail(queue[k]) = 1 .. Len(queue[k]) - 1
          /\ \A i \in 1 .. Len(queue[k]) - 1 : Tail(queue[k])[i] = queue[k][i + 1]
      BY <1>1, <2>2, TailParts
    <2> QED BY <1>1, <2>3 DEF Sent, Msg
  <1>3. Contents'
    <2>1. ASSUME NEW l \in Clients, NEW i \in Sent(l)'
          PROVE  MsgOK(Msg(l, i))'
      <3>1. PICK j \in Sent(l) : Msg(l, i)' = Msg(l, j)
        BY <1>2
      <3>2. MsgOK(Msg(l, j))
        BY DEF MailInv, Contents
      <3> QED BY <3>1, <3>2 DEF Grows, MsgOK
    <2> QED BY <1>1, <2>1, ReceivedContents DEF MailInv, Contents
  <1>4. IdleEmpty'
    BY <1>1 DEF MailInv, IdleEmpty
  <1>5. InOrder'
    <2> SUFFICES ASSUME ~Replaced, NEW j \in Sent(cur)'
                 PROVE  /\ ~TooLate(Msg(cur, j))'
                        /\ \A i \in Sent(cur)' : i < j => ~Overtakes(Msg(cur, i), Msg(cur, j))'
      BY <1>1 DEF InOrder, Replaced
    <2>2. /\ k = cur /\ 1 \in Sent(cur) /\ Head(queue[cur]).msg = Msg(cur, 1)
      BY <1>1, ReceivedInOrder DEF MailInv
    <2>3. Receive(Msg(cur, 1))
      BY <1>1, <2>2 DEF Reaches
    <2>4. \A n \in Sent(cur) :
             /\ ~TooLate(Msg(cur, n))
             /\ \A i \in Sent(cur) : i < n => ~Overtakes(Msg(cur, i), Msg(cur, n))
      BY DEF MailInv, InOrder
    <2>5. \A i \in Sent(cur)' : /\ i \in Nat /\ i > 0 /\ i + 1 \in Sent(cur)
                                /\ queue'[cur][i].msg = Msg(cur, i + 1)
      BY <1>1, <1>2, <2>2 DEF Msg
    <2>6. ~TooLate(Msg(cur, j))'
      <3>1. ~TooLate(Msg(cur, j + 1)) /\ ~Overtakes(Msg(cur, 1), Msg(cur, j + 1))
        BY <2>2, <2>4, <2>5
      <3>2. ASSUME NEW x, x = Msg(cur, j + 1)
            PROVE  ~TooLate(x)'
        BY <2>3, <3>1, <3>2, StillInTime DEF Grows
      <3> QED BY <1>1, <2>5, <3>2 DEF TooLate, Msg
    <2>7. ASSUME NEW i \in Sent(cur)', i < j
          PROVE  ~Overtakes(Msg(cur, i), Msg(cur, j))'
      <3>1. ~Overtakes(Msg(cur, i + 1), Msg(cur, j + 1))
        BY <2>4, <2>5, <2>7
      <3> QED BY <1>1, <2>5, <3>1 DEF Overtakes, Msg, Grows
    <2> QED BY <2>6, <2>7
  <1> QED BY <1>3, <1>4, <1>5 DEF MailInv

LEMMA MailLibrary ==
    ASSUME QueueTypeOK, LinkTypeOK, MailInv, seen \in [Paths -> Int], Grows,
           NEW k \in Clients, LibraryStep(k)
    PROVE  MailInv'
  <1>1. CASE Acknowledged(k)
    BY <1>1, MailAcknowledged
  <1>2. CASE AckLost(k)
    BY <1>2, MailAckLost
  <1>3. CASE OpenConnection(k) \/ Dialled(k) \/ ReadFails(k) \/ BrokerDrops(k)
    <2>1. /\ UNCHANGED <<queue, got, seen, cur>> /\ cur \in Clients
          /\ \A l \in Clients : lib[l] \in {"none", "closed"} <=> lib'[l] \in {"none", "closed"}
          /\ \A l \in Clients : lib[l] = "none" <=> lib'[l] = "none"
      BY <1>3 DEF OpenConnection, Dialled, ReadFails, BrokerDrops, Carries, LinkTypeOK, Phase
    <2>2. Contents'
      <3>1. \A path \in Paths : seen'[path] <= Top'
        BY <2>1 DEF MailInv, Contents, Grows
      <3> QED BY <2>1, <3>1 DEF MailInv, Contents, Grows, Sent, Msg
    <2>3. IdleEmpty'
      BY <2>1 DEF MailInv, IdleEmpty
    <2>4. InOrder'
      <3>1. ~Replaced' => ~Replaced
        BY <2>1, ReplacedStays
      <3> QED BY <2>1, <3>1, StillOrdered DEF MailInv, Grows
    <2> QED BY <2>2, <2>3, <2>4 DEF MailInv
  <1> QED BY <1>1, <1>2, <1>3 DEF LibraryStep

LEMMA TopIsInt == OrderTypeOK => Top \in Int
  BY DEF OrderTypeOK, Top

LEMMA GrowsWhen ==
    ASSUME OrderTypeOK, OrderTypeOK', Top <= Top', left'.ops <= left.ops,
           late \subseteq late',
           Pending' => \/ Pending /\ job'["op"].key = job["op"].key
                       \/ job'["op"].key = left.ops /\ left.ops # 0
    PROVE  Grows /\ \A key : Used(key) => Used(key)'
  <1>1. left.ops \in Nat /\ left'.ops \in Nat
    BY DEF OrderTypeOK
  <1>2. Top \in Int /\ Top' \in Int
    BY DEF OrderTypeOK, Top
  <1>3. ASSUME NEW key, Used(key)
        PROVE  Used(key)'
    BY <1>1, <1>3 DEF Used
  <1>4. ASSUME NEW m, MsgOK(m)
        PROVE  MsgOK(m)'
    BY <1>2, <1>3, <1>4 DEF MsgOK
  <1> QED BY <1>2, <1>3, <1>4 DEF Grows

\* Neither the operation nor the fault moves.
LEMMA FrameKeeps ==
    ASSUME OrderTypeOK, OrderTypeOK', SpawnedOK, pc'["fault"] = pc["fault"],
           pc'["op"] = pc["op"], job'["op"] = job["op"], UNCHANGED <<outage, spawned, late>>,
           left'.ops <= left.ops
    PROVE  Grows /\ SpawnedOK' /\ \A key : Used(key) => Used(key)'
  <1>1. Top' = Top /\ (Pending' <=> Pending) /\ Top \in Int
    BY TopIsInt DEF Top, Pending
  <1>2. down' <=> down
    BY DEF OrderTypeOK
  <1>3. SpawnedOK'
    BY <1>2 DEF SpawnedOK, OwnOK
  <1> QED BY <1>1, <1>3, GrowsWhen

LEMMA PlainIsFresh ==
    ASSUME NEW m, m.t \notin {"value", "complete"}
    PROVE  Fresh(m)
  BY DEF Fresh, TooLate, Overtakes

LEMMA SenderNames ==
    /\ {"run", "handler", "op", "fault", "bulk"} \subseteq Senders
    /\ Restarts \subseteq Senders
    /\ \A r \in Restarts : r \notin {"run", "handler", "op", "fault", "bulk", Nobody}
  BY SendersAssumption

\* What every publication leaves alone.
LEMMA PublishFrame ==
    /\ \A p, m : Publish(p, m) => UNCHANGED <<down, seen, left, got, cur, lib>>
    /\ \A m : PublishAsync(m) => UNCHANGED <<down, seen, left, got, cur, lib>>
    /\ \A p, sub, m : SendTo(p, sub, m) => UNCHANGED <<down, seen, left, got, cur, lib>>
  BY DEF Publish, PublishAsync, SendTo

LEMMA OrderAnnounce ==
    ASSUME OrderInv, QueueTypeOK, LinkTypeOK, NEW p \in Announcers, AnnounceStep(p)
    PROVE  OrderInv'
  <1>1. p \in Senders \ {"op"} /\ "op" \in Senders /\ "fault" \in Senders
    BY SenderNames DEF Announcers
  <1> DEFINE next == pc'[p]
  <1>2. /\ pc' = [pc EXCEPT ![p] = next]
        /\ \/ pc[p] = "onboard" /\ next = "onboarded"
           \/ pc[p] = "onboarded" /\ next \in {"boot", "reply", "idle"}
           \/ pc[p] = "boot" /\ next \in {"reply", "idle"}
        /\ p = "fault" => next = "idle"
    <2>1. pc["fault"] # "onboard" /\ pc["fault"] # "onboarded" /\ pc \in [Senders -> AgentPlace]
      BY DEF OrderInv, OrderTypeOK, FaultPlace
    <2>2. CASE Onboard(p)
      BY <1>1, <2>1, <2>2 DEF Onboard, Goto
    <2>3. CASE Onboarded(p)
      BY <1>1, <2>1, <2>3 DEF Onboarded, Goto, Afterwards
    <2>4. CASE Boot(p)
      BY <1>1, <2>1, <2>4 DEF Boot, Goto, Afterwards
    <2> QED BY <2>2, <2>3, <2>4 DEF AnnounceStep
  <1>3. UNCHANGED <<down, seen, left, got, cur, lib, job, outage, spawned, late>>
    BY PublishFrame
       DEF AnnounceStep, Onboard, Onboarded, Boot, subVars, ifaceVars, linkVars
  <1>4. p = "fault" => pc["fault"] = "boot"
    BY <1>1, <1>2 DEF OrderInv, OrderTypeOK, FaultPlace
  <1>5. OrderTypeOK'
    <2>1. pc' \in [Senders -> AgentPlace]
      <3>1. next \in AgentPlace
        BY <1>2 DEF AgentPlace, FaultPlace, Announcing
      <3> HIDE DEF next
      <3> QED BY <1>1, <1>2, <3>1 DEF OrderInv, OrderTypeOK
    <2>2. pc'["fault"] \in FaultPlace /\ (down' <=> pc'["fault"] \in {"interface", "window"})
      BY <1>1, <1>2, <1>3, <1>4 DEF OrderInv, OrderTypeOK, FaultPlace
    <2> QED BY <1>3, <2>1, <2>2 DEF OrderInv, OrderTypeOK
  <1>6. Top' = Top /\ (Pending' <=> Pending) /\ Top \in Int /\ left.ops \in Nat
    BY <1>1, <1>2, <1>3, <1>4, TopIsInt DEF Top, Pending, OrderInv, OrderTypeOK
  <1>7. Grows /\ \A key : Used(key) => Used(key)'
    BY <1>3, <1>5, <1>6, GrowsWhen DEF OrderInv
  <1>8. SpawnedOK'
    BY <1>1, <1>2, <1>3, <1>4 DEF OrderInv, OrderTypeOK, SpawnedOK, OwnOK, Settled
  <1>9. pc[p] \in Announcing /\ Used(job[p].key)
    BY <1>1, <1>2 DEF OrderInv, JobsOK, Announcing
  <1>10. JobsOK'
    <2>1. ASSUME NEW q \in Senders \ {"op"}, pc'[q] \in Announcing
          PROVE  Used(job[q].key)'
      <3>1. Used(job[q].key)
        BY <1>1, <1>2, <1>9, <2>1 DEF OrderInv, OrderTypeOK, JobsOK
      <3> QED BY <1>3, <1>7, <3>1 DEF Used
    <2>2. pc'["op"] = pc["op"]
      BY <1>1, <1>2 DEF OrderInv, OrderTypeOK
    <2> QED BY <1>3, <2>1, <2>2 DEF OrderInv, JobsOK
  <1>11. MailInv'
    <2>1. seen \in [Paths -> Int]
      BY DEF OrderInv, OrderTypeOK
    <2>2. CASE Onboarded(p)
      BY <1>7, <2>1, <2>2, MailQuiet DEF Onboarded, linkVars, OrderInv
    <2>3. CASE Onboard(p)
      <3>1. PICK m : m = Message("onboard", job[p].key)
        OBVIOUS
      <3>2. Fresh(m) /\ MsgOK(m)'
        BY <3>1, PlainIsFresh DEF Message, MsgOK
      <3> QED BY <1>1, <1>7, <2>1, <2>3, <3>1, <3>2, MailPublish DEF OrderInv, Onboard
    <2>4. CASE Boot(p)
      <3>1. PICK m : m = Message("boot", job[p].key)
        OBVIOUS
      <3>2. Fresh(m) /\ MsgOK(m)
        BY <1>9, <3>1, PlainIsFresh DEF Message, MsgOK
      <3> QED BY <1>1, <1>7, <2>1, <2>4, <3>1, <3>2, MailPublish DEF OrderInv, Boot, Grows
    <2> QED BY <2>2, <2>3, <2>4 DEF AnnounceStep
  <1> QED BY <1>5, <1>8, <1>10, <1>11 DEF OrderInv

\* A goroutine that is neither the operation's nor the fault's moves on.
LEMMA OtherMoves ==
    ASSUME OrderInv, NEW p \in Senders \ {"op", "fault"}, NEW next \in AgentPlace,
           pc' = [pc EXCEPT ![p] = next],
           NEW c \in Nat, job' = job \/ job' = [job EXCEPT ![p].client = c],
           next \in Announcing => pc[p] \in Announcing,
           UNCHANGED <<down, seen, left, outage, spawned, late>>
    PROVE  OrderTypeOK' /\ JobsOK' /\ SpawnedOK' /\ Grows
  <1>1. "op" \in Senders /\ "fault" \in Senders
    BY SenderNames
  <1>2. /\ job' \in [Senders -> JobType]
        /\ job'["op"] = job["op"] /\ \A q \in Senders : job'[q].key = job[q].key
    <2> DEFINE j == [job[p] EXCEPT !.client = c]
    <2>1. job \in [Senders -> JobType]
      BY DEF OrderInv, OrderTypeOK
    <2>2. j \in JobType /\ j.key = job[p].key
      BY <2>1 DEF JobType
    <2>3. job' = job \/ job' = [job EXCEPT ![p] = j]
      OBVIOUS
    <2> HIDE DEF j
    <2> QED BY <1>1, <2>1, <2>2, <2>3
  <1>3. /\ pc' \in [Senders -> AgentPlace]
        /\ pc'["op"] = pc["op"] /\ pc'["fault"] = pc["fault"]
    BY <1>1 DEF OrderInv, OrderTypeOK
  <1>4. OrderTypeOK'
    BY <1>2, <1>3 DEF OrderInv, OrderTypeOK
  <1>5. left.ops \in Nat
    BY DEF OrderInv, OrderTypeOK
  <1>6. Grows /\ SpawnedOK' /\ \A key : Used(key) => Used(key)'
    BY <1>2, <1>3, <1>4, <1>5, FrameKeeps DEF OrderInv
  <1>7. JobsOK'
    <2>1. ASSUME NEW q \in Senders \ {"op"}, pc'[q] \in Announcing
          PROVE  Used(job[q].key)'
      <3>1. Used(job[q].key)
        BY <2>1 DEF OrderInv, OrderTypeOK, JobsOK
      <3>2. \A key : key = job[q].key => Used(key)'
        BY <1>6, <3>1
      <3> QED BY <1>2, <3>2 DEF Used
    <2> QED BY <1>1, <1>2, <1>3, <2>1 DEF OrderInv, JobsOK
  <1> QED BY <1>4, <1>6, <1>7

LEMMA OrderRejoined ==
    ASSUME OrderInv, NEW p \in {"run"} \cup Restarts, Rejoined(p)
    PROVE  OrderInv'
  <1>1. p \in Senders \ {"op", "fault"}
    BY SenderNames
  <1>2. PICK next \in {"boot", "onboard", "idle"} : pc' = [pc EXCEPT ![p] = next]
    BY DEF Rejoined, Goto
  <1>3. next \in AgentPlace /\ pc[p] \in Announcing
    BY <1>2 DEF AgentPlace, FaultPlace, Announcing, Rejoined
  <1>4. UNCHANGED <<down, seen, left, outage, spawned, late, job, queue, got, lib, cur>>
    BY DEF Rejoined, linkVars, subVars, ifaceVars
  <1>5. OrderTypeOK' /\ JobsOK' /\ SpawnedOK' /\ Grows
    <2>1. 0 \in Nat
      OBVIOUS
    <2> QED BY <1>1, <1>2, <1>3, <1>4, <2>1, OtherMoves
  <1> QED BY <1>4, <1>5, MailQuiet DEF OrderInv, OrderTypeOK

LEMMA OrderRestart ==
    ASSUME OrderInv, QueueTypeOK, LinkTypeOK, NEW r \in Restarts, RestartStep(r)
    PROVE  OrderInv'
  <1>1. r \in Senders \ {"op", "fault"} /\ seen \in [Paths -> Int]
    BY SenderNames DEF OrderInv, OrderTypeOK
  <1>2. CASE RestartDisconnects(r)
    <2>1. /\ pc' = [pc EXCEPT ![r] = "dark"] /\ pc[r] \in Announcing
          /\ "dark" \in AgentPlace /\ 0 \in Nat
          /\ UNCHANGED <<down, seen, left, outage, spawned, late, job>>
      BY <1>2 DEF RestartDisconnects, Goto, Announcing, AgentPlace, Disconnect, linkVars,
                  subVars, ifaceVars
    <2>2. OrderTypeOK' /\ JobsOK' /\ SpawnedOK' /\ Grows
      BY <1>1, <2>1, OtherMoves
    <2> QED BY <1>1, <1>2, <2>2, MailDisconnect DEF OrderInv, RestartDisconnects
  <1>3. CASE RestartConnects(r)
    <2>1. /\ pc' = [pc EXCEPT ![r] = "connecting"] /\ pc[r] \in Announcing
          /\ "connecting" \in AgentPlace
          /\ UNCHANGED <<down, seen, left, outage, spawned, late>>
          /\ job' = [job EXCEPT ![r].client = cur + 1]
      BY <1>3 DEF RestartConnects, Goto, Announcing, AgentPlace, Connect, subVars, ifaceVars
    <2>2. PICK c \in Nat : c = cur + 1
      BY DEF LinkTypeOK, Clients
    <2>3. OrderTypeOK' /\ JobsOK' /\ SpawnedOK' /\ Grows
      BY <1>1, <2>1, <2>2, OtherMoves
    <2> QED BY <1>1, <1>3, <2>3, MailConnect DEF OrderInv, RestartConnects
  <1> QED BY <1>2, <1>3 DEF RestartStep

LEMMA OrderReply ==
    ASSUME OrderInv, QueueTypeOK, LinkTypeOK, Reply
    PROVE  OrderInv'
  <1>1. "handler" \in Senders \ {"op", "fault"} /\ seen \in [Paths -> Int]
    BY SenderNames DEF OrderInv, OrderTypeOK
  <1>2. /\ pc' = [pc EXCEPT !["handler"] = "idle"]
        /\ "idle" \in AgentPlace /\ "idle" \notin Announcing /\ 0 \in Nat
        /\ UNCHANGED <<down, seen, left, outage, spawned, late, job>>
    BY PublishFrame DEF Reply, Goto, Announcing, AgentPlace, FaultPlace, subVars, ifaceVars
  <1>3. OrderTypeOK' /\ JobsOK' /\ SpawnedOK' /\ Grows
    BY <1>1, <1>2, OtherMoves
  <1>4. PICK m : m = Message("answer", job["handler"].key)
    OBVIOUS
  <1>5. Fresh(m) /\ MsgOK(m)'
    BY <1>4, PlainIsFresh DEF Message, MsgOK
  <1> QED BY <1>1, <1>3, <1>4, <1>5, MailPublish DEF OrderInv, Reply

LEMMA OrderOperate ==
    ASSUME OrderInv, Operate
    PROVE  OrderInv'
  <1>1. PICK c \in Commands, a \in BOOLEAN :
           LET j == [cmd |-> c, key |-> left.ops, auto |-> a, client |-> 0]
           IN  OperateRestart(j) \/ OperateFirmware(j)
    BY DEF Operate
  <1>2. PICK j \in JobType : /\ j = [cmd |-> c, key |-> left.ops, auto |-> a, client |-> 0]
                             /\ OperateRestart(j) \/ OperateFirmware(j)
    <2>1. left.ops \in Nat
      BY DEF OrderInv, OrderTypeOK
    <2>2. [cmd |-> c, key |-> left.ops, auto |-> a, client |-> 0] \in JobType
      BY <2>1 DEF JobType
    <2> QED BY <1>1, <2>2
  <1>3. /\ j.key = left.ops /\ j.cmd \in Commands
        /\ left.ops \in Nat /\ left.ops > 0 /\ left'.ops = left.ops - 1
        /\ UNCHANGED <<down, seen, queue, got, lib, cur, outage, spawned, late>>
        /\ left' \in [ops : Nat, faults : Nat, losses : Nat, subs : Nat, profiles : Nat,
                      ticks : Nat]
    BY <1>2 DEF OperateRestart, OperateFirmware, Operated, OrderInv, OrderTypeOK, subVars,
                ifaceVars
  <1>4. /\ pc \in [Senders -> AgentPlace] /\ job \in [Senders -> JobType]
        /\ seen \in [Paths -> Int]
        /\ "op" \in Senders /\ "handler" \in Senders /\ "fault" \in Senders
    BY SenderNames DEF OrderInv, OrderTypeOK
  \* Who gets the job, and where he is then.
  <1>5. /\ pc' \in [Senders -> AgentPlace] /\ job' \in [Senders -> JobType]
        /\ pc'["fault"] = pc["fault"] /\ job'["fault"] = job["fault"]
        /\ \A q \in Senders \ {"op"} :
              pc'[q] \in Announcing => \/ pc[q] \in Announcing /\ job'[q] = job[q]
                                       \/ job'[q] = j /\ pc'["op"] = pc["op"]
                                          /\ job'["op"] = job["op"]
        /\ \/ pc'["op"] = pc["op"] /\ job'["op"] = job["op"]
           \/ job'["op"] = j
    <2>1. CASE OperateRestart(j) /\ cfg.rebootDelay
      <3>1. PICK r \in Restarts :
               /\ pc' = [pc EXCEPT ![r] = "disconnect", !["handler"] = "reply"]
               /\ job' = [job EXCEPT ![r] = j, !["handler"] = j]
        BY <2>1 DEF OperateRestart
      <3>2. r \in Senders \ {"op", "fault", "handler"}
        BY SenderNames
      <3> QED BY <1>4, <3>1, <3>2 DEF AgentPlace, Announcing
    <2>2. CASE OperateRestart(j) /\ ~cfg.rebootDelay
      BY <1>4, <2>2 DEF OperateRestart, Goto, AgentPlace, Announcing
    <2>3. CASE OperateFirmware(j)
      <3>1. j.cmd \in {"Download()", "Activate()"}
        BY <2>3 DEF OperateFirmware
      <3>2. \/ /\ pc' = [pc EXCEPT !["handler"] = "reply"]
               /\ job' = [job EXCEPT !["handler"] = j]
            \/ /\ pc' = [pc EXCEPT !["handler"] = "reply", !["op"] = j.cmd]
               /\ job' = [job EXCEPT !["handler"] = j, !["op"] = j]
        BY <2>3 DEF OperateFirmware, Goto
      <3>3. CASE /\ pc' = [pc EXCEPT !["handler"] = "reply"]
                 /\ job' = [job EXCEPT !["handler"] = j]
        BY <1>4, <3>3 DEF AgentPlace, Announcing
      <3>4. CASE /\ pc' = [pc EXCEPT !["handler"] = "reply", !["op"] = j.cmd]
                 /\ job' = [job EXCEPT !["handler"] = j, !["op"] = j]
        BY <1>4, <3>1, <3>4 DEF AgentPlace, Announcing
      <3> QED BY <3>2, <3>3, <3>4
    <2> QED BY <1>2, <2>1, <2>2, <2>3
  <1>6. OrderTypeOK'
    BY <1>3, <1>5 DEF OrderInv, OrderTypeOK
  <1>7. Top' = Top /\ Top \in Int
    BY <1>3, <1>5, TopIsInt DEF Top, OrderInv
  <1>8. Grows /\ \A key : Used(key) => Used(key)'
    BY <1>3, <1>5, <1>6, <1>7, GrowsWhen DEF OrderInv, Pending
  <1>9. SpawnedOK'
    BY <1>3, <1>5 DEF OrderInv, SpawnedOK, OwnOK
  <1>10. JobsOK'
    <2>1. pc'["op"] # "idle" => job'["op"].key > left'.ops
      BY <1>3, <1>4, <1>5 DEF OrderInv, JobsOK, JobType
    <2>2. ASSUME NEW q \in Senders \ {"op"}, pc'[q] \in Announcing
          PROVE  Used(job[q].key)'
      <3>1. CASE pc[q] \in Announcing /\ job'[q] = job[q]
        <4>1. Used(job[q].key)
          BY <3>1 DEF OrderInv, JobsOK
        <4>2. \A key : key = job[q].key => Used(key)'
          BY <1>8, <4>1
        <4> QED BY <3>1, <4>2 DEF Used
      <3>2. CASE job'[q] = j /\ pc'["op"] = pc["op"] /\ job'["op"] = job["op"]
        <4>1. Pending => job["op"].key > left.ops
          BY DEF OrderInv, JobsOK, Pending
        <4> QED BY <1>3, <1>4, <3>2, <4>1 DEF Used, Pending, JobType
      <3> QED BY <1>5, <2>2, <3>1, <3>2
    <2> QED BY <1>5, <2>1, <2>2 DEF OrderInv, JobsOK
  <1> QED BY <1>3, <1>4, <1>6, <1>8, <1>9, <1>10, MailQuiet DEF OrderInv

\* The operation moves on.
LEMMA OperationMoves ==
    ASSUME OrderInv, NEW next \in AgentPlace, pc' = [pc EXCEPT !["op"] = next],
           NEW c \in Nat, job' = job \/ job' = [job EXCEPT !["op"].client = c],
           pc["op"] # "idle",
           next \in {"Download()", "fetching", "Activate()"} => Pending,
           UNCHANGED <<down, seen, left, outage, spawned, late>>
    PROVE  OrderTypeOK' /\ JobsOK' /\ SpawnedOK' /\ Grows
  <1>1. /\ "op" \in Senders /\ "fault" \in Senders /\ left.ops \in Nat
        /\ pc \in [Senders -> AgentPlace] /\ job \in [Senders -> JobType]
    BY SenderNames DEF OrderInv, OrderTypeOK
  <1>2. /\ job' \in [Senders -> JobType]
        /\ job'["op"].key = job["op"].key /\ \A q \in Senders \ {"op"} : job'[q] = job[q]
    <2> DEFINE j == [job["op"] EXCEPT !.client = c]
    <2>1. j \in JobType /\ j.key = job["op"].key
      BY <1>1 DEF JobType
    <2>2. job' = job \/ job' = [job EXCEPT !["op"] = j]
      OBVIOUS
    <2> HIDE DEF j
    <2> QED BY <1>1, <2>1, <2>2
  <1>3. /\ pc' \in [Senders -> AgentPlace] /\ pc'["op"] = next
        /\ \A q \in Senders \ {"op"} : pc'[q] = pc[q]
    BY <1>1
  <1>4. pc'["fault"] = pc["fault"] /\ job'["fault"] = job["fault"]
    BY <1>1, <1>2, <1>3
  <1>5. OrderTypeOK'
    BY <1>2, <1>3, <1>4 DEF OrderInv, OrderTypeOK
  <1>6. Top' = Top /\ Top \in Int
    BY <1>4, TopIsInt DEF Top, OrderInv
  <1>7. Grows /\ \A key : Used(key) => Used(key)'
    BY <1>1, <1>2, <1>3, <1>5, <1>6, GrowsWhen DEF OrderInv, Pending
  <1>8. SpawnedOK'
    BY <1>4 DEF OrderInv, SpawnedOK, OwnOK
  <1>9. JobsOK'
    <2>1. ASSUME NEW q \in Senders \ {"op"}, pc'[q] \in Announcing
          PROVE  Used(job[q].key)'
      <3>1. Used(job[q].key)
        BY <1>3, <2>1 DEF OrderInv, JobsOK
      <3>2. \A key : key = job[q].key => Used(key)'
        BY <1>7, <3>1
      <3> QED BY <1>2, <3>2 DEF Used
    <2> QED BY <1>2, <1>4, <2>1 DEF OrderInv, JobsOK
  <1> QED BY <1>5, <1>7, <1>8, <1>9

LEMMA OrderComplete ==
    ASSUME OrderInv, QueueTypeOK, LinkTypeOK, Pending,
           NEW next \in {"transferFailed", "transferred", "activate"}, Complete(next),
           UNCHANGED <<job, outage, late>>
    PROVE  OrderInv'
  <1>1. "op" \in Senders /\ seen \in [Paths -> Int] /\ pc["op"] # "idle"
    BY SenderNames DEF OrderInv, OrderTypeOK, Pending
  <1>2. /\ pc' = [pc EXCEPT !["op"] = next] /\ next \in AgentPlace /\ 0 \in Nat
        /\ next \notin {"Download()", "fetching", "Activate()"}
        /\ UNCHANGED <<down, seen, left, spawned>>
    BY PublishFrame DEF Complete, Goto, AgentPlace
  <1>3. OrderTypeOK' /\ JobsOK' /\ SpawnedOK' /\ Grows
    BY <1>1, <1>2, OperationMoves
  <1>4. PICK m : m = Message("complete", job["op"].key)
    OBVIOUS
  <1>5. m.t = "complete" /\ m.key = job["op"].key
    BY <1>4 DEF Message
  <1>6. ASSUME NEW x, MsgOK(x)
        PROVE  x \notin {Message("transfer", m.key), Message("boot", m.key)}
    BY <1>5, <1>6 DEF MsgOK, Used, Message
  <1>7. Fresh(m)
    <2>1. ~TooLate(m)
      BY <1>5, <1>6 DEF TooLate, OrderInv, MailInv, Contents
    <2> QED BY <1>5, <1>6, <2>1 DEF Fresh, Overtakes
  <1>8. MsgOK(m)'
    BY <1>5 DEF MsgOK
  <1> QED BY <1>1, <1>3, <1>4, <1>7, <1>8, MailPublish DEF OrderInv, Complete

LEMMA OrderOperation ==
    ASSUME OrderInv, QueueTypeOK, LinkTypeOK, OperationStep
    PROVE  OrderInv'
  <1>1. /\ "op" \in Senders /\ seen \in [Paths -> Int] /\ left.ops \in Nat
        /\ job["op"] \in JobType
    BY SenderNames DEF OrderInv, OrderTypeOK
  <1>2. CASE DownloadStarts
    <2>1. /\ pc' = [pc EXCEPT !["op"] = "fetching"] /\ "fetching" \in AgentPlace
          /\ 0 \in Nat /\ Pending /\ pc["op"] # "idle"
          /\ UNCHANGED <<down, seen, left, outage, spawned, late, job, queue, got, lib, cur>>
      BY <1>2 DEF DownloadStarts, Goto, AgentPlace, Pending, linkVars, subVars, ifaceVars
    <2> QED BY <1>1, <2>1, OperationMoves, MailQuiet DEF OrderInv
  <1>3. CASE DownloadFails \/ DownloadEnds \/ ActivateStarts
    BY <1>3, OrderComplete
       DEF DownloadFails, DownloadEnds, ActivateStarts, Pending, ifaceVars
  <1>4. ASSUME NEW t \in {"transfer", "boot"}, NEW m, m = Message(t, job["op"].key),
               pc["op"] # "idle", NEW next \in {"activate", "release"},
               pc' = [pc EXCEPT !["op"] = next],
               UNCHANGED <<down, seen, left, outage, spawned, late, job>>
        PROVE  OrderTypeOK' /\ JobsOK' /\ SpawnedOK' /\ Grows /\ Fresh(m) /\ MsgOK(m)'
    <2>1. /\ next \in AgentPlace /\ 0 \in Nat
          /\ next \notin {"Download()", "fetching", "Activate()"}
      BY DEF AgentPlace
    <2>2. OrderTypeOK' /\ JobsOK' /\ SpawnedOK' /\ Grows
      BY <1>4, <2>1, OperationMoves
    <2>3. m.t = t /\ m.key = job["op"].key
      BY <1>4 DEF Message
    <2>4. Fresh(m)
      BY <2>3, PlainIsFresh
    <2>5. pc'["op"] = next
      BY <1>1, <1>4 DEF OrderInv, OrderTypeOK
    <2>6. job["op"].key \in Nat /\ job["op"].key > left.ops
      BY <1>1, <1>4 DEF OrderInv, JobsOK, JobType
    <2>7. MsgOK(m)'
      BY <1>4, <2>1, <2>3, <2>5, <2>6 DEF MsgOK, Used, Pending
    <2> QED BY <2>2, <2>4, <2>7
  <1>5. CASE TransferComplete
    <2>1. PICK m : m = Message("transfer", job["op"].key)
      OBVIOUS
    <2>2. PICK next \in {"activate", "release"} : pc' = [pc EXCEPT !["op"] = next]
      BY <1>5 DEF TransferComplete, Goto
    <2>3. /\ UNCHANGED <<down, seen, left, outage, spawned, late, job>> /\ pc["op"] # "idle"
          /\ SendTo("op", "transfer", m)
      BY <1>5, <2>1, PublishFrame DEF TransferComplete, subVars, ifaceVars
    <2> QED BY <1>1, <1>4, <2>1, <2>2, <2>3, MailPublish DEF OrderInv
  <1>6. CASE GoesDark
    <2>1. /\ pc' = [pc EXCEPT !["op"] = "dark"] /\ "dark" \in AgentPlace
          /\ 0 \in Nat /\ pc["op"] # "idle"
          /\ UNCHANGED <<down, seen, left, outage, spawned, late, job>>
      BY <1>6 DEF GoesDark, Goto, AgentPlace, Announcing, Disconnect, linkVars, subVars,
                  ifaceVars
    <2>2. OrderTypeOK' /\ JobsOK' /\ SpawnedOK' /\ Grows
      BY <2>1, OperationMoves
    <2> QED BY <1>1, <1>6, <2>2, MailDisconnect DEF OrderInv, GoesDark
  <1>7. CASE Applied
    <2>1. PICK c \in Nat : c = cur + 1
      BY DEF LinkTypeOK, Clients
    <2>2. /\ pc' = [pc EXCEPT !["op"] = "connecting"] /\ "connecting" \in AgentPlace
          /\ pc["op"] # "idle" /\ job' = [job EXCEPT !["op"].client = c]
          /\ UNCHANGED <<down, seen, left, outage, spawned, late>>
      BY <1>7, <2>1 DEF Applied, Goto, AgentPlace, Announcing, Connect, subVars, ifaceVars
    <2>3. OrderTypeOK' /\ JobsOK' /\ SpawnedOK' /\ Grows
      BY <2>2, OperationMoves
    <2> QED BY <1>1, <1>7, <2>3, MailConnect DEF OrderInv, Applied
  <1>8. CASE FirmwareBoot
    <2>1. PICK m : m = Message("boot", job["op"].key)
      OBVIOUS
    <2>2. /\ pc' = [pc EXCEPT !["op"] = "release"] /\ pc["op"] # "idle"
          /\ UNCHANGED <<outage, spawned, late, job>>
          /\ Publish("op", m) \/ UNCHANGED linkVars
      BY <1>8, <2>1 DEF FirmwareBoot, Goto, subVars, ifaceVars
    <2>3. UNCHANGED <<down, seen, left>>
      BY <2>2, PublishFrame DEF linkVars
    <2>4. OrderTypeOK' /\ JobsOK' /\ SpawnedOK' /\ Grows /\ Fresh(m) /\ MsgOK(m)'
      BY <1>4, <2>1, <2>2, <2>3
    <2> QED BY <1>1, <2>2, <2>4, MailPublish, MailQuiet DEF OrderInv, linkVars
  <1>9. CASE Release
    <2>1. /\ pc' = [pc EXCEPT !["op"] = "idle"] /\ "idle" \in AgentPlace
          /\ 0 \in Nat /\ pc["op"] # "idle"
          /\ UNCHANGED <<down, seen, left, outage, spawned, late, job, queue, got, lib, cur>>
      BY <1>9 DEF Release, Goto, AgentPlace, FaultPlace, linkVars, subVars, ifaceVars
    <2> QED BY <1>1, <2>1, OperationMoves, MailQuiet DEF OrderInv
  <1> QED BY <1>2, <1>3, <1>5, <1>6, <1>7, <1>8, <1>9 DEF OperationStep

\* The fault goroutine moves on.
LEMMA FaultMoves ==
    ASSUME OrderInv, NEW next \in FaultPlace, pc' = [pc EXCEPT !["fault"] = next],
           UNCHANGED <<job, seen>>, outage' \in Nat,
           down' <=> next \in {"interface", "window"}, left'.ops = left.ops,
           left' \in [ops : Nat, faults : Nat, losses : Nat, subs : Nat, profiles : Nat,
                      ticks : Nat],
           Top' = Top \/ Top <= Top', late \subseteq late'
    PROVE  OrderTypeOK' /\ JobsOK' /\ Grows /\ pc'["fault"] = next
  <1>1. /\ "op" \in Senders /\ "fault" \in Senders /\ left.ops \in Nat
        /\ pc \in [Senders -> AgentPlace] /\ job \in [Senders -> JobType]
    BY SenderNames DEF OrderInv, OrderTypeOK
  <1>2. /\ pc' \in [Senders -> AgentPlace] /\ pc'["fault"] = next
        /\ \A q \in Senders \ {"fault"} : pc'[q] = pc[q]
    BY <1>1 DEF AgentPlace
  <1>3. OrderTypeOK'
    BY <1>2 DEF OrderInv, OrderTypeOK
  <1>4. Top <= Top' /\ (Pending' <=> Pending)
    BY <1>1, <1>2, TopIsInt DEF OrderInv, Pending
  <1>5. Grows /\ \A key : Used(key) => Used(key)'
    BY <1>1, <1>3, <1>4, GrowsWhen DEF OrderInv
  <1>6. JobsOK'
    <2>1. ASSUME NEW q \in Senders \ {"op"}, pc'[q] \in Announcing
          PROVE  Used(job[q].key)'
      <3>1. CASE q # "fault"
        <4>1. Used(job[q].key)
          BY <1>2, <2>1, <3>1 DEF OrderInv, JobsOK
        <4>2. \A key : key = job[q].key => Used(key)'
          BY <1>5, <4>1
        <4> QED BY <4>2 DEF Used
      <3>2. CASE q = "fault"
        <4>1. job["fault"].key = 0 /\ (Pending => job["op"].key > left.ops)
          BY DEF OrderInv, JobsOK, Pending
        <4> QED BY <1>1, <1>4, <3>2, <4>1 DEF Used
      <3> QED BY <3>1, <3>2
    <2> QED BY <1>1, <1>2, <2>1 DEF OrderInv, JobsOK
  <1> QED BY <1>2, <1>3, <1>5, <1>6

LEMMA ValueIsFresh ==
    ASSUME OrderInv, NEW path, NEW at \in Int, Top <= at, NEW m, m = Value(path, at)
    PROVE  Fresh(m)
  <1>1. m.t = "value" /\ m.path = path /\ m.at = at
    BY DEF Value
  <1>2. Top \in Int /\ seen \in [Paths -> Int]
    BY TopIsInt DEF OrderInv, OrderTypeOK
  <1>3. ~TooLate(m)
    BY <1>1, <1>2 DEF TooLate, OrderInv, MailInv, Contents
  <1>4. ASSUME NEW x, MsgOK(x)
        PROVE  ~Overtakes(x, m)
    BY <1>1, <1>2, <1>4 DEF Overtakes, MsgOK
  <1> QED BY <1>3, <1>4 DEF Fresh

\* The fault goroutine moves on outside the window; what is on its way by itself
\* stays what it is.
LEMMA OwnStays ==
    ASSUME OrderInv, ~down, ~down', UNCHANGED <<outage, spawned, late>>,
           pc["fault"] \in Settled => pc'["fault"] \in Settled
    PROVE  SpawnedOK'
  BY DEF OrderInv, SpawnedOK, OwnOK

\* ReportValueChange, wherever the fault goroutine calls it.
LEMMA OrderReport ==
    ASSUME OrderInv, QueueTypeOK, LinkTypeOK, NEW path, NEW at \in Int, NEW next \in FaultPlace,
           ReportValueChange(path, at, next), UNCHANGED <<job, outage, late>>,
           Top <= at, at <= Top', ~down, next \notin {"interface", "window"}, SpawnedOK'
    PROVE  OrderInv'
  <1>1. PICK m : m = Value(path, at)
    OBVIOUS
  <1>2. /\ SendTo("fault", "value", m) /\ pc' = [pc EXCEPT !["fault"] = next]
        /\ UNCHANGED spawned
    BY <1>1 DEF ReportValueChange, Goto
  <1>3. UNCHANGED <<down, seen, left>>
    BY <1>2, PublishFrame
  <1>4. /\ outage' \in Nat /\ (down' <=> next \in {"interface", "window"})
        /\ left' \in [ops : Nat, faults : Nat, losses : Nat, subs : Nat, profiles : Nat,
                      ticks : Nat]
        /\ "fault" \in Senders /\ seen \in [Paths -> Int]
    BY <1>3, SenderNames DEF OrderInv, OrderTypeOK
  <1>5. pc'["fault"] = next
    BY <1>2, <1>4 DEF OrderInv, OrderTypeOK
  <1>6. Top \in Int /\ Top' \in Int
    BY <1>4, <1>5, TopIsInt DEF Top, OrderInv
  <1>7. OrderTypeOK' /\ JobsOK' /\ Grows
    <2>1. Top <= Top' /\ left'.ops = left.ops
      BY <1>3, <1>6
    <2> QED BY <1>2, <1>3, <1>4, <2>1, FaultMoves
  <1>8. MsgOK(m)'
    <2>1. m.t = "value" /\ m.path = path /\ m.at = at
      BY <1>1 DEF Value
    <2> QED BY <1>1, <1>6, <2>1 DEF MsgOK
  <1>9. Fresh(m)
    BY <1>1, ValueIsFresh
  <1> QED BY <1>2, <1>4, <1>7, <1>8, <1>9, MailPublish DEF OrderInv

LEMMA OrderFault ==
    ASSUME OrderInv, QueueTypeOK, LinkTypeOK, TriggerFault \/ FaultStep
    PROVE  OrderInv'
  <1>1. /\ "fault" \in Senders /\ outage \in Nat /\ seen \in [Paths -> Int]
        /\ pc \in [Senders -> AgentPlace]
        /\ left \in [ops : Nat, faults : Nat, losses : Nat, subs : Nat, profiles : Nat,
                     ticks : Nat]
        /\ down <=> pc["fault"] \in {"interface", "window"}
    BY SenderNames DEF OrderInv, OrderTypeOK
  <1>2. \A next : pc' = [pc EXCEPT !["fault"] = next] => pc'["fault"] = next
    BY <1>1
  <1>3. \A next : next \in {"idle", "interface", "window", "rejoin", "account", "duration",
                            "up", "since", "restart", "boot"} => next \in FaultPlace
    BY DEF FaultPlace
  <1>4. CASE TriggerFault
    <2>1. /\ pc["fault"] = "idle" /\ pc' = [pc EXCEPT !["fault"] = "interface"]
          /\ outage' = outage + 1 /\ down'
          /\ left' = [left EXCEPT !.faults = @ - 1] /\ left.faults > 0
          /\ UNCHANGED <<job, seen, spawned, late, queue, got, lib, cur>>
      BY <1>4 DEF TriggerFault, LinkDown, Goto, Idle, subVars
    <2>2. Top' = Top
      BY <1>1, <1>2, <2>1 DEF Top
    <2>3. SpawnedOK'
      BY <1>1, <2>1 DEF OrderInv, SpawnedOK, OwnOK
    <2>4. /\ left'.ops = left.ops
          /\ left' \in [ops : Nat, faults : Nat, losses : Nat, subs : Nat, profiles : Nat,
                        ticks : Nat]
      BY <1>1, <2>1
    <2>5. OrderTypeOK' /\ JobsOK' /\ Grows
      <3>1. outage' \in Nat /\ "interface" \in FaultPlace
            /\ (down' <=> "interface" \in {"interface", "window"})
        BY <1>1, <1>3, <2>1
      <3> QED BY <2>1, <2>2, <2>4, <3>1, FaultMoves
    <2> QED BY <1>1, <2>1, <2>3, <2>5, MailQuiet DEF OrderInv
  <1>5. CASE InterfaceDown
    <2>1. /\ pc["fault"] = "interface" /\ pc' = [pc EXCEPT !["fault"] = "window"]
          /\ UNCHANGED <<job, seen, queue, got, lib, cur, outage, late, left, down>>
          /\ \A m \in spawned' : m \in spawned \/ \E path : m = Value(path, 2 * outage - 1)
      BY <1>5 DEF InterfaceDown, Goto, linkVars, Notify
    <2>2. Top' = Top
      BY <1>1, <1>2, <2>1 DEF Top
    <2>3. SpawnedOK'
      <3>1. down /\ down' /\ 2 * outage - 1 \in Int
        BY <1>1, <2>1
      <3> SUFFICES ASSUME NEW m \in spawned'
                   PROVE  OwnOK(m)'
        BY DEF SpawnedOK
      <3>2. CASE m \in spawned
        BY <1>1, <2>1, <3>1, <3>2 DEF OrderInv, SpawnedOK, OwnOK, Settled
      <3>3. CASE \E path : m = Value(path, 2 * outage - 1)
        BY <2>1, <3>1, <3>3 DEF OwnOK
      <3> QED BY <2>1, <3>2, <3>3
    <2>4. OrderTypeOK' /\ JobsOK' /\ Grows
      BY <1>1, <1>3, <2>1, <2>2, FaultMoves
    <2> QED BY <1>1, <2>1, <2>3, <2>4, MailQuiet DEF OrderInv
  <1>6. CASE WindowEnds
    <2>1. /\ pc["fault"] = "window" /\ pc' = [pc EXCEPT !["fault"] = "rejoin"]
          /\ UNCHANGED <<job, seen, queue, got, lib, cur, outage, left, spawned>>
          /\ ~down' /\ late' = late \cup spawned
      BY <1>6 DEF WindowEnds, LinkUp, Goto, subVars
    <2>2. Top <= Top'
      BY <1>1, <1>2, <2>1 DEF Top
    <2>3. SpawnedOK'
      BY <2>1 DEF OrderInv, SpawnedOK, OwnOK, Settled
    <2>4. OrderTypeOK' /\ JobsOK' /\ Grows
      BY <1>1, <1>3, <2>1, <2>2, FaultMoves
    <2> QED BY <1>1, <2>1, <2>3, <2>4, MailQuiet DEF OrderInv
  <1>7. CASE RejoinWaited
    <2>1. /\ pc["fault"] = "rejoin" /\ pc' = [pc EXCEPT !["fault"] = "account"]
          /\ UNCHANGED <<job, seen, queue, got, lib, cur, outage, down, spawned, late>>
          /\ left' = left \/ (left.losses > 0 /\ left' = [left EXCEPT !.losses = @ - 1])
      BY <1>7 DEF RejoinWaited, Goto, subVars, ifaceVars
    <2>2. Top' = Top
      BY <1>1, <1>2, <2>1 DEF Top
    <2>3. SpawnedOK'
      BY <1>1, <2>1, OwnStays DEF Settled
    <2>4. /\ left'.ops = left.ops
          /\ left' \in [ops : Nat, faults : Nat, losses : Nat, subs : Nat, profiles : Nat,
                        ticks : Nat]
      BY <1>1, <2>1
    <2>5. OrderTypeOK' /\ JobsOK' /\ Grows
      BY <1>1, <1>3, <2>1, <2>2, <2>4, FaultMoves
    <2> QED BY <1>1, <2>1, <2>3, <2>5, MailQuiet DEF OrderInv
  <1>8. CASE AccountDown \/ AccountDuration
    <2>1. PICK path \in {"Status", "LastChange"}, next \in {"duration", "up"} :
             /\ ReportValueChange(path, 2 * outage - 1, next)
             /\ pc["fault"] = "account" \/ (pc["fault"] = "duration" /\ next = "up")
      <3>1. CASE AccountDown
        BY <3>1 DEF AccountDown
      <3>2. CASE AccountDuration
        BY <3>2 DEF AccountDuration
      <3> QED BY <1>8, <3>1, <3>2
    <2>2. UNCHANGED <<job, outage, late>>
      BY <1>8 DEF AccountDown, AccountDuration, ifaceVars
    <2>3. PICK at \in Int : at = 2 * outage - 1
      BY <1>1
    <2>4. pc'["fault"] = next /\ UNCHANGED <<spawned, down>>
      BY <1>2, <2>1, PublishFrame DEF ReportValueChange, Goto
    <2>5. Top <= at /\ at <= Top'
      BY <1>1, <2>1, <2>2, <2>3, <2>4 DEF Top
    <2>6. SpawnedOK'
      BY <1>1, <2>1, <2>2, <2>4, OwnStays DEF Settled
    <2>7. next \in FaultPlace /\ next \notin {"interface", "window"} /\ ~down
      BY <1>1, <1>3, <2>1
    <2> QED BY <2>1, <2>2, <2>3, <2>5, <2>6, <2>7, OrderReport
  <1>9. CASE InterfaceUp
    <2>1. PICK next \in {"since", "boot", "idle"} : pc' = [pc EXCEPT !["fault"] = next]
      BY <1>9 DEF InterfaceUp, Goto
    <2>2. /\ pc["fault"] = "up"
          /\ UNCHANGED <<job, seen, queue, got, lib, cur, outage, late, down, left>>
          /\ spawned' \subseteq spawned \cup {Value("Status", 2 * outage)}
      BY <1>9 DEF InterfaceUp, Notify, linkVars
    <2>3. Top <= Top'
      BY <1>1, <1>2, <2>1, <2>2 DEF Top
    <2>4. SpawnedOK'
      <3>1. /\ pc'["fault"] \in Settled /\ pc["fault"] \notin Settled
            /\ 2 * outage \in Int
        BY <1>1, <1>2, <2>1, <2>2 DEF Settled
      <3> SUFFICES ASSUME NEW m \in spawned'
                   PROVE  OwnOK(m)'
        BY DEF SpawnedOK
      <3>2. CASE m \in spawned
        BY <2>2, <3>1, <3>2 DEF OrderInv, SpawnedOK, OwnOK
      <3>3. CASE m = Value("Status", 2 * outage)
        BY <2>2, <3>1, <3>3 DEF OwnOK
      <3> QED BY <2>2, <3>2, <3>3
    <2>5. OrderTypeOK' /\ JobsOK' /\ Grows
      BY <1>1, <1>3, <2>1, <2>2, <2>3, FaultMoves
    <2> QED BY <1>1, <2>2, <2>4, <2>5, MailQuiet DEF OrderInv
  <1>10. CASE AccountSince
    <2>1. PICK next \in {"restart", "idle"} : ReportValueChange("LastChange", 2 * outage, next)
      BY <1>10 DEF AccountSince
    <2>2. UNCHANGED <<job, outage, late>> /\ pc["fault"] = "since"
      BY <1>10 DEF AccountSince, ifaceVars
    <2>3. PICK at \in Int : at = 2 * outage
      BY <1>1
    <2>4. pc'["fault"] = next /\ UNCHANGED <<spawned, down>>
      BY <1>2, <2>1, PublishFrame DEF ReportValueChange, Goto
    <2>5. Top <= at /\ at <= Top'
      BY <1>1, <2>1, <2>2, <2>3, <2>4 DEF Top
    <2>6. SpawnedOK'
      BY <1>1, <2>1, <2>2, <2>4, OwnStays DEF Settled
    <2>7. next \in FaultPlace /\ next \notin {"interface", "window"} /\ ~down
      BY <1>1, <1>3, <2>1, <2>2
    <2> QED BY <2>1, <2>2, <2>3, <2>5, <2>6, <2>7, OrderReport
  <1>11. CASE AccountRestart
    <2>1. /\ pc["fault"] = "restart" /\ pc' = [pc EXCEPT !["fault"] = "boot"]
          /\ UNCHANGED <<job, seen, queue, got, lib, cur, outage, left, spawned, late, down>>
      BY <1>11 DEF AccountRestart, Goto, linkVars, subVars, ifaceVars
    <2>2. Top' = Top
      BY <1>1, <1>2, <2>1 DEF Top
    <2>3. SpawnedOK'
      BY <1>1, <1>2, <2>1, OwnStays DEF Settled
    <2>4. OrderTypeOK' /\ JobsOK' /\ Grows
      BY <1>1, <1>3, <2>1, <2>2, FaultMoves
    <2> QED BY <1>1, <2>1, <2>3, <2>4, MailQuiet DEF OrderInv
  <1> QED BY <1>4, <1>5, <1>6, <1>7, <1>8, <1>9, <1>10, <1>11 DEF FaultStep

\* A step that moves no goroutine of the agent.
LEMMA StandingStill ==
    ASSUME OrderInv, UNCHANGED <<pc, job, outage, spawned, late>>, down' <=> down,
           seen' \in [Paths -> Int], left'.ops = left.ops,
           left' \in [ops : Nat, faults : Nat, losses : Nat, subs : Nat, profiles : Nat,
                      ticks : Nat]
    PROVE  OrderTypeOK' /\ JobsOK' /\ SpawnedOK' /\ Grows
  <1>1. OrderTypeOK'
    BY DEF OrderInv, OrderTypeOK
  <1>2. left.ops \in Nat
    BY DEF OrderInv, OrderTypeOK
  <1>3. Grows /\ SpawnedOK' /\ \A key : Used(key) => Used(key)'
    BY <1>1, <1>2, FrameKeeps DEF OrderInv
  <1>4. ASSUME NEW q \in Senders \ {"op"}, pc'[q] \in Announcing
        PROVE  Used(job[q].key)'
    <2>1. \A key : key = job[q].key => Used(key)'
      BY <1>3, <1>4 DEF OrderInv, JobsOK
    <2> QED BY <2>1 DEF Used
  <1>5. JobsOK'
    BY <1>4 DEF OrderInv, JobsOK
  <1> QED BY <1>1, <1>3, <1>5

LEMMA OrderSpawned ==
    ASSUME OrderInv, QueueTypeOK, LinkTypeOK, NEW m \in spawned, SendSpawned(m)
    PROVE  OrderInv'
  <1>1. /\ UNCHANGED <<pc, job, outage, late, down, seen, left, got, cur, lib>>
        /\ PublishAsync(m) /\ spawned' \subseteq spawned
    BY PublishFrame DEF SendSpawned, ifaceVars
  <1>2. OrderTypeOK' /\ SpawnedOK'
    BY <1>1 DEF OrderInv, OrderTypeOK, SpawnedOK, OwnOK
  <1>3. JobsOK'
    BY <1>1 DEF OrderInv, JobsOK, Used, Pending
  <1>4. Top' = Top /\ Top \in Int /\ seen \in [Paths -> Int]
    BY <1>1, TopIsInt DEF Top, OrderInv, OrderTypeOK
  <1>5. Grows
    BY <1>1, <1>4 DEF Grows, MsgOK, Used, Pending
  <1>6. CASE down
    BY <1>1, <1>2, <1>3, <1>4, <1>5, <1>6, MailQuiet DEF OrderInv, PublishAsync, Publishable
  <1>7. CASE ~down
    <2>1. PICK path : \E at \in Int :
             /\ m = Value(path, at)
             /\ \/ at <= 2 * outage - 1 /\ m \in late
                \/ at = 2 * outage /\ pc["fault"] \in Settled
      BY <1>7 DEF OrderInv, SpawnedOK, OwnOK
    <2>2. PICK at \in Int :
             /\ m = Value(path, at)
             /\ \/ at <= 2 * outage - 1 /\ m \in late
                \/ at = 2 * outage /\ pc["fault"] \in Settled
      BY <2>1
    <2>3. m.t = "value" /\ m.path = path /\ m.at = at
      BY <2>2 DEF Value
    <2>4. Fresh(m)
      <3>1. CASE m \in late
        BY <2>3, <3>1 DEF Fresh, TooLate, Overtakes
      <3>2. CASE at = 2 * outage
        <4>1. Top <= at
          BY <3>2 DEF OrderInv, OrderTypeOK, Top
        <4> QED BY <2>2, <4>1, ValueIsFresh
      <3> QED BY <2>2, <3>1, <3>2
    <2>5. MsgOK(m)'
      <3>1. at <= Top
        BY <1>7, <2>2 DEF OrderInv, OrderTypeOK, Top, Settled
      <3> QED BY <1>4, <2>2, <2>3, <3>1 DEF MsgOK
    <2>6. "run" \in Senders
      BY SenderNames
    <2> QED BY <1>1, <1>2, <1>3, <1>4, <1>5, <2>4, <2>5, <2>6, MailPublish DEF OrderInv
  <1> QED BY <1>6, <1>7

LEMMA OrderAgent ==
    ASSUME OrderInv, QueueTypeOK, LinkTypeOK, AgentStep
    PROVE  OrderInv'
  <1>1. ASSUME NEW s \in Subs \ Standing, Subscribes(s)
        PROVE  OrderInv'
    <2>1. /\ UNCHANGED <<pc, job, outage, spawned, late, down, seen, queue, got, lib, cur>>
          /\ left.subs > 0 /\ left' = [left EXCEPT !.subs = @ - 1]
          /\ seen \in [Paths -> Int]
      BY <1>1 DEF Subscribes, ifaceVars, OrderInv, OrderTypeOK
    <2>2. /\ left'.ops = left.ops
          /\ left' \in [ops : Nat, faults : Nat, losses : Nat, subs : Nat, profiles : Nat,
                        ticks : Nat]
      BY <2>1 DEF OrderInv, OrderTypeOK
    <2>3. OrderTypeOK' /\ JobsOK' /\ SpawnedOK' /\ Grows
      BY <2>1, <2>2, StandingStill
    <2> QED BY <2>1, <2>3, MailQuiet DEF OrderInv
  <1> QED BY <1>1, OrderAnnounce, OrderRejoined, OrderRestart, OrderOperate, OrderReply,
             OrderOperation, OrderFault, OrderSpawned DEF AgentStep

LEMMA OrderLink ==
    ASSUME OrderInv, QueueTypeOK, LinkTypeOK, LinkStep, UNCHANGED agentVars
    PROVE  OrderInv'
  <1>1. /\ UNCHANGED <<pc, job, outage, spawned, late>> /\ seen \in [Paths -> Int]
        /\ left \in [ops : Nat, faults : Nat, losses : Nat, subs : Nat, profiles : Nat,
                     ticks : Nat]
    BY DEF agentVars, subVars, ifaceVars, OrderInv, OrderTypeOK
  <1>2. ASSUME NEW p \in Senders, PublishTimesOut(p)
        PROVE  OrderInv'
    <2>1. UNCHANGED <<down, seen, left>>
      BY <1>2 DEF PublishTimesOut
    <2>2. OrderTypeOK' /\ JobsOK' /\ SpawnedOK' /\ Grows
      BY <1>1, <2>1, StandingStill
    <2> QED BY <1>1, <1>2, <2>2, MailTimesOut DEF OrderInv
  <1>3. ASSUME NEW k \in Clients, LibraryStep(k)
        PROVE  OrderInv'
    <2>1. /\ UNCHANGED down
          /\ left' = left \/ (left.losses > 0 /\ left' = [left EXCEPT !.losses = @ - 1])
          /\ seen' = seen \/ Reaches(k)
      BY <1>3 DEF LibraryStep, OpenConnection, Dialled, ReadFails, BrokerDrops,
                  Acknowledged, AckLost
    <2>2. /\ left'.ops = left.ops
          /\ left' \in [ops : Nat, faults : Nat, losses : Nat, subs : Nat, profiles : Nat,
                        ticks : Nat]
      BY <1>1, <2>1
    <2>3. seen' \in [Paths -> Int]
      <3>1. CASE Reaches(k)
        <4>1. MsgOK(Head(queue[k]).msg)
          <5>1. PICK M : queue \in [Clients -> Seq([by : Senders \cup {Nobody}, msg : M])]
            BY DEF QueueTypeOK
          <5> DEFINE E == [by : Senders \cup {Nobody}, msg : M]
          <5>2. queue[k] \in Seq(E) /\ queue[k] # <<>>
            BY <3>1, <5>1 DEF Reaches
          <5> HIDE DEF E
          <5>3. 1 \in Sent(k) /\ Head(queue[k]) = queue[k][1]
            BY <5>2, TailParts DEF Sent
          <5> QED BY <5>3 DEF OrderInv, MailInv, Contents, Msg
        <4> QED BY <1>1, <3>1, <4>1 DEF Reaches, Receive, MsgOK
      <3> QED BY <1>1, <2>1, <3>1
    <2>4. OrderTypeOK' /\ JobsOK' /\ SpawnedOK' /\ Grows
      BY <1>1, <2>1, <2>2, <2>3, StandingStill
    <2> QED BY <1>1, <1>3, <2>4, MailLibrary DEF OrderInv
  <1> QED BY <1>2, <1>3 DEF LinkStep

LEMMA OrderBulk ==
    ASSUME OrderInv, QueueTypeOK, LinkTypeOK, NEW subs, BulkStep(subs), UNCHANGED agentVars
    PROVE  OrderInv'
  <1>1. /\ UNCHANGED <<pc, job, outage, spawned, late>> /\ seen \in [Paths -> Int]
        /\ left \in [ops : Nat, faults : Nat, losses : Nat, subs : Nat, profiles : Nat,
                     ticks : Nat]
    BY DEF agentVars, subVars, ifaceVars, OrderInv, OrderTypeOK
  <1>2. ASSUME UNCHANGED <<down, seen, queue, got, lib, cur>>,
               \/ left' = left
               \/ left.ticks > 0 /\ left' = [left EXCEPT !.ticks = @ - 1]
               \/ left.profiles > 0 /\ left' = [left EXCEPT !.profiles = @ - 1]
        PROVE  OrderInv'
    <2>1. /\ left'.ops = left.ops
          /\ left' \in [ops : Nat, faults : Nat, losses : Nat, subs : Nat, profiles : Nat,
                        ticks : Nat]
      BY <1>1, <1>2
    <2>2. OrderTypeOK' /\ JobsOK' /\ SpawnedOK' /\ Grows
      BY <1>1, <1>2, <2>1, StandingStill
    <2> QED BY <1>1, <1>2, <2>2, MailQuiet DEF OrderInv
  <1>3. CASE Clock
    BY <1>2, <1>3 DEF Clock
  <1>4. CASE TickOff \/ TickEarly \/ TickDue(subs) \/ PushEnds
    BY <1>2, <1>4 DEF TickOff, TickEarly, TickDue, PushEnds, linkVars
  <1>5. ASSUME NEW r, WriteProfile(r)
        PROVE  OrderInv'
    BY <1>2, <1>5 DEF WriteProfile
  <1>6. ASSUME NEW s \in PushSubs, PushNext(s)
        PROVE  OrderInv'
    <2>1. PICK m : m = [t |-> "push", sub |-> s, reports |-> Append(st.retained, push.at)]
      OBVIOUS
    <2>2. Publish("bulk", m) /\ "bulk" \in Senders
      BY <1>6, <2>1, SenderNames DEF PushNext
    <2>3. UNCHANGED <<down, seen, left>>
      BY <2>2, PublishFrame
    <2>4. OrderTypeOK' /\ JobsOK' /\ SpawnedOK' /\ Grows
      BY <1>1, <2>3, StandingStill
    <2>5. m.t = "push"
      BY <2>1
    <2>6. Fresh(m) /\ MsgOK(m)'
      BY <2>5, PlainIsFresh DEF MsgOK
    <2> QED BY <1>1, <2>2, <2>4, <2>6, MailPublish DEF OrderInv
  <1> QED BY <1>3, <1>4, <1>5, <1>6 DEF BulkStep

LEMMA OrderInitially == Init => OrderInv
  <1> SUFFICES ASSUME NEW plan \in Plans, LinkInit(plan.up), AgentInit(plan.up),
                      left = plan.left
               PROVE  OrderInv
    BY DEF Init
  <1>1. "fault" \in Senders /\ "op" \in Senders /\ "run" \in Senders
    BY SenderNames
  <1>2. /\ pc \in [Senders -> AgentPlace] /\ pc["fault"] = "idle" /\ pc["op"] = "idle"
        /\ \A p \in Senders : pc[p] \in {"connecting", "idle"}
    BY <1>1 DEF AgentInit, AgentPlace, FaultPlace, Announcing
  <1>3. \A p \in Senders : job[p] \in JobType /\ job[p].key = 0
    BY ClientsAssumption DEF AgentInit, NoJob, JobType
  <1>4. job \in [Senders -> JobType]
    BY <1>3 DEF AgentInit
  <1>5. /\ seen = [path \in Paths |-> 0] /\ outage = 0 /\ spawned = {} /\ ~down
        /\ got = {} /\ queue = [k \in Clients |-> <<>>]
    BY DEF LinkInit, AgentInit
  <1>6. left \in [ops : Nat, faults : Nat, losses : Nat, subs : Nat, profiles : Nat,
                  ticks : Nat]
    BY PlansAssumption
  <1>7. OrderTypeOK
    BY <1>2, <1>4, <1>5, <1>6 DEF OrderTypeOK, FaultPlace
  <1>8. JobsOK
    BY <1>1, <1>2, <1>3 DEF JobsOK, Used, Pending
  <1>9. SpawnedOK
    BY <1>5 DEF SpawnedOK
  <1>10. \A k \in Clients : Sent(k) = {}
    BY <1>5 DEF Sent
  <1>11. Contents
    BY <1>2, <1>5, <1>10 DEF Contents, Top
  <1>12. IdleEmpty
    BY <1>5, ClientsAssumption DEF IdleEmpty, LinkInit, Clients
  <1>13. InOrder
    BY <1>10, ClientsAssumption DEF InOrder, LinkInit, Clients
  <1> QED BY <1>7, <1>8, <1>9, <1>11, <1>12, <1>13 DEF OrderInv, MailInv

\* All that the argument about one step rests on.
SessionInv == OrderInv /\ QueueTypeOK /\ LinkTypeOK

LEMMA OrderInvariant == Spec => []SessionInv
  <1>1. CollectorInv /\ OutageInv => QueueTypeOK /\ LinkTypeOK
    BY DEF CollectorInv, OutageInv
  <1>2. OrderInv /\ QueueTypeOK /\ LinkTypeOK /\ [Next]_vars => OrderInv'
    <2> SUFFICES ASSUME OrderInv, QueueTypeOK, LinkTypeOK, [Next]_vars
                 PROVE  OrderInv'
      OBVIOUS
    <2>1. CASE LinkStep /\ UNCHANGED <<agentVars, bulkVars>>
      BY <2>1, OrderLink
    <2>2. CASE AgentStep
      BY <2>2, OrderAgent
    <2>3. CASE BulkStep(enabled \cap PushSubs) /\ UNCHANGED agentVars
      <3>1. PICK subs : subs = enabled \cap PushSubs
        OBVIOUS
      <3> QED BY <2>3, <3>1, OrderBulk
    <2>4. CASE UNCHANGED vars
      <3>1. UNCHANGED <<pc, job, outage, spawned, late, down, seen, left, queue, got, lib, cur>>
        BY <2>4 DEF vars, linkVars, agentVars, subVars, ifaceVars
      <3>2. OrderTypeOK' /\ JobsOK' /\ SpawnedOK' /\ Grows
        BY <3>1, StandingStill DEF OrderInv, OrderTypeOK
      <3> QED BY <3>1, <3>2, MailQuiet DEF OrderInv, OrderTypeOK
    <2> QED BY <2>1, <2>2, <2>3, <2>4 DEF Next
  <1> QED BY <1>1, <1>2, OrderInitially, CollectorInvariant, OutageInvariant, PTL
          DEF Spec, SessionInv

\* The controller receives something only when a library client's message
\* reaches the broker.
LEMMA OnlyReceived ==
    ASSUME SessionInv, [Next]_vars
    PROVE  \/ UNCHANGED <<got, seen>>
           \/ Replaced'
           \/ \E m : Receive(m) /\ ~TooLate(m) /\ MsgOK(m)
  <1> USE DEF SessionInv
  <1>1. ASSUME NEW k \in Clients, LibraryStep(k), Reaches(k)
        PROVE  Replaced' \/ \E m : Receive(m) /\ ~TooLate(m) /\ MsgOK(m)
    <2>1. CASE Replaced
      <3>1. /\ UNCHANGED cur
            /\ \A l \in Clients : lib[l] # "closed" => lib'[l] # "closed"
        BY <1>1 DEF LibraryStep, OpenConnection, Dialled, ReadFails, BrokerDrops,
                    Acknowledged, AckLost, LinkTypeOK, Phase
      <3> QED BY <2>1, <3>1, ReplacedStays
    <2>2. CASE ~Replaced
      <3>1. /\ k = cur /\ 1 \in Sent(cur) /\ Head(queue[cur]).msg = Msg(cur, 1)
            /\ ~TooLate(Msg(cur, 1))
        BY <1>1, <2>2, ReceivedInOrder DEF OrderInv, MailInv
      <3>2. Receive(Msg(cur, 1)) /\ MsgOK(Msg(cur, 1))
        BY <1>1, <3>1 DEF Reaches, OrderInv, MailInv, Contents, LinkTypeOK
      <3> QED BY <3>1, <3>2
    <2> QED BY <2>1, <2>2
  <1>2. ASSUME NEW k \in Clients, LibraryStep(k), ~Reaches(k)
        PROVE  UNCHANGED <<got, seen>>
    BY <1>2 DEF LibraryStep, OpenConnection, Dialled, ReadFails, BrokerDrops,
                Acknowledged, AckLost
  <1>3. ASSUME NEW p \in Senders, PublishTimesOut(p)
        PROVE  UNCHANGED <<got, seen>>
    BY <1>3 DEF PublishTimesOut
  <1>4. AgentStep => UNCHANGED <<got, seen>>
    BY PublishFrame
       DEF AgentStep, AnnounceStep, Onboard, Onboarded, Boot, Rejoined, RestartStep,
           RestartDisconnects, RestartConnects, Disconnect, Connect, Operate,
           OperateRestart, OperateFirmware, Operated, Reply, OperationStep,
           DownloadStarts, DownloadFails, DownloadEnds, TransferComplete,
           ActivateStarts, GoesDark, Applied, FirmwareBoot, Release, Complete,
           TriggerFault, LinkDown, FaultStep, InterfaceDown, WindowEnds, LinkUp,
           RejoinWaited, AccountDown, AccountDuration, InterfaceUp, AccountSince,
           AccountRestart, ReportValueChange, SendSpawned, Subscribes, linkVars
  <1>5. BulkStep(enabled \cap PushSubs) => UNCHANGED <<got, seen>>
    BY PublishFrame DEF BulkStep, Clock, TickOff, TickEarly, TickDue, PushNext, PushEnds,
                        WriteProfile, linkVars
  <1>6. LinkStep => \/ UNCHANGED <<got, seen>>
                    \/ Replaced' \/ \E m : Receive(m) /\ ~TooLate(m) /\ MsgOK(m)
    BY <1>1, <1>2, <1>3 DEF LinkStep
  <1> QED BY <1>4, <1>5, <1>6 DEF Next, vars, linkVars

\* The controller's view of the interface never moves back (runLinkFault and
\* ReportValueChange), over any number of outages, drops and resends, but for a
\* notification whose goroutine outlasted an outage or a replaced client's.
THEOREM ViewNeverMovesBack == Spec => ReportsInOrder
  <1>1. ASSUME SessionInv, [Next]_vars
        PROVE  [Replaced' \/
                \A path \in Paths : \/ seen'[path] >= seen[path]
                                    \/ Value(path, seen'[path]) \in late]_vars
    <2>1. seen \in [Paths -> Int]
      BY <1>1 DEF SessionInv, OrderInv, OrderTypeOK
    <2>2. CASE UNCHANGED <<got, seen>>
      BY <2>1, <2>2
    <2>3. ASSUME NEW m, Receive(m), ~TooLate(m), MsgOK(m)
          PROVE  \A path \in Paths : \/ seen'[path] >= seen[path]
                                     \/ Value(path, seen'[path]) \in late
      <3>1. CASE m.t # "value"
        BY <2>1, <2>3, <3>1 DEF Receive
      <3>2. CASE m.t = "value"
        <4>1. /\ seen' = [seen EXCEPT ![m.path] = m.at]
              /\ m = Value(m.path, m.at) /\ m.at \in Int
          BY <2>3, <3>2 DEF Receive, MsgOK
        <4>2. m.path \in Paths => seen[m.path] <= m.at \/ m \in late
          BY <2>1, <2>3, <3>2, <4>1 DEF TooLate
        <4> QED BY <2>1, <4>1, <4>2
      <3> QED BY <3>1, <3>2
    <2> QED BY <1>1, <2>2, <2>3, OnlyReceived
  <1> QED BY <1>1, OrderInvariant, PTL DEF Spec, ReportsInOrder

\* An OperationComplete never arrives after the TransferComplete! or the Boot!
\* of its operation (async.go), with any number of operations and restarts.
THEOREM CompletesComeFirst == Spec => CompleteComesFirst
  <1>1. ASSUME SessionInv, [Next]_vars
        PROVE  [Replaced' \/
                \A m \in got' \ got :
                   m.t = "complete" =>
                      /\ Message("transfer", m.key) \notin got
                      /\ Message("boot", m.key) \notin got]_vars
    <2>1. CASE UNCHANGED <<got, seen>>
      BY <2>1
    <2>2. ASSUME NEW n, Receive(n), ~TooLate(n), NEW m \in got' \ got, m.t = "complete"
          PROVE  /\ Message("transfer", m.key) \notin got
                 /\ Message("boot", m.key) \notin got
      BY <2>2 DEF Receive, TooLate
    <2> QED BY <1>1, <2>1, <2>2, OnlyReceived
  <1> QED BY <1>1, OrderInvariant, PTL DEF Spec, CompleteComesFirst

=============================================================================
