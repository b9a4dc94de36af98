------------------------------ MODULE UspDevice ------------------------------
(***************************************************************************)
(* The USP side of one simulated CPE: the agent with its commands and the  *)
(* uplink fault (UspAgent), the bulk data collector (BulkData) and the     *)
(* transport they share (UspLink).                                         *)
(***************************************************************************)
EXTENDS UspAgent, BulkData

CONSTANT Plans   \* the profiles and the bounds a behaviour starts with

(* The goroutines that send, each with its own name, and what a plan names. *)
ASSUME SendersAssumption ==
    /\ Senders = {"run", "handler", "op", "fault", "bulk"} \cup Restarts
    /\ Restarts \cap {"run", "handler", "op", "fault", "bulk", Nobody} = {}

ASSUME PlansAssumption ==
    /\ Standing \subseteq Subs
    /\ \A plan \in Plans :
          /\ plan.up \in BOOLEAN
          /\ plan.row \in Configs \cup {NoRow}
          /\ plan.left \in [ops : Nat, faults : Nat, losses : Nat, subs : Nat,
                            profiles : Nat, ticks : Nat]
          /\ plan.cfg \in [rebootDelay : BOOLEAN, lastChange : BOOLEAN,
                           faultReboot : BOOLEAN, rowsFit : BOOLEAN]

vars == <<linkVars, agentVars, bulkVars>>

Init ==
    \E plan \in Plans :
        /\ cfg  = plan.cfg
        /\ left = plan.left
        /\ LinkInit(plan.up)
        /\ AgentInit(plan.up)
        /\ BulkInit(plan.row)

Next ==
    \/ LinkStep /\ UNCHANGED <<agentVars, bulkVars>>
    \/ AgentStep /\ UNCHANGED bulkVars
    \/ BulkStep(enabled \cap PushSubs) /\ UNCHANGED agentVars

(* Goroutines run, the library keeps dialling and the broker accepts; a     *)
(* Publish is answered, by the broker or by WaitTimeout, whatever becomes   *)
(* of the session.  Nothing obliges the controller or the operator to act.  *)
Fairness ==
    /\ \A k \in Clients :
          /\ WF_vars(OpenConnection(k) /\ UNCHANGED <<agentVars, bulkVars>>)
          /\ WF_vars(Dialled(k) /\ UNCHANGED <<agentVars, bulkVars>>)
          /\ WF_vars(ReadFails(k) /\ UNCHANGED <<agentVars, bulkVars>>)
    /\ \A p \in Senders : []<>Answered(p)
    /\ WF_vars(OperationStep /\ UNCHANGED bulkVars)
    /\ WF_vars(FaultStep /\ UNCHANGED bulkVars)
    /\ WF_vars((\E m \in spawned : SendSpawned(m)) /\ UNCHANGED bulkVars)

Spec == Init /\ [][Next]_vars /\ Fairness

-----------------------------------------------------------------------------
(* An outage is silent: between the cut and the restoration the broker sees *)
(* nothing of this agent, neither data nor a closed socket, whatever a      *)
(* restart or an activation does to the session meanwhile (link.go, "The    *)
(* broker is told nothing and has to notice by itself").  The exception the *)
(* code leaves is a dial that was in flight when the link was cut.          *)
OutageIsSilent == down /\ told => raced

(* The controller never moves back: it is not told that the interface went  *)
(* down after it was told that the same outage is over (runLinkFault's      *)
(* steps 5 and 6), for either parameter, over reconnects and resends.  Two  *)
(* things the code lets happen are excepted: a library client that Connect  *)
(* replaced without a Disconnect still holds messages of its own, and the   *)
(* goroutine of an ordinary notification may outlast the outage it was      *)
(* started before or in.                                                    *)
ReportsInOrder ==
    [][Replaced' \/
       \A path \in Paths : \/ seen'[path] >= seen[path]
                           \/ Value(path, seen'[path]) \in late]_vars

(* OperationComplete comes first: once the controller has an operation's    *)
(* TransferComplete! or the Boot! of its activation, its OperationComplete  *)
(* does not arrive any more (async.go, "which is what puts                  *)
(* OperationComplete first on the wire").                                   *)
CompleteComesFirst ==
    [][Replaced' \/
       \A m \in got' \ got :
          m.t = "complete" =>
             /\ Message("transfer", m.key) \notin got
             /\ Message("boot", m.key) \notin got]_vars

(* The firmware slot is always given back: by Abort, by the end of the      *)
(* download or by the end of the activation, with the link cut, the session *)
(* closed by a restart, or messages lost on the way.                        *)
FirmwareSlotFrees == busy ~> ~busy

(* No report goes missing: every report the collector took is retained, or  *)
(* being pushed, or has reached every subscription that was there all       *)
(* along, at once or with a later report; a partial delivery counts as      *)
(* none.  Excepted is what the collector gives up by its own rules: a       *)
(* profile that retains nothing, more reports than the limit, or a profile  *)
(* that is turned off.                                                      *)
Kept == ToSet(st.retained) \cup {push.at}

ReportsReach ==
    \A s \in Standing \cap PushSubs, r \in made \ (Kept \cup lost) :
       \E m \in got : m.t = "push" /\ m.sub = s /\ r \in ToSet(m.reports)

=============================================================================
