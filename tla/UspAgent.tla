------------------------------ MODULE UspAgent ------------------------------
(***************************************************************************)
(* The USP agent (src/internal/usp/agent/runner.go, async.go,              *)
(* subscriptions.go) with the commands cpe-sim gives it (usp.go,           *)
(* usp_firmware.go) and the uplink fault (linkfault.go).                   *)
(*                                                                         *)
(* Each goroutine is a sender with a program counter: "run" is Runner.Run, *)
(* "handler" is handleRecord on the library's callback, "op" the one       *)
(* firmware operation, "fault" runLinkFault, and a restart is one of       *)
(* Restarts.  A notification sent on a goroutine of its own is in spawned  *)
(* until it has been published.                                            *)
(***************************************************************************)
EXTENDS UspLink

CONSTANTS
    Restarts,    \* the reboot and factory reset goroutines
    Subs,        \* the Subscription rows
    Standing     \* the ones the controller does not touch again

VARIABLES
    cfg,       \* what the profile says
    pc,        \* where each goroutine is
    job,       \* what it works on
    enabled,   \* the subscriptions that are enabled
    spawned,   \* notifications whose goroutine has not published yet
    rows,      \* Device.LocalAgent.Request.{i}
    busy,      \* uspFirmwareBusy
    image,     \* FirmwareImage.{i}.Status
    version,   \* FirmwareImage.{i}.Version, 0 when empty
    running,   \* the running version
    iface,     \* the interface's Status
    change,    \* its LastChange
    outage,    \* how many faults have been triggered (linkFaultBusy: pc.fault)
    late       \* history: notifications whose goroutine outlasted an outage

subVars    == <<enabled, spawned>>
deviceVars == <<rows, busy, image, version, running>>
ifaceVars  == <<iface, change, outage, late>>
agentVars  == <<cfg, pc, job, subVars, deviceVars, ifaceVars>>

NoJob == [cmd |-> "none", key |-> 0, auto |-> FALSE, client |-> 0]
Commands == {"Download()", "Activate()", "Reboot()", "FactoryReset()"}

Message(t, key) == [t |-> t, key |-> key]

(* Outage n is reported as 2n-1 (it happened) and then 2n (it is over).     *)
Value(path, at) == [t |-> "value", path |-> path, at |-> at]

Goto(p, next) == pc' = [pc EXCEPT ![p] = next]

(* A send to the subscriptions of one type; there may be none.              *)
SendTo(p, sub, m) ==
    IF sub \in enabled
      THEN Publish(p, m)
      ELSE /\ wait' = [wait EXCEPT ![p] = "sent"]
           /\ UNCHANGED <<down, lib, cur, live, held, queue, joined, got, seen,
                          left, told, raced>>

-----------------------------------------------------------------------------
(* Announcing: OnBoardRequest and then, if it was sent, Boot!.  Runner.Run  *)
(* does so when it is connected, a restart when it is back.                 *)

Afterwards(p) == IF p = "handler" THEN "reply" ELSE "idle"

Onboard(p) ==
    /\ pc[p] = "onboard"
    /\ Publish(p, Message("onboard", job[p].key))
    /\ Goto(p, "onboarded")
    /\ UNCHANGED <<cfg, job, subVars, deviceVars, ifaceVars>>

Onboarded(p) ==
    /\ pc[p] = "onboarded"
    /\ Answered(p)
    /\ Goto(p, IF wait[p] = "sent" THEN "boot" ELSE Afterwards(p))
    /\ UNCHANGED linkVars
    /\ UNCHANGED <<cfg, job, subVars, deviceVars, ifaceVars>>

Boot(p) ==
    /\ pc[p] = "boot"
    /\ Publish(p, Message("boot", job[p].key))
    /\ Goto(p, Afterwards(p))
    /\ UNCHANGED <<cfg, job, subVars, deviceVars, ifaceVars>>

(* Run and a restart wait for Connect's token: done, or failed by another   *)
(* goroutine's Disconnect.                                                  *)
Rejoined(p) ==
    /\ pc[p] = "connecting"
    /\ \/ /\ job[p].client \in joined
          /\ Goto(p, IF job[p].cmd = "Reboot()" THEN "boot" ELSE "onboard")
       \/ /\ job[p].client \notin joined
          /\ lib[job[p].client] = "closed"
          /\ Goto(p, "idle")
    /\ UNCHANGED linkVars
    /\ UNCHANGED <<cfg, job, subVars, deviceVars, ifaceVars>>

(* comeBack's goroutine: the session goes, the delay passes, it returns.    *)
RestartDisconnects(r) ==
    /\ pc[r] = "disconnect"
    /\ Disconnect
    /\ Goto(r, "dark")
    /\ UNCHANGED <<cfg, job, subVars, deviceVars, ifaceVars>>

RestartConnects(r) ==
    /\ pc[r] = "dark"
    /\ Connect
    /\ job' = [job EXCEPT ![r].client = cur + 1]
    /\ Goto(r, "connecting")
    /\ UNCHANGED <<cfg, subVars, deviceVars, ifaceVars>>

-----------------------------------------------------------------------------
(* Operate (handleRecord, handleOperate, uspOperateFunc).                   *)

Idle(r) == pc[r] = "idle" /\ Answered(r)

(* An Operate reaches the agent: the handler is free and the session is up. *)
Operated(j) ==
    /\ left.ops > 0
    /\ Idle("handler")
    /\ Carries(cur)
    /\ j = [cmd |-> j.cmd, key |-> left.ops, auto |-> j.auto, client |-> 0]
    /\ left' = [left EXCEPT !.ops = @ - 1]
    /\ UNCHANGED <<down, lib, cur, live, held, queue, wait, joined, got, seen,
                   told, raced>>

(* Reboot() and FactoryReset(): comeBack answers at once when the profile   *)
(* has a reboot delay and announces before it answers when it has none.     *)
OperateRestart(j) ==
    /\ j.cmd \in {"Reboot()", "FactoryReset()"}
    /\ Operated(j)
    /\ \/ /\ cfg.rebootDelay
          /\ \E r \in Restarts :
                /\ Idle(r)
                /\ pc' = [pc EXCEPT ![r] = "disconnect", !["handler"] = "reply"]
                /\ job' = [job EXCEPT ![r] = j, !["handler"] = j]
       \/ /\ ~cfg.rebootDelay
          /\ job' = [job EXCEPT !["handler"] = j]
          /\ Goto("handler", IF j.cmd = "Reboot()" THEN "boot" ELSE "onboard")
    /\ UNCHANGED <<cfg, subVars, deviceVars, ifaceVars>>

(* Download() and Activate(): the arguments are checked, the one firmware   *)
(* slot is claimed, the Request row is created, the work starts.            *)
Refuses(j) ==
    \/ j.cmd = "Activate()" /\ version = 0
    \/ busy

(* handleOperate's abort forgotten when no row can be made (a mutant).      *)
ClaimKept(j) == [busy |-> TRUE, started |-> cfg.rowsFit]

(* createRequest fails when the profile's own Request table lacks a leaf;   *)
(* the claim is given back then, as it is when the command has a row.       *)
Claim(j) ==
    LET fits == cfg.rowsFit /\ ~\E row \in rows : row.cmd = j.cmd
    IN  [busy |-> fits, started |-> fits]

OperateFirmware(j) ==
    /\ j.cmd \in {"Download()", "Activate()"}
    /\ Operated(j)
    /\ \/ /\ Refuses(j)
          /\ Goto("handler", "reply")
          /\ job' = [job EXCEPT !["handler"] = j]
          /\ UNCHANGED <<rows, busy>>
       \/ /\ ~Refuses(j)
          /\ busy' = Claim(j).busy
          /\ \/ /\ Claim(j).started
                /\ rows' = rows \cup {[cmd |-> j.cmd, key |-> j.key]}
                /\ pc' = [pc EXCEPT !["handler"] = "reply", !["op"] = j.cmd]
                /\ job' = [job EXCEPT !["handler"] = j, !["op"] = j]
             \/ /\ ~Claim(j).started
                /\ Goto("handler", "reply")
                /\ job' = [job EXCEPT !["handler"] = j]
                /\ UNCHANGED rows
    /\ UNCHANGED <<cfg, subVars, image, version, running, ifaceVars>>

(* The answer, sent after the operation has been started.                   *)
Reply ==
    /\ pc["handler"] = "reply"
    /\ Answered("handler")
    /\ Publish("handler", Message("answer", job["handler"].key))
    /\ Goto("handler", "idle")
    /\ UNCHANGED <<cfg, job, subVars, deviceVars, ifaceVars>>

-----------------------------------------------------------------------------
(* The firmware operation (runUSPFirmwareDownload, activateUSPFirmware).    *)

(* notifyOperationComplete on a goroutine of its own (a mutant).            *)
CompleteLater(next) ==
    /\ rows' = rows \ {[cmd |-> job["op"].cmd, key |-> job["op"].key]}
    /\ spawned' = spawned \cup {Message("complete", job["op"].key)}
    /\ Goto("op", next)
    /\ UNCHANGED linkVars

(* Complete and Fail: the row goes, then the one OperationComplete is sent. *)
Complete(next) ==
    /\ rows' = rows \ {[cmd |-> job["op"].cmd, key |-> job["op"].key]}
    /\ SendTo("op", "complete", Message("complete", job["op"].key))
    /\ Goto("op", next)
    /\ UNCHANGED spawned

DownloadStarts ==
    /\ pc["op"] = "Download()"
    /\ image' = "Downloading"
    /\ Goto("op", "fetching")
    /\ UNCHANGED linkVars
    /\ UNCHANGED <<cfg, job, subVars, rows, busy, version, running, ifaceVars>>

(* The fetch and the checks after it, all the ways they end.                *)
DownloadFails ==
    /\ pc["op"] = "fetching"
    /\ image' \in {"DownloadFailed", "ValidationFailed"}
    /\ Complete("transferFailed")
    /\ UNCHANGED <<cfg, job, enabled, busy, version, running, ifaceVars>>

DownloadEnds ==
    /\ pc["op"] = "fetching"
    /\ image' = "Available"
    /\ version' = job["op"].key
    /\ Complete("transferred")
    /\ UNCHANGED <<cfg, job, enabled, busy, running, ifaceVars>>

TransferComplete ==
    /\ pc["op"] \in {"transferred", "transferFailed"}
    /\ Answered("op")
    /\ SendTo("op", "transfer", Message("transfer", job["op"].key))
    /\ Goto("op", IF pc["op"] = "transferred" /\ job["op"].auto
                    THEN "activate" ELSE "release")
    /\ UNCHANGED <<cfg, job, subVars, deviceVars, ifaceVars>>

ActivateStarts ==
    /\ pc["op"] = "Activate()"
    /\ Complete("activate")
    /\ UNCHANGED <<cfg, job, enabled, busy, image, version, running, ifaceVars>>

GoesDark ==
    /\ pc["op"] = "activate"
    /\ Answered("op")
    /\ Disconnect
    /\ Goto("op", "dark")
    /\ UNCHANGED <<cfg, job, subVars, deviceVars, ifaceVars>>

Applied ==
    /\ pc["op"] = "dark"
    /\ running' = version
    /\ image' = "Active"
    /\ Connect
    /\ job' = [job EXCEPT !["op"].client = cur + 1]
    /\ Goto("op", "connecting")
    /\ UNCHANGED <<cfg, subVars, rows, busy, version, ifaceVars>>

FirmwareBoot ==
    /\ pc["op"] = "connecting"
    /\ \/ /\ job["op"].client \in joined
          /\ Publish("op", Message("boot", job["op"].key))
       \/ /\ job["op"].client \notin joined
          /\ lib[job["op"].client] = "closed"
          /\ UNCHANGED linkVars
    /\ Goto("op", "release")
    /\ UNCHANGED <<cfg, job, subVars, deviceVars, ifaceVars>>

Release ==
    /\ pc["op"] = "release"
    /\ Answered("op")
    /\ busy' = FALSE
    /\ Goto("op", "idle")
    /\ UNCHANGED linkVars
    /\ UNCHANGED <<cfg, job, subVars, rows, image, version, running, ifaceVars>>

-----------------------------------------------------------------------------
(* The uplink fault (runLinkFault).                                         *)

(* notifier.handleChange: a change of the tree is offered to the value      *)
(* change subscription; the send is on a goroutine of its own.              *)
Notify(changed) == IF "value" \in enabled THEN changed ELSE {}

TriggerFault ==
    /\ left.faults > 0
    /\ Idle("fault")
    /\ outage' = outage + 1
    /\ LinkDown
    /\ left' = [left EXCEPT !.faults = @ - 1]
    /\ Goto("fault", "interface")
    /\ UNCHANGED <<cfg, job, subVars, deviceVars, iface, change, late>>

InterfaceDown ==
    /\ pc["fault"] = "interface"
    /\ iface' = "Down"
    /\ change' = IF cfg.lastChange THEN "0" ELSE change
    /\ spawned' = spawned \cup Notify(
          {Value("Status", 2 * outage - 1)}
            \cup (IF change' # change THEN {Value("LastChange", 2 * outage - 1)}
                  ELSE {}))
    /\ Goto("fault", "window")
    /\ UNCHANGED linkVars
    /\ UNCHANGED <<cfg, job, enabled, deviceVars, outage, late>>

(* The timer is all that is waited for: a notification's goroutine that has *)
(* not run by then finds the link up again.                                 *)
WindowEnds ==
    /\ pc["fault"] = "window"
    /\ LinkUp
    /\ late' = late \cup spawned
    /\ Goto("fault", "rejoin")
    /\ UNCHANGED <<cfg, job, subVars, deviceVars, iface, change, outage>>

(* waitConnected: the session is back, or the wait is over all the same.    *)
RejoinWaited ==
    /\ pc["fault"] = "rejoin"
    /\ Connected \/ left.losses > 0
    /\ left' = IF Connected THEN left ELSE [left EXCEPT !.losses = @ - 1]
    /\ Goto("fault", "account")
    /\ UNCHANGED <<down, lib, cur, live, held, queue, wait, joined, got, seen,
                   told, raced>>
    /\ UNCHANGED <<cfg, job, subVars, deviceVars, ifaceVars>>

(* ReportValueChange without its wait (a mutant).                           *)
ReportLater(path, at, next) ==
    /\ spawned' = spawned \cup Notify({Value(path, at)})
    /\ Goto("fault", next)
    /\ UNCHANGED linkVars

(* ReportValueChange: the one notification that is waited for.              *)
ReportValueChange(path, at, next) ==
    /\ SendTo("fault", "value", Value(path, at))
    /\ Goto("fault", next)
    /\ UNCHANGED spawned

AccountDown ==
    /\ pc["fault"] = "account"
    /\ ReportValueChange("Status", 2 * outage - 1,
                         IF cfg.lastChange THEN "duration" ELSE "up")
    /\ UNCHANGED <<cfg, job, enabled, deviceVars, ifaceVars>>

AccountDuration ==
    /\ pc["fault"] = "duration"
    /\ Answered("fault")
    /\ ReportValueChange("LastChange", 2 * outage - 1, "up")
    /\ UNCHANGED <<cfg, job, enabled, deviceVars, ifaceVars>>

InterfaceUp ==
    /\ pc["fault"] = "up"
    /\ Answered("fault")
    /\ iface' = "Up"
    /\ spawned' = spawned \cup Notify({Value("Status", 2 * outage)})
    /\ Goto("fault", IF cfg.lastChange THEN "since"
                     ELSE IF cfg.faultReboot THEN "boot" ELSE "idle")
    /\ UNCHANGED linkVars
    /\ UNCHANGED <<cfg, job, enabled, deviceVars, change, outage, late>>

AccountSince ==
    /\ pc["fault"] = "since"
    /\ ReportValueChange("LastChange", 2 * outage,
                         IF cfg.faultReboot THEN "restart" ELSE "idle")
    /\ UNCHANGED <<cfg, job, enabled, deviceVars, ifaceVars>>

AccountRestart ==
    /\ pc["fault"] = "restart"
    /\ Answered("fault")
    /\ Goto("fault", "boot")
    /\ UNCHANGED linkVars
    /\ UNCHANGED <<cfg, job, subVars, deviceVars, ifaceVars>>

(* A notification's goroutine publishes it and ignores the answer.          *)
SendSpawned(m) ==
    /\ spawned' = spawned \ {m}
    /\ PublishAsync(m)
    /\ UNCHANGED <<cfg, pc, job, enabled, deviceVars, ifaceVars>>

(* The controller enables or disables a subscription; the table is read     *)
(* again for every notification.                                            *)
Subscribes(s) ==
    /\ left.subs > 0
    /\ left' = [left EXCEPT !.subs = @ - 1]
    /\ enabled' = IF s \in enabled THEN enabled \ {s} ELSE enabled \cup {s}
    /\ UNCHANGED <<down, lib, cur, live, held, queue, wait, joined, got, seen,
                   told, raced>>
    /\ UNCHANGED <<cfg, pc, job, spawned, deviceVars, ifaceVars>>

-----------------------------------------------------------------------------
AgentInit(up) ==
    /\ pc = [p \in Senders |-> IF p = "run" /\ ~up THEN "connecting" ELSE "idle"]
    /\ job = [p \in Senders |-> IF p = "run" /\ ~up THEN [NoJob EXCEPT !.client = 1] ELSE NoJob]
    /\ enabled = Subs
    /\ spawned = {}
    /\ rows = {}
    /\ busy = FALSE
    /\ image = "Available" /\ version = 0 /\ running = 0
    /\ iface = "Up" /\ change = "n"
    /\ outage = 0 /\ late = {}

Announcers == {"run", "handler", "fault"} \cup Restarts

AnnounceStep(p) == Onboard(p) \/ Onboarded(p) \/ Boot(p)

RestartStep(r) == RestartDisconnects(r) \/ RestartConnects(r)

OperationStep ==
    \/ DownloadStarts
    \/ DownloadFails
    \/ DownloadEnds
    \/ TransferComplete
    \/ ActivateStarts
    \/ GoesDark
    \/ Applied
    \/ FirmwareBoot
    \/ Release

FaultStep ==
    \/ InterfaceDown
    \/ WindowEnds
    \/ RejoinWaited
    \/ AccountDown
    \/ AccountDuration
    \/ InterfaceUp
    \/ AccountSince
    \/ AccountRestart

Operate ==
    \E c \in Commands, a \in BOOLEAN :
        LET j == [cmd |-> c, key |-> left.ops, auto |-> a, client |-> 0]
        IN  /\ a => c = "Download()"
            /\ OperateRestart(j) \/ OperateFirmware(j)

AgentStep ==
    \/ \E p \in Announcers : AnnounceStep(p)
    \/ \E p \in {"run"} \cup Restarts : Rejoined(p)
    \/ \E r \in Restarts : RestartStep(r)
    \/ Operate
    \/ Reply
    \/ OperationStep
    \/ TriggerFault
    \/ FaultStep
    \/ \E m \in spawned : SendSpawned(m)
    \/ \E s \in Subs \ Standing : Subscribes(s)

=============================================================================
