-------------------------- MODULE FirmwareSequence --------------------------
(***************************************************************************)
(* The firmware branch of Download (cmd/cpe-sim/firmware.go), the link     *)
(* fault (cmd/cpe-sim/linkfault.go) and the offline flag of the session    *)
(* runner they share.                                                      *)
(*                                                                         *)
(* A firmware Download arms a settle one-shot; fired, it fetches the       *)
(* image, takes the device dark and arms the apply one-shot; fired, that   *)
(* writes the version, queues the TransferComplete, takes the device       *)
(* online and requests the boot session.  pendingScheduledCancels.firmware *)
(* holds the cancel function of the one-shot in flight.  A session runs    *)
(* from Request to SessionEnds; what it exchanges is CpeSession's subject. *)
(***************************************************************************)
EXTENDS SessionRunner

CONSTANTS
    Downloads,      \* firmware Downloads the ACS issues, by command key
    NoDownload,     \* an empty slot; as a version, the image booted with
    Rejectable,     \* Downloads whose fetch may fail or find no version
    MaxRequests,    \* ticks and connection requests explored
    MaxLinkFaults   \* link faults explored

ASSUME FirmwareAssumption ==
    /\ NoDownload \notin Downloads /\ Rejectable \subseteq Downloads
    /\ MaxRequests \in Nat /\ MaxLinkFaults \in Nat

VARIABLES
    sequence,       \* Download -> where its sequence stands
    slot,           \* pendingScheduledCancels.firmware
    version,        \* the image whose version the tree reports
    records,        \* Downloads whose TransferComplete is queued
    linkFault,      \* the link fault in flight: "none" or "down"
    requests,       \* ticks and connection requests so far
    linkFaults      \* link faults so far

firmwareVars == <<runnerVars, sequence, slot, version, records, linkFault,
          requests, linkFaults>>

Stage == {"none", "accepted", "settling", "settled", "fetching", "fetched", "flashing",
          "flashed", "writing", "reporting", "returning", "booting",
          "faulting", "delivering", "superseded", "done", "failed"}

\* From setOffline to setOnline of a sequence that was not superseded.
DarkStages == {"fetched", "flashing", "flashed", "writing", "reporting",
               "returning"}

Armed(d) == sequence[d] \in {"settling", "flashing"}

Advance(d, from, to) ==
    /\ sequence[d] = from
    /\ sequence' = [sequence EXCEPT ![d] = to]

otherVars == <<version, records, linkFault, requests, linkFaults>>

-----------------------------------------------------------------------------
Handling == \E d \in Downloads : sequence[d] = "accepted"

\* The Download handler, in a session: supersede what the slot holds, and then
\* arm the settle one-shot.  A one-shot past its cancel check is not stopped.
AcceptDownload(d) ==
    /\ busy /\ ~Handling
    /\ sequence[d] = "none"
    /\ sequence' = [e \in Downloads |->
                      IF e = d THEN "accepted"
                      ELSE IF e = slot /\ Armed(e) THEN "superseded"
                      ELSE sequence[e]]
    /\ slot' = NoDownload
    /\ UNCHANGED <<runnerVars, version, records, linkFault, requests, linkFaults>>

ArmSettle(d) ==
    /\ Advance(d, "accepted", "settling")
    /\ slot' = d
    /\ UNCHANGED <<runnerVars, otherVars>>

SettleExpires(d) ==
    /\ Advance(d, "settling", "settled")
    /\ UNCHANGED <<runnerVars, slot, otherVars>>

SettleClearsSlot(d) ==
    /\ Advance(d, "settled", "fetching")
    /\ slot' = NoDownload
    /\ UNCHANGED <<runnerVars, otherVars>>

\* resolveFirmwareVersion, then setOffline.
ImageAccepted(d) ==
    /\ Advance(d, "fetching", "fetched")
    /\ setOffline
    /\ UNCHANGED <<slot, otherVars>>

ArmApply(d) ==
    /\ Advance(d, "fetched", "flashing")
    /\ slot' = d
    /\ UNCHANGED <<runnerVars, otherVars>>

ApplyExpires(d) ==
    /\ Advance(d, "flashing", "flashed")
    /\ UNCHANGED <<runnerVars, slot, otherVars>>

ApplyClearsSlot(d) ==
    /\ Advance(d, "flashed", "writing")
    /\ slot' = NoDownload
    /\ UNCHANGED <<runnerVars, otherVars>>

WriteVersion(d) ==
    /\ Advance(d, "writing", "reporting")
    /\ version' = d
    /\ UNCHANGED <<runnerVars, slot, records, linkFault, requests,
                   linkFaults>>

\* QueueMethodDownload and QueueTransferComplete
QueueSuccess(d) ==
    /\ Advance(d, "reporting", "returning")
    /\ records' = records \cup {d}
    /\ UNCHANGED <<runnerVars, slot, version, linkFault, requests,
                   linkFaults>>

\* Fault: the apply sequence forgets setOnline.
ApplyStaysOffline(d) ==
    /\ Advance(d, "returning", "booting")
    /\ UNCHANGED <<runnerVars, slot, otherVars>>

ApplyGoesOnline(d) ==
    /\ Advance(d, "returning", "booting")
    /\ setOnline
    /\ UNCHANGED <<slot, otherVars>>

RequestBoot(d) ==
    /\ Advance(d, "booting", "done")
    /\ Request("Startup")
    /\ UNCHANGED <<slot, otherVars>>

\* deliverFirmwareFault
ImageRejected(d) ==
    /\ d \in Rejectable
    /\ Advance(d, "fetching", "faulting")
    /\ UNCHANGED <<runnerVars, slot, otherVars>>

\* Fault: a rejected image queues no TransferComplete.
QueueNoFault(d) ==
    /\ Advance(d, "faulting", "delivering")
    /\ UNCHANGED <<runnerVars, slot, otherVars>>

QueueFault(d) ==
    /\ Advance(d, "faulting", "delivering")
    /\ records' = records \cup {d}
    /\ UNCHANGED <<runnerVars, slot, version, linkFault, requests,
                   linkFaults>>

RequestDelivery(d) ==
    /\ Advance(d, "delivering", "failed")
    /\ Request("TransferComplete")
    /\ UNCHANGED <<slot, otherVars>>

SequenceStep(d) ==
    \/ ArmSettle(d) \/ SettleExpires(d) \/ SettleClearsSlot(d)
    \/ ImageAccepted(d) \/ ArmApply(d)
    \/ ApplyExpires(d) \/ ApplyClearsSlot(d) \/ WriteVersion(d) \/ QueueSuccess(d)
    \/ ApplyGoesOnline(d) \/ RequestBoot(d)
    \/ ImageRejected(d) \/ QueueFault(d) \/ RequestDelivery(d)

-----------------------------------------------------------------------------
\* runLinkFault: a second trigger while one is in flight is ignored.
LinkGoesDown ==
    /\ linkFault = "none"
    /\ linkFaults < MaxLinkFaults
    /\ linkFaults' = linkFaults + 1
    /\ linkFault' = "down"
    /\ setOffline
    /\ UNCHANGED <<sequence, slot, version, records, requests>>

\* The window is over: online again, and no session is requested.
LinkComesBack ==
    /\ linkFault = "down"
    /\ linkFault' = "none"
    /\ setOnline
    /\ UNCHANGED <<sequence, slot, version, records, requests, linkFaults>>

\* A tick or a connection request
NaturalTrigger(t) ==
    /\ requests < MaxRequests
    /\ requests' = requests + 1
    /\ Request(t)
    /\ UNCHANGED <<sequence, slot, version, records, linkFault, linkFaults>>

\* runOne returns; request drains the latch or goes idle.
SessionEnds ==
    /\ ~Handling
    /\ GoIdle \/ RunDeferred
    /\ UNCHANGED <<sequence, slot, otherVars>>

-----------------------------------------------------------------------------
FirmwareInit ==
    /\ RunnerInit
    /\ sequence = [d \in Downloads |-> "none"]
    /\ slot = NoDownload /\ version = NoDownload /\ records = {}
    /\ linkFault = "none" /\ requests = 0 /\ linkFaults = 0

FirmwareNext ==
    \/ \E d \in Downloads : AcceptDownload(d) \/ SequenceStep(d)
    \/ LinkGoesDown \/ LinkComesBack \/ SessionEnds
    \/ \E t \in {"Periodic", "ConnectionRequest"} : NaturalTrigger(t)

FirmwareSpec == FirmwareInit /\ [][FirmwareNext]_firmwareVars

\* One-shots expire, fetches return, sessions end, the link comes back.
FirmwareFairness ==
    /\ \A d \in Downloads : WF_firmwareVars(SequenceStep(d))
    /\ WF_firmwareVars(SessionEnds) /\ WF_firmwareVars(LinkComesBack)

FairFirmwareSpec == FirmwareSpec /\ FirmwareFairness

-----------------------------------------------------------------------------
FirmwareTypeOK ==
    /\ RunnerTypeOK
    /\ sequence \in [Downloads -> Stage]
    /\ slot \in Downloads \cup {NoDownload}
    /\ version \in Downloads \cup {NoDownload}
    /\ records \subseteq Downloads
    /\ linkFault \in {"none", "down"}
    /\ requests \in 0..MaxRequests /\ linkFaults \in 0..MaxLinkFaults

Rejected == \E d \in Downloads : sequence[d] \in {"faulting", "delivering", "failed"}

\* What a dark window defers is not lost.  An offline device has a sequence that
\* reaches setOnline, or a link fault whose window ends: superseding a sequence
\* in its dark window leaves the one that superseded it, which goes dark in turn
\* unless its image is rejected.  And setOnline leaves the latch to its caller: a
\* trigger latched in the dark has, once the device is online and idle, a boot
\* session coming to drain it.  (The link fault requests none, and leaves the
\* latch to the next trigger.)
DarkWindowEnds ==
    /\ offline /\ ~Rejected =>
        \/ linkFault = "down"
        \/ \E d \in Downloads :
              sequence[d] \in DarkStages \cup {"accepted", "settling", "settled", "fetching"}
    /\ deferred # NoTrigger /\ ~busy /\ ~offline /\ linkFaults = 0 =>
        \E d \in Downloads : sequence[d] = "booting"

\* Every accepted Download is eventually superseded or reported to the ACS
\* (buildFirmwareScheduler and deliverFirmwareFault).
DownloadsSettle ==
    \A d \in Downloads :
        sequence[d] = "accepted" ~> sequence[d] = "superseded" \/ d \in records

=============================================================================
