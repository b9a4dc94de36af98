------------------------------ MODULE Triggers ------------------------------
(* The session triggers of internal/cwmp/eventtracker.go, shared by the     *)
(* tracker, which turns one into a primary event, and by the session runner *)
(* of cmd/cpe-sim/main.go, which ranks them; and the events that a failed   *)
(* session does not put back, which both views of the tracker need.         *)

Trigger == {"Startup", "Periodic", "ConnectionRequest", "ValueChange",
            "TransferComplete", "DUStateChangeComplete", "Retry"}

NoTrigger == "none"

NotRequeued == {"6 CONNECTION REQUEST", "0 BOOTSTRAP", "7 TRANSFER COMPLETE"}
=============================================================================
