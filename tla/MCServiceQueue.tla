--------------------------- MODULE MCServiceQueue ---------------------------
(* A small instance of ServiceQueue: a request of each kind.                *)
EXTENDS ServiceQueue, TLC

CONSTANTS telemetry, control, launching, asking

Queued == telemetry :> "telemetry" @@ control :> "control"
          @@ launching :> "dispatch" @@ asking :> "query"
=============================================================================
