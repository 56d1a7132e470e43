---------------------------- MODULE MCReadiness ----------------------------
(* The three checks of HealthCheckProvider. *)
EXTENDS Readiness

CONSTANTS postgres, redis, nats
=============================================================================
