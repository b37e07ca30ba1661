-------------------------- MODULE MCOperationalAlerts --------------------------
(* OperationalAlerts for TLC: the cron's evaluation and an admin's. *)
EXTENDS OperationalAlerts
=============================================================================
