---------------------------- MODULE MCDashboard ----------------------------
(* Dashboard on small instances. *)
EXTENDS Dashboard
=============================================================================
