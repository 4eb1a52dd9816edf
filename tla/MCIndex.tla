------------------------------ MODULE MCIndex ------------------------------
(* Index on small instances. *)
EXTENDS Index
=============================================================================
