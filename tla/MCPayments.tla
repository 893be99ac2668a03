------------------------------- MODULE MCPayments -------------------------------
(* Small instance of Payments; see the README for the bounds. *)
EXTENDS Payments
=============================================================================
