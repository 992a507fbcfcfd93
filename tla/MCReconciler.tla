----------------------------- MODULE MCReconciler -----------------------------
(* Reconciler on small instances; each .cfg gives the constants their values. *)
EXTENDS Reconciler
===============================================================================
