----------------------------- MODULE MCSpreadTrade -----------------------------
(* SpreadTrade on small instances; each .cfg gives the constants their values. *)
EXTENDS SpreadTrade
================================================================================
