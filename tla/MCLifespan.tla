----------------------------- MODULE MCLifespan -----------------------------
(***************************************************************************)
(* Small instances of the gateway with dying workers and a stop.           *)
(***************************************************************************)
EXTENDS MC, Lifespan
=============================================================================
