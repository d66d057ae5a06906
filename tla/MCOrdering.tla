----------------------------- MODULE MCOrdering -----------------------------
(***************************************************************************)
(* A small instance of the gateway under two policies.                     *)
(***************************************************************************)
EXTENDS MC, Ordering
=============================================================================
