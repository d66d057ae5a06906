----------------------------- MODULE MCTracing ------------------------------
(***************************************************************************)
(* A small instance of the gateway with its tracer.                        *)
(***************************************************************************)
EXTENDS MC, Tracing
=============================================================================
