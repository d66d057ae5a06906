------------------------------ MODULE MCBench -------------------------------
(***************************************************************************)
(* A small instance of the gateway, its tracer and a benchmark run.        *)
(***************************************************************************)
EXTENDS MC, Report
=============================================================================
