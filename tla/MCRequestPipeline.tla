-------------------------- MODULE MCRequestPipeline --------------------------
(***************************************************************************)
(* RequestPipeline for requests that share nothing but the configuration.  *)
(***************************************************************************)
EXTENDS RequestPipeline

CONSTANTS r1
=============================================================================
