-------------------------- MODULE MCDecodePipeline --------------------------
(* The decode pipeline for TLC; every cfg beside it gives the bounds.      *)
EXTENDS DecodePipeline
=============================================================================
