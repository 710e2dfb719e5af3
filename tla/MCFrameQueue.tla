---------------------------- MODULE MCFrameQueue ----------------------------
(* The frame queue for TLC; every cfg beside it gives the constants.       *)
EXTENDS FrameQueueRefinement
=============================================================================
