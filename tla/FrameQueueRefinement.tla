------------------------ MODULE FrameQueueRefinement ------------------------
(***************************************************************************)
(* The frame queue implements the broadcast log.  A consumer is done with  *)
(* the frames before its store_p, and with all of them when store_p is     *)
(* NULL; the linked stores are the retained frames.                        *)
(***************************************************************************)
EXTENDS FrameQueue

Passed ==
  [c \in Consumers |->
     IF c \notin registered THEN 0
     ELSE IF store_p[c] = Null THEN tail
     ELSE store_p[c] - 1]

Log == INSTANCE BroadcastLog WITH
  Subscribers <- Consumers,
  published   <- tail,
  subscribed  <- registered,
  passed      <- Passed,
  reading     <- {c \in registered : hold[c]},
  retained    <- stores

(* Whatever the interleaving of producers and consumers, each consumer     *)
(* sees every frame once and in order, and exactly the frames someone      *)
(* still has to release are kept in memory.                                *)
ImplementsLog == Log!Spec
=============================================================================
