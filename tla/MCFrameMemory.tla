---------------------------- MODULE MCFrameMemory ----------------------------
(***************************************************************************)
(* The frame memory for TLC, and the loop with which queue_statFree() and  *)
(* queue_dealloc() coalesce.                                               *)
(***************************************************************************)
EXTENDS FrameMemory, SequencesExt

\* One turn of the loop over the free list.  The block that is freed is at
\* m: 0 for its own descriptor, then the piece it was joined to; a piece
\* joined later takes it over, and the one at m is dropped.
Turn(b, loop, i) ==
  LET it == loop.list[i]
      m == IF loop.m = 0 THEN b ELSE loop.list[loop.m]
      joined == [start |-> IF TouchesRight(it, m) THEN m.start ELSE it.start,
                 size |-> it.size + m.size]
  IN IF ~TouchesRight(it, m) /\ ~TouchesLeft(it, m) THEN loop
     ELSE [list |-> [loop.list EXCEPT ![i] = joined],
           m |-> IF loop.m = 0 THEN i ELSE loop.m,
           dropped |-> IF loop.m = 0 THEN {} ELSE loop.dropped \cup {loop.m}]

\* The free list after the loop, as a set.
LoopMerged(list, b) ==
  LET loop == FoldLeftDomain(LAMBDA l, i : Turn(b, l, i),
                             [list |-> list, m |-> 0, dropped |-> {}], list)
  IN (IF loop.m = 0 THEN {[start |-> b.start, size |-> b.size]} ELSE {})
       \cup {loop.list[i] : i \in DOMAIN list \ loop.dropped}

\* Free lists of a memory of six blocks, in any order.
SmallPieces == {p \in [start : 0..6, size : 0..3] : End(p) <= 6}
SmallLists ==
  {list \in UNION {[1..n -> SmallPieces] : n \in 0..3} :
     \A i, j \in DOMAIN list : i # j =>
       Apart(list[i], list[j]) /\ list[i] # list[j] /\ ~TouchesLeft(list[i], list[j])}

(* The loop computes Merged for every list whose pieces do not touch.      *)
ASSUME LoopCoalesces ==
  \A list \in SmallLists, b \in {p \in SmallPieces : p.size > 0} :
    (\A i \in DOMAIN list : Apart(list[i], b))
      => LoopMerged(list, b) = Merged({list[i] : i \in DOMAIN list}, b)
=============================================================================
