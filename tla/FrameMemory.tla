----------------------------- MODULE FrameMemory -----------------------------
(***************************************************************************)
(* The memory under the frame queues (iva/queue/queue.cpp): queue_malloc,  *)
(* queue_dealloc and the queue_statFree the queue itself calls, with the   *)
(* decoder threads that allocate a frame, convert it into a second one and *)
(* enqueue it (DecodeVideo::decode, _PrepareFrame).                        *)
(*                                                                         *)
(* An area of memory is Chunks blocks of QUEUE_BLOCK bytes; sizes are      *)
(* counted in blocks.  Two areas never touch: each is a malloc() of its    *)
(* own.  The lists free and busy are sets here: the order of the list only *)
(* decides which piece that fits is taken.  One mutex covers every call.   *)
(*                                                                         *)
(* The queues are seen from the memory: a frame is stored until its last   *)
(* consumer releases it (see FrameQueue).                                  *)
(***************************************************************************)
EXTENDS Integers, FiniteSets

CONSTANTS
  Decoders,  \* threads that allocate frames
  Chunks,    \* QUEUE_CHUNKS, the blocks of an area
  MaxAreas,  \* QUEUE_MAX_BLOCKS, the areas there can be
  Sizes      \* sizes of frames, in blocks

ASSUME MemoryBounds ==
  /\ Chunks \in Nat \ {0} /\ MaxAreas \in Nat \ {0}
  /\ Sizes \subseteq Nat \ {0}

VARIABLES
  areas,    \* qtMemory
  free,     \* descriptors of free pieces
  busy,     \* descriptors of pieces in use, with their flag enqueue
  blocks,   \* the counter of blocks in use
  locked,   \* a call returned without unlocking queue_mutex
  step,     \* what each decoder thread does next
  raw, out, \* its local pointers outbuf2 (before the conversion) and outbuf
  stored    \* buffers of the frames in the queues

memory == <<areas, free, busy, blocks, locked>>
threads == <<step, raw, out>>
vars == <<memory, threads, stored>>

Null == -1

\* The first block after a piece.
End(d) == d.start + d.size

Area(i) == [start |-> i * (Chunks + 1), size |-> Chunks]
(* Faulty variants of the operators below.                                 *)
NoRight(f, b) == FALSE
OneLess(d, n) == [start |-> d.start + n, size |-> d.size - n - 1]
-----------------------------------------------------------------------------
\* Coalescing: the free list after block b was freed (MCFrameMemory checks
\* that the loop over the list computes this).
TouchesLeft(f, b) == End(f) = b.start
TouchesRight(f, b) == f.start = End(b)

Merged(pieces, b) ==
  LET left == {f \in pieces : TouchesLeft(f, b)}
      right == {f \in pieces : TouchesRight(f, b)}
      first == IF left = {} THEN b.start ELSE (CHOOSE f \in left : TRUE).start
      end == IF right = {} THEN End(b) ELSE End(CHOOSE f \in right : TRUE)
  IN (pieces \ (left \cup right)) \cup {[start |-> first, size |-> end - first]}

\* The part of a free piece that an allocation leaves in the list.
Remainder(d, n) == [start |-> d.start + n, size |-> d.size - n]

-----------------------------------------------------------------------------
\* The pieces queue_statAlloc() comes to look at: it adds areas while no
\* piece is large enough.
Grown(n) ==
  IF \E d \in free : d.size >= n THEN areas
  ELSE IF n <= Chunks /\ areas < MaxAreas THEN areas + 1
  ELSE MaxAreas

Pieces(n) == free \cup {Area(i) : i \in areas..(Grown(n) - 1)}

Allocate(n, p) ==
  /\ ~locked
  /\ areas' = Grown(n)
  /\ \/ \E d \in Pieces(n) :
          /\ d.size >= n /\ p = d.start
          /\ free' = (Pieces(n) \ {d}) \cup {Remainder(d, n)}
          /\ busy' = busy \cup {[start |-> p, size |-> n, enqueue |-> FALSE]}
          /\ blocks' = blocks + n
     \/ /\ \A d \in Pieces(n) : d.size < n
        /\ p = Null
        /\ free' = Pieces(n)
        /\ UNCHANGED <<busy, blocks>>
  /\ UNCHANGED locked

\* The counter after a free (and one faulty variant).
KeepsCount(n) == blocks
BlocksLess(n) == blocks - n

Release(b) ==
  /\ busy' = busy \ {b}
  /\ blocks' = BlocksLess(b.size)
  /\ free' = Merged(free, b)
  /\ UNCHANGED <<areas, locked>>

At(p) == {b \in busy : b.start = p}

StatFree(p) ==
  /\ ~locked
  /\ IF At(p) = {} THEN UNCHANGED memory ELSE \E b \in At(p) : Release(b)

\* A block that is in a queue is refused, with the mutex still locked.
Dealloc(p) ==
  /\ ~locked
  /\ IF \E b \in At(p) : b.enqueue
     THEN locked' = TRUE /\ UNCHANGED <<areas, free, busy, blocks>>
     ELSE StatFree(p)

\* queue_enqueue() marks the block of the buffer it has linked.
Mark(p) ==
  /\ ~locked
  /\ busy' = (busy \ At(p)) \cup {[b EXCEPT !.enqueue = TRUE] : b \in At(p)}
  /\ UNCHANGED <<areas, free, blocks, locked>>

\* queue_enqueue() frees a buffer it cannot store.
RefusedBuffer(p) == StatFree(p)
-----------------------------------------------------------------------------
\* The first queue_create().
Init ==
  /\ areas = 1 /\ free = {Area(0)} /\ busy = {} /\ blocks = 0 /\ locked = FALSE
  /\ step = [d \in Decoders |-> "idle"]
  /\ raw = [d \in Decoders |-> Null] /\ out = [d \in Decoders |-> Null]
  /\ stored = {}

\* Writing through NULL ends the process.
InProcess == \A d \in Decoders : step[d] # "crashed"

Goes(d, from, to) ==
  /\ InProcess
  /\ step[d] = from /\ step' = [step EXCEPT ![d] = to]

Sets(pointer, d, p) == pointer' = [pointer EXCEPT ![d] = p]

\* _PrepareFrame(): without memory the frame is dropped.
AllocateFrame(d) ==
  \E n \in Sizes : \E p \in {Null} \cup {f.start : f \in Pieces(n)} :
    /\ Goes(d, "idle", IF p = Null THEN "idle" ELSE "decoded")
    /\ Allocate(n, p)
    /\ Sets(raw, d, p)
    /\ UNCHANGED <<out, stored>>

\* The codec decodes into the format that is wanted.
KeepFormat(d) ==
  /\ Goes(d, "decoded", "ready")
  /\ Sets(out, d, raw[d]) /\ Sets(raw, d, Null)
  /\ UNCHANGED <<memory, stored>>

\* Or the frame is converted into a second buffer, which is not tested.
AllocateConverted(d) ==
  \E n \in Sizes : \E p \in {Null} \cup {f.start : f \in Pieces(n)} :
    /\ Goes(d, "decoded", IF p = Null THEN "crashed" ELSE "converted")
    /\ Allocate(n, p)
    /\ Sets(out, d, p)
    /\ UNCHANGED <<raw, stored>>

\* The frame before the conversion (and one faulty variant).
KeepRaw(d) ==
  /\ Goes(d, "converted", "ready")
  /\ Sets(raw, d, Null)
  /\ UNCHANGED <<memory, out, stored>>

FreeRaw(d) ==
  /\ Goes(d, "converted", "ready")
  /\ Dealloc(raw[d]) /\ Sets(raw, d, Null)
  /\ UNCHANGED <<out, stored>>

Enqueue(d) ==
  /\ Goes(d, "ready", "idle")
  /\ Mark(out[d]) /\ stored' = stored \cup {out[d]}
  /\ Sets(out, d, Null)
  /\ UNCHANGED raw

\* Nobody is registered, which is no error.
EnqueueForNobody(d) ==
  /\ Goes(d, "ready", "idle")
  /\ StatFree(out[d]) /\ Sets(out, d, Null)
  /\ UNCHANGED <<raw, stored>>

\* malloc() of the store fails; decode() then frees the buffer once more.
EnqueueFails(d) ==
  /\ Goes(d, "ready", "refused")
  /\ RefusedBuffer(out[d])
  /\ UNCHANGED <<raw, out, stored>>

FreeRefused(d) ==
  /\ Goes(d, "refused", "idle")
  /\ Dealloc(out[d]) /\ Sets(out, d, Null)
  /\ UNCHANGED <<raw, stored>>

\* queue_freeDirect(), for the last consumer of a frame or when the queue
\* is emptied.
FreeDirect ==
  /\ InProcess
  /\ \E p \in stored : StatFree(p) /\ stored' = stored \ {p}
  /\ UNCHANGED threads

Decode(d) ==
  \/ AllocateFrame(d) \/ KeepFormat(d) \/ AllocateConverted(d) \/ FreeRaw(d)
  \/ Enqueue(d) \/ EnqueueForNobody(d) \/ EnqueueFails(d) \/ FreeRefused(d)

Next == FreeDirect \/ \E d \in Decoders : Decode(d)

Spec == Init /\ [][Next]_vars
-----------------------------------------------------------------------------
Steps == {"idle", "decoded", "converted", "ready", "refused", "crashed"}

Piece == [start : Nat, size : Nat]
Block == [start : Nat, size : Nat \ {0}, enqueue : BOOLEAN]

TypeOK ==
  /\ areas \in 1..MaxAreas /\ blocks \in Int /\ locked \in BOOLEAN
  /\ free \subseteq Piece /\ busy \subseteq Block
  /\ step \in [Decoders -> Steps]
  /\ raw \in [Decoders -> Nat \cup {Null}] /\ out \in [Decoders -> Nat \cup {Null}]
  /\ stored \subseteq Nat \cup {Null}

Apart(d, e) == End(d) <= e.start \/ End(e) <= d.start

(* No two buffers share memory, and no buffer lies in a free piece: what   *)
(* one thread writes never shows in the frame of another.                  *)
BlocksApart ==
  /\ \A b, c \in busy : b # c => Apart(b, c)
  /\ \A f, g \in free : f # g => Apart(f, g)
  /\ \A b \in busy, f \in free : Apart(b, f)

(* Free pieces never touch: the coalescing of queue_statFree() looks for   *)
(* one neighbour on each side, and finds all there are.                    *)
NeverTouching == \A f, g \in free : f # g => ~TouchesLeft(f, g)

(* When no buffer is in use, every area is one free piece again: nothing   *)
(* was leaked, and a frame that fitted once fits again.                    *)
WholeAgain == busy = {} => free = {Area(i) : i \in 0..(areas - 1)}

(* The memory is in order: nothing overlaps, nothing is left in pieces,    *)
(* nothing is lost.                                                        *)
PoolTidy == BlocksApart /\ NeverTouching /\ WholeAgain

\* The blocks of memory that lie in a buffer in use.
InUse == UNION {b.start..(End(b) - 1) : b \in busy}

(* The counter, which is only ever added to and subtracted from, is the    *)
(* number of blocks that lie in buffers: what is refused, or freed twice,  *)
(* is not counted.                                                         *)
BlocksCounted == blocks = Cardinality(InUse)

Held(d) == {raw[d], IF step[d] = "refused" THEN Null ELSE out[d]} \ {Null}

(* A buffer in use belongs to one thread or to one frame of a queue, and   *)
(* is marked exactly in the second case; no other buffer is in use.        *)
OneOwner ==
  /\ {b.start : b \in busy} = stored \cup UNION {Held(d) : d \in Decoders}
  /\ \A d \in Decoders : Held(d) \cap stored = {} /\ (raw[d] = out[d] => raw[d] = Null)
  /\ \A d, e \in Decoders : d # e => Held(d) \cap Held(e) = {}
  /\ {b.start : b \in {c \in busy : c.enqueue}} = stored

(* The mutex of the memory is never left locked, although queue_dealloc()  *)
(* is called for a buffer that queue_enqueue() has freed already.          *)
NeverLocked == ~locked

(* Whatever fails on the way of a frame, its buffers have one owner and    *)
(* are freed once.                                                         *)
BuffersOwned == OneOwner /\ NeverLocked
=============================================================================
