-------------------------- MODULE FrameMemoryProofs --------------------------
(***************************************************************************)
(* Buffers never share memory and free pieces never touch, for any number  *)
(* of threads, areas and blocks, whatever the threads do with the pointers *)
(* they were given.                                                        *)
(*                                                                         *)
(* Each of the two needs the other.  Coalescing keeps pieces apart because *)
(* it finds the one neighbour on either side, and there is one because no  *)
(* two pieces touch; and an allocation leaves pieces that do not touch     *)
(* because no other piece lies where it cuts one.  Pieces fill the areas,  *)
(* so a pool in which nothing is in use is whole again; the counter is the *)
(* number of blocks in use; and with one decoder thread, as in the client, *)
(* each buffer belongs to the thread or to the queue, never to both.       *)
(***************************************************************************)
EXTENDS FrameMemory, FiniteSetTheorems, TLAPS

\* Pieces pieces and blocks bs share no memory, lie below the address top,
\* and the pieces do not touch.
Tidy(pieces, bs, top) ==
  /\ pieces \subseteq Piece /\ bs \subseteq Block
  /\ \A f, g \in pieces : f # g => Apart(f, g) /\ ~TouchesLeft(f, g)
  /\ \A b, c \in bs : b # c => Apart(b, c)
  /\ \A b \in bs, f \in pieces : Apart(b, f)
  /\ \A d \in pieces \cup bs : End(d) < top

\* The first address behind the areas there are.
Top(n) == n * (Chunks + 1)

\* Every piece and block lies in one area, and they fill the areas.
Within(ds, n) ==
  \A d \in ds : \E i \in 0..(n - 1) : Top(i) <= d.start /\ End(d) <= Top(i) + Chunks

Covers(ds, n) ==
  \A i \in 0..(n - 1) : \A a \in Top(i)..(Top(i) + Chunks - 1) :
    \E d \in ds : d.start <= a /\ a < End(d)

Fills(ds, n) == Within(ds, n) /\ Covers(ds, n)

MemoryInv ==
  /\ areas \in 1..MaxAreas /\ blocks \in Int /\ locked \in BOOLEAN
  /\ Tidy(free, busy, Top(areas)) /\ Fills(free \cup busy, areas)

ThreadsType ==
  /\ step \in [Decoders -> Steps]
  /\ raw \in [Decoders -> Nat \cup {Null}] /\ out \in [Decoders -> Nat \cup {Null}]
  /\ stored \subseteq Nat \cup {Null}

IInv == MemoryInv /\ ThreadsType
-----------------------------------------------------------------------------
\* One area after another: areas neither overlap nor touch.
LEMMA AreasInOrder ==
  ASSUME NEW i \in Nat, NEW j \in Nat, i < j
  PROVE  /\ Area(i) \in Piece /\ End(Area(i)) < Top(i + 1)
         /\ End(Area(i)) < Area(j).start /\ Top(i + 1) <= Top(j) /\ Area(j).start = Top(j)
<1>1. Chunks \in Nat
  BY MemoryBounds
<1>2. Top(j) = Top(i + 1) + (j - i - 1) * (Chunks + 1)
  BY <1>1 DEF Top
<1>3. (j - i - 1) * (Chunks + 1) >= 0
  <2>1. j - i - 1 \in Nat /\ Chunks + 1 \in Nat
    BY <1>1
  <2>2. \A a, b \in Nat : a * b \in Nat
    OBVIOUS
  <2> QED
    BY <2>1, <2>2
<1>4. Top(i) \in Nat /\ Top(j) \in Nat /\ Top(i + 1) = Top(i) + Chunks + 1
  BY <1>1 DEF Top
<1>5. /\ Area(i) = [start |-> Top(i), size |-> Chunks]
      /\ Area(j) = [start |-> Top(j), size |-> Chunks]
  BY DEF Area, Top
<1>6. End(Area(i)) = Top(i) + Chunks
  BY <1>5 DEF End
<1> QED
  BY <1>1, <1>2, <1>3, <1>4, <1>5, <1>6 DEF Piece

\* Adding areas.
LEMMA Growing ==
  ASSUME NEW k \in Nat, NEW l \in Nat, k <= l, NEW pieces, NEW bs, Tidy(pieces, bs, Top(k))
  PROVE  Tidy(pieces \cup {Area(i) : i \in k..(l - 1)}, bs, Top(l))
<1> DEFINE new == {Area(i) : i \in k..(l - 1)}
<1>1. \A i \in k..(l - 1) : i \in Nat /\ i + 1 \in Nat /\ i < i + 1
  OBVIOUS
<1>2. Top(k) \in Nat /\ Top(l) \in Nat /\ Top(k) <= Top(l)
  <2>1. CASE k = l
    BY <2>1, MemoryBounds DEF Top
  <2>2. CASE k < l
    <3>1. Area(k) \in Piece /\ End(Area(k)) < Top(k + 1) /\ Top(k + 1) <= Top(l)
      BY <2>2, AreasInOrder
    <3>2. Top(k + 1) = Top(k) + Chunks + 1 /\ Top(k) \in Nat /\ Top(l) \in Nat /\ Chunks \in Nat
      BY MemoryBounds DEF Top
    <3> QED
      BY <3>1, <3>2
  <2> QED
    BY <2>1, <2>2
<1>3. \A f \in new : f \in Piece /\ f.start >= Top(k) /\ End(f) < Top(l)
  <2> SUFFICES ASSUME NEW i \in k..(l - 1)
               PROVE  Area(i) \in Piece /\ Area(i).start >= Top(k) /\ End(Area(i)) < Top(l)
    OBVIOUS
  <2>1. i \in Nat /\ i < l /\ k <= i
    OBVIOUS
  <2>2. Area(i) \in Piece /\ End(Area(i)) < Top(i + 1) /\ Top(i + 1) <= Top(l)
    BY <2>1, AreasInOrder
  <2>3. Area(i).start = Top(i)
    BY DEF Area, Top
  <2>4. Top(i) >= Top(k)
    <3>1. CASE i = k
      BY <3>1, <1>2
    <3>2. CASE k < i
      <4>1. Top(k + 1) <= Top(i)
        BY <2>1, <3>2, AreasInOrder
      <4>2. Top(k + 1) = Top(k) + Chunks + 1 /\ Top(i) \in Nat /\ Chunks \in Nat
        BY <2>1, MemoryBounds DEF Top
      <4> QED
        BY <4>1, <4>2, <1>2
    <3> QED
      BY <2>1, <3>1, <3>2
  <2>5. End(Area(i)) \in Nat /\ Top(i + 1) \in Nat
    BY <2>1, MemoryBounds DEF Area, End, Top
  <2> QED
    BY <1>2, <2>2, <2>3, <2>4, <2>5
<1>4. \A f, g \in new : f # g => End(f) < g.start \/ End(g) < f.start
  <2> SUFFICES ASSUME NEW i \in k..(l - 1), NEW j \in k..(l - 1), Area(i) # Area(j)
               PROVE  End(Area(i)) < Area(j).start \/ End(Area(j)) < Area(i).start
    OBVIOUS
  <2>1. i < j \/ j < i
    <3>1. i # j
      OBVIOUS
    <3> QED
      BY <3>1
  <2> QED
    BY <2>1, <1>1, AreasInOrder
<1>5. \A d \in pieces \cup bs, f \in new : End(d) < f.start
  BY <1>2, <1>3 DEF Tidy, End, Piece, Block
<1> QED
  BY <1>2, <1>3, <1>4, <1>5 DEF Tidy, End, Apart, TouchesLeft, Piece, Block

\* Cutting n blocks off a free piece.
LEMMA Cutting ==
  ASSUME NEW pieces, NEW bs, NEW top \in Nat, Tidy(pieces, bs, top),
         NEW d \in pieces, NEW n \in Nat \ {0}, d.size >= n
  PROVE  Tidy((pieces \ {d}) \cup {Remainder(d, n)},
              bs \cup {[start |-> d.start, size |-> n, enqueue |-> FALSE]}, top)
<1> DEFINE r == Remainder(d, n)
           b == [start |-> d.start, size |-> n, enqueue |-> FALSE]
<1>1. /\ d \in Piece /\ d.start \in Nat /\ d.size \in Nat
      /\ r \in Piece /\ b \in Block
      /\ r.start = d.start + n /\ End(r) = End(d) /\ End(r) \in Nat
      /\ b.start = d.start /\ End(b) = d.start + n /\ End(b) <= End(d)
  BY DEF Tidy, Piece, Block, Remainder, End
<1>2. \A f \in pieces \ {d} : Apart(f, r) /\ Apart(r, f)
  BY <1>1 DEF Tidy, Apart, Piece, End
<1>3. \A f \in pieces \ {d} : ~TouchesLeft(f, r) /\ ~TouchesLeft(r, f)
  <2> SUFFICES ASSUME NEW f \in pieces \ {d} PROVE ~TouchesLeft(f, r) /\ ~TouchesLeft(r, f)
    OBVIOUS
  <2>1. f.start \in Nat /\ f.size \in Nat /\ End(f) = f.start + f.size
    BY DEF Tidy, Piece, End
  <2>2. End(f) <= d.start \/ End(d) <= f.start
    BY DEF Tidy, Apart
  <2>3. End(f) # d.start /\ End(d) # f.start
    BY DEF Tidy, TouchesLeft
  <2> QED
    BY <1>1, <2>1, <2>2, <2>3 DEF TouchesLeft
<1>4. \A f \in pieces \ {d} : Apart(b, f)
  BY <1>1 DEF Tidy, Apart, Piece, End
<1>5. \A c \in bs : Apart(c, b) /\ Apart(b, c) /\ Apart(c, r)
  BY <1>1 DEF Tidy, Apart, Block, End
<1>6. Apart(b, r) /\ End(b) < top /\ End(r) < top
  BY <1>1 DEF Tidy, Apart
<1> QED
  BY <1>1, <1>2, <1>3, <1>4, <1>5, <1>6 DEF Tidy

\* Putting a block back.
LEMMA Joining ==
  ASSUME NEW pieces, NEW bs, NEW top \in Nat, Tidy(pieces, bs, top), NEW b \in bs
  PROVE  Tidy(Merged(pieces, b), bs \ {b}, top)
<1> DEFINE left == {f \in pieces : TouchesLeft(f, b)}
           right == {f \in pieces : TouchesRight(f, b)}
           first == IF left = {} THEN b.start ELSE (CHOOSE f \in left : TRUE).start
           end == IF right = {} THEN End(b) ELSE End(CHOOSE f \in right : TRUE)
           m == [start |-> first, size |-> end - first]
           rest == pieces \ (left \cup right)
<1>1. Merged(pieces, b) = rest \cup {m}
  BY DEF Merged
<1>2. b \in Block /\ b.start \in Nat /\ End(b) \in Nat /\ b.start < End(b) /\ End(b) < top
  BY DEF Tidy, Block, End
<1>3. \A f \in pieces : f.start \in Nat /\ End(f) \in Nat /\ f.start <= End(f) /\ End(f) < top
  BY DEF Tidy, Piece, End
<1>4. \A f, g \in pieces : f # g => /\ End(f) <= g.start \/ End(g) <= f.start
                                   /\ End(f) # g.start /\ End(g) # f.start
  BY DEF Tidy, Apart, TouchesLeft
<1>5. \A f \in pieces : End(f) <= b.start \/ End(b) <= f.start
  BY DEF Tidy, Apart
<1>6. /\ first \in Nat /\ first <= b.start
      /\ left # {} => \E l \in left : first = l.start
  <2>1. CASE left = {}
    BY <2>1, <1>2
  <2>2. CASE left # {}
    <3>1. (CHOOSE f \in left : TRUE) \in left
      BY <2>2
    <3> QED
      BY <2>2, <3>1, <1>2, <1>3 DEF TouchesLeft
  <2> QED
    BY <2>1, <2>2
<1>7. /\ end \in Nat /\ End(b) <= end /\ end < top
      /\ right # {} => \E r \in right : end = End(r)
  <2>1. CASE right = {}
    BY <2>1, <1>2
  <2>2. CASE right # {}
    <3>1. (CHOOSE f \in right : TRUE) \in right
      BY <2>2
    <3> QED
      BY <2>2, <3>1, <1>2, <1>3 DEF TouchesRight
  <2> QED
    BY <2>1, <2>2
<1>8. m \in Piece /\ m.start = first /\ End(m) = end
  BY <1>2, <1>6, <1>7 DEF Piece, End
<1> HIDE DEF first, end, m
<1>9. \A f \in rest : /\ End(f) <= first \/ end <= f.start
                     /\ End(f) # first /\ end # f.start
  <2> SUFFICES ASSUME NEW f \in rest
               PROVE  /\ End(f) <= first \/ end <= f.start
                      /\ End(f) # first /\ end # f.start
    OBVIOUS
  <2>1. f.start \in Nat /\ End(f) \in Nat /\ f.start <= End(f)
    BY <1>3
  <2>2. End(f) # b.start /\ f.start # End(b)
    BY DEF TouchesLeft, TouchesRight
  <2>3. CASE End(f) <= b.start
    <3>1. End(f) <= first /\ End(f) # first
      <4>1. CASE left = {}
        BY <4>1, <2>2, <2>3 DEF first
      <4>2. CASE left # {}
        <5>1. PICK l \in left : first = l.start
          BY <4>2, <1>6
        <5>2. l \in pieces /\ l # f /\ End(l) = b.start
          BY DEF TouchesLeft
        <5>3. End(f) <= l.start \/ End(l) <= f.start
          BY <5>2, <1>4
        <5>4. End(f) # l.start /\ End(l) # f.start
          BY <5>2, <1>4
        <5> QED
          BY <5>1, <5>2, <5>3, <5>4, <2>1, <2>2, <2>3, <1>2
      <4> QED
        BY <4>1, <4>2
    <3> QED
      BY <3>1, <2>1, <1>2, <1>6, <1>7
  <2>4. CASE End(b) <= f.start
    <3>1. end <= f.start /\ end # f.start
      <4>1. CASE right = {}
        BY <4>1, <2>2, <2>4 DEF end
      <4>2. CASE right # {}
        <5>1. PICK r \in right : end = End(r)
          BY <4>2, <1>7
        <5>2. r \in pieces /\ r # f /\ r.start = End(b)
          BY DEF TouchesRight
        <5>3. End(f) <= r.start \/ End(r) <= f.start
          BY <5>2, <1>4
        <5>4. End(f) # r.start /\ End(r) # f.start
          BY <5>2, <1>4
        <5> QED
          BY <5>1, <5>2, <5>3, <5>4, <2>1, <2>2, <2>4, <1>2
      <4> QED
        BY <4>1, <4>2
    <3> QED
      BY <3>1, <2>1, <1>2, <1>6, <1>7
  <2> QED
    BY <1>5, <2>3, <2>4
<1>10. \A c \in bs \ {b} : End(c) <= first \/ end <= c.start
  <2> SUFFICES ASSUME NEW c \in bs \ {b} PROVE End(c) <= first \/ end <= c.start
    OBVIOUS
  <2>1. c.start \in Nat /\ End(c) \in Nat /\ c.start < End(c)
    BY DEF Tidy, Block, End
  <2>2. End(c) <= b.start \/ End(b) <= c.start
    BY DEF Tidy, Apart
  <2>3. \A f \in pieces : End(c) <= f.start \/ End(f) <= c.start
    BY DEF Tidy, Apart
  <2>4. CASE End(c) <= b.start
    <3>1. CASE left = {}
      BY <3>1, <2>4 DEF first
    <3>2. CASE left # {}
      <4>1. PICK l \in left : first = l.start
        BY <3>2, <1>6
      <4>2. l \in pieces /\ End(l) = b.start
        BY DEF TouchesLeft
      <4> QED
        BY <4>1, <4>2, <2>1, <2>3, <2>4, <1>2, <1>3
    <3> QED
      BY <3>1, <3>2
  <2>5. CASE End(b) <= c.start
    <3>1. CASE right = {}
      BY <3>1, <2>5 DEF end
    <3>2. CASE right # {}
      <4>1. PICK r \in right : end = End(r)
        BY <3>2, <1>7
      <4>2. r \in pieces /\ r.start = End(b)
        BY DEF TouchesRight
      <4> QED
        BY <4>1, <4>2, <2>1, <2>3, <2>5, <1>2, <1>3
    <3> QED
      BY <3>1, <3>2
  <2> QED
    BY <2>2, <2>4, <2>5
<1>11. rest \cup {m} \subseteq Piece /\ bs \ {b} \subseteq Block
  BY <1>8 DEF Tidy
<1>12. \A f, g \in rest \cup {m} : f # g => Apart(f, g) /\ ~TouchesLeft(f, g)
  <2>1. \A f, g \in rest : f # g => Apart(f, g) /\ ~TouchesLeft(f, g)
    BY DEF Tidy
  <2>2. \A f \in rest : /\ Apart(f, m) /\ Apart(m, f)
                        /\ ~TouchesLeft(f, m) /\ ~TouchesLeft(m, f)
    BY <1>8, <1>9 DEF Apart, TouchesLeft
  <2> QED
    BY <2>1, <2>2
<1>13. \A c \in bs \ {b}, f \in rest \cup {m} : Apart(c, f)
  BY <1>8, <1>10 DEF Tidy, Apart
<1>14. \A d \in rest \cup {m} \cup (bs \ {b}) : End(d) < top
  BY <1>7, <1>8 DEF Tidy
<1> QED
  BY <1>1, <1>11, <1>12, <1>13, <1>14 DEF Tidy

\* A block is told from the others by its first address.
LEMMA StartsDiffer ==
  ASSUME NEW pieces, NEW bs, NEW top, Tidy(pieces, bs, top),
         NEW b \in bs, NEW c \in bs, b.start = c.start
  PROVE  b = c
<1>1. b.start \in Nat /\ b.size \in Nat \ {0} /\ c.size \in Nat \ {0}
  BY DEF Tidy, Block
<1>2. b # c => Apart(b, c)
  BY DEF Tidy
<1> QED
  BY <1>1, <1>2 DEF Apart, End

\* Blocks may change in anything but their place.
LEMMA SamePlaces ==
  ASSUME NEW pieces, NEW bs, NEW top, Tidy(pieces, bs, top), NEW new, new \subseteq Block,
         \A c \in new : \E b \in bs : c.start = b.start /\ c.size = b.size,
         \A c, d \in new : c.start = d.start => c = d
  PROVE  Tidy(pieces, new, top)
<1>1. \A c \in new : \E b \in bs : c.start = b.start /\ End(c) = End(b)
  BY DEF End
<1>2. \A c, d \in new : c # d => Apart(c, d)
  <2> SUFFICES ASSUME NEW c \in new, NEW d \in new, c # d PROVE Apart(c, d)
    OBVIOUS
  <2>1. PICK x \in bs : c.start = x.start /\ End(c) = End(x)
    BY <1>1
  <2>2. PICK y \in bs : d.start = y.start /\ End(d) = End(y)
    BY <1>1
  <2>3. Apart(x, y)
    BY <2>1, <2>2 DEF Tidy
  <2> QED
    BY <2>1, <2>2, <2>3 DEF Apart
<1>3. \A c \in new, f \in pieces : Apart(c, f)
  BY <1>1 DEF Tidy, Apart
<1>4. \A d \in pieces \cup new : End(d) < top
  BY <1>1 DEF Tidy
<1> QED
  BY <1>2, <1>3, <1>4 DEF Tidy

\* Marking the block of an enqueued buffer.
LEMMA Marking ==
  ASSUME NEW p, NEW top, Tidy(free, busy, top)
  PROVE  Tidy(free, (busy \ At(p)) \cup {[b EXCEPT !.enqueue = TRUE] : b \in At(p)}, top)
<1> DEFINE marked == {[b EXCEPT !.enqueue = TRUE] : b \in At(p)}
           new == (busy \ At(p)) \cup marked
<1>1. \A b \in busy : b \in Block
  BY DEF Tidy
<1>2. \A b \in At(p) : b \in busy /\ b.start = p
  BY DEF At
<1>3. \A b \in At(p) : /\ [b EXCEPT !.enqueue = TRUE] \in Block
                       /\ [b EXCEPT !.enqueue = TRUE].start = b.start
                       /\ [b EXCEPT !.enqueue = TRUE].size = b.size
  BY <1>1, <1>2 DEF Block
<1>4. new \subseteq Block
  BY <1>1, <1>3
<1>5. \A c \in new : \E b \in busy : c.start = b.start /\ c.size = b.size
  BY <1>2, <1>3
<1>6. \A b, c \in At(p) : b = c
  BY <1>2, StartsDiffer
<1>7. \A c \in marked : c.start = p
  BY <1>2, <1>3
<1>8. \A c \in busy \ At(p) : c.start # p
  BY DEF At
<1>9. \A c, d \in new : c.start = d.start => c = d
  <2> SUFFICES ASSUME NEW c \in new, NEW d \in new, c.start = d.start PROVE c = d
    OBVIOUS
  <2>1. CASE c \in marked /\ d \in marked
    BY <2>1, <1>6
  <2>2. CASE c \in busy \ At(p) /\ d \in busy \ At(p)
    BY <2>2, StartsDiffer
  <2> QED
    BY <2>1, <2>2, <1>7, <1>8
<1> QED
  BY <1>4, <1>5, <1>9, SamePlaces

-----------------------------------------------------------------------------
(* The areas stay filled. *)

\* What lies in one area does not touch what lies in another.
LEMMA AreasSeparate ==
  ASSUME NEW i \in Nat, NEW j \in Nat, i < j
  PROVE  Top(i) \in Nat /\ Top(j) \in Nat /\ Top(i) + Chunks < Top(j)
<1>1. Chunks \in Nat /\ Top(i) \in Nat /\ Top(j) \in Nat
  BY MemoryBounds DEF Top
<1>2. End(Area(i)) < Area(j).start /\ Area(j).start = Top(j)
  BY AreasInOrder
<1>3. End(Area(i)) = Top(i) + Chunks
  BY DEF Area, Top, End
<1> QED
  BY <1>1, <1>2, <1>3

LEMMA GrowingFills ==
  ASSUME NEW k \in Nat, NEW l \in Nat, k <= l, NEW ds, Fills(ds, k)
  PROVE  Fills(ds \cup {Area(i) : i \in k..(l - 1)}, l)
<1>1. \A i \in Nat : Area(i).start = Top(i) /\ End(Area(i)) = Top(i) + Chunks
  BY DEF Area, Top, End
<1>2. \A i \in Nat : Top(i) \in Nat /\ Chunks \in Nat
  BY MemoryBounds DEF Top
<1>3. Within(ds \cup {Area(i) : i \in k..(l - 1)}, l)
  <2>1. ASSUME NEW i \in k..(l - 1)
        PROVE  i \in 0..(l - 1) /\ Top(i) <= Area(i).start /\ End(Area(i)) <= Top(i) + Chunks
    <3>1. i \in Nat /\ i \in 0..(l - 1)
      OBVIOUS
    <3> QED
      BY <1>1, <1>2, <3>1
  <2>2. \A i \in 0..(k - 1) : i \in 0..(l - 1)
    OBVIOUS
  <2> QED
    BY <2>1, <2>2 DEF Fills, Within
<1>4. Covers(ds \cup {Area(i) : i \in k..(l - 1)}, l)
  <2> SUFFICES ASSUME NEW i \in 0..(l - 1), NEW a \in Top(i)..(Top(i) + Chunks - 1)
               PROVE  \E d \in ds \cup {Area(j) : j \in k..(l - 1)} : d.start <= a /\ a < End(d)
    BY DEF Covers
  <2>1. CASE i < k
    BY <2>1 DEF Fills, Covers
  <2>2. CASE k <= i
    <3>1. i \in Nat /\ i \in k..(l - 1) /\ a \in Int
      BY <2>2
    <3>2. Area(i).start <= a /\ a < End(Area(i))
      BY <1>1, <1>2, <3>1
    <3> QED
      BY <3>1, <3>2
  <2> QED
    BY <2>1, <2>2
<1> QED
  BY <1>3, <1>4 DEF Fills

\* Pieces and blocks may be exchanged for others that lie in them and fill them.
LEMMA Exchanging ==
  ASSUME NEW ds, NEW es, NEW n \in Nat, Fills(ds, n),
         \A e \in es : \E i \in 0..(n - 1) : Top(i) <= e.start /\ End(e) <= Top(i) + Chunks,
         \A d \in ds : \A a \in Int : d.start <= a /\ a < End(d)
           => \E e \in es : e.start <= a /\ a < End(e)
  PROVE  Fills(es, n)
<1>1. Within(es, n)
  BY DEF Within
<1>2. ASSUME NEW i \in 0..(n - 1), NEW a \in Top(i)..(Top(i) + Chunks - 1)
      PROVE  \E e \in es : e.start <= a /\ a < End(e)
  <2>1. PICK d \in ds : d.start <= a /\ a < End(d)
    BY DEF Fills, Covers
  <2> QED
    BY <2>1
<1> QED
  BY <1>1, <1>2 DEF Fills, Covers

LEMMA CuttingFills ==
  ASSUME NEW pieces, NEW bs, NEW top \in Nat, Tidy(pieces, bs, top), NEW k \in Nat,
         Fills(pieces \cup bs, k), NEW d \in pieces, NEW n \in Nat \ {0}, d.size >= n
  PROVE  Fills(((pieces \ {d}) \cup {Remainder(d, n)})
                 \cup (bs \cup {[start |-> d.start, size |-> n, enqueue |-> FALSE]}), k)
<1> DEFINE r == Remainder(d, n)
           b == [start |-> d.start, size |-> n, enqueue |-> FALSE]
           es == ((pieces \ {d}) \cup {r}) \cup (bs \cup {b})
<1>1. /\ d.start \in Nat /\ d.size \in Nat /\ End(d) = d.start + d.size
      /\ r.start = d.start + n /\ End(r) = End(d)
      /\ b.start = d.start /\ End(b) = d.start + n
  BY DEF Tidy, Piece, Remainder, End
<1>2. PICK i \in 0..(k - 1) : Top(i) <= d.start /\ End(d) <= Top(i) + Chunks
  BY DEF Fills, Within
<1>3. Top(i) \in Nat /\ Chunks \in Nat
  BY MemoryBounds DEF Top
<1>4. /\ Top(i) <= r.start /\ End(r) <= Top(i) + Chunks
      /\ Top(i) <= b.start /\ End(b) <= Top(i) + Chunks
  BY <1>1, <1>2, <1>3
<1>5. \A e \in es : \E j \in 0..(k - 1) : Top(j) <= e.start /\ End(e) <= Top(j) + Chunks
  BY <1>4 DEF Fills, Within
<1>6. \A a \in Int : d.start <= a /\ a < End(d)
        => (b.start <= a /\ a < End(b)) \/ (r.start <= a /\ a < End(r))
  BY <1>1
<1>7. \A x \in pieces \cup bs : \A a \in Int : x.start <= a /\ a < End(x)
        => \E e \in es : e.start <= a /\ a < End(e)
  BY <1>6
<1> HIDE DEF es
<1>8. Fills(es, k)
  BY <1>5, <1>7, Exchanging
<1> QED
  BY <1>8 DEF es

\* The piece that joins a block to its neighbours reaches from the one to the other.
LEMMA MergedReaches ==
  ASSUME NEW pieces, NEW bs, NEW top \in Nat, Tidy(pieces, bs, top), NEW b \in bs
  PROVE  \E m :
           /\ Merged(pieces, b) =
                {f \in pieces : ~TouchesLeft(f, b) /\ ~TouchesRight(f, b)} \cup {m}
           /\ m.start \in Nat /\ End(m) \in Nat
           /\ m.start <= b.start /\ End(b) <= End(m)
           /\ m.start = b.start \/ \E l \in pieces : TouchesLeft(l, b) /\ m.start = l.start
           /\ End(m) = End(b) \/ \E r \in pieces : TouchesRight(r, b) /\ End(m) = End(r)
           /\ \A f \in pieces : TouchesLeft(f, b) \/ TouchesRight(f, b)
                => m.start <= f.start /\ End(f) <= End(m)
<1> DEFINE left == {f \in pieces : TouchesLeft(f, b)}
           right == {f \in pieces : TouchesRight(f, b)}
           first == IF left = {} THEN b.start ELSE (CHOOSE f \in left : TRUE).start
           end == IF right = {} THEN End(b) ELSE End(CHOOSE f \in right : TRUE)
           m == [start |-> first, size |-> end - first]
<1>1. Merged(pieces, b) = {f \in pieces : ~TouchesLeft(f, b) /\ ~TouchesRight(f, b)} \cup {m}
  <2>1. pieces \ (left \cup right) = {f \in pieces : ~TouchesLeft(f, b) /\ ~TouchesRight(f, b)}
    OBVIOUS
  <2> QED
    BY <2>1 DEF Merged
<1>2. b.start \in Nat /\ End(b) \in Nat /\ b.start < End(b)
  BY DEF Tidy, Block, End
<1>3. \A f \in pieces : f.start \in Nat /\ End(f) \in Nat /\ f.start <= End(f)
  BY DEF Tidy, Piece, End
<1>4. \A f, g \in pieces : f # g => /\ End(f) <= g.start \/ End(g) <= f.start
                                   /\ End(f) # g.start /\ End(g) # f.start
  BY DEF Tidy, Apart, TouchesLeft
<1>5. \A f, g \in left : f = g
  BY <1>3, <1>4 DEF TouchesLeft
<1>6. \A f, g \in right : f = g
  BY <1>3, <1>4 DEF TouchesRight
<1>7. /\ first \in Nat /\ first <= b.start
      /\ left = {} => first = b.start
      /\ \A f \in left : first = f.start
  <2>1. CASE left = {}
    BY <2>1, <1>2
  <2>2. CASE left # {}
    <3>1. (CHOOSE f \in left : TRUE) \in left
      BY <2>2
    <3>2. \A f \in left : first = f.start
      BY <2>2, <3>1, <1>5
    <3> QED
      BY <2>2, <3>1, <3>2, <1>2, <1>3 DEF TouchesLeft
  <2> QED
    BY <2>1, <2>2
<1>8. /\ end \in Nat /\ End(b) <= end
      /\ right = {} => end = End(b)
      /\ \A f \in right : end = End(f)
  <2>1. CASE right = {}
    BY <2>1, <1>2
  <2>2. CASE right # {}
    <3>1. (CHOOSE f \in right : TRUE) \in right
      BY <2>2
    <3>2. \A f \in right : end = End(f)
      BY <2>2, <3>1, <1>6
    <3> QED
      BY <2>2, <3>1, <3>2, <1>2, <1>3 DEF TouchesRight
  <2> QED
    BY <2>1, <2>2
<1>9. m.start = first /\ End(m) = end
  BY <1>7, <1>8 DEF End
<1> HIDE DEF first, end, m
<1>10. m.start = b.start \/ \E l \in pieces : TouchesLeft(l, b) /\ m.start = l.start
  BY <1>7, <1>9
<1>11. End(m) = End(b) \/ \E r \in pieces : TouchesRight(r, b) /\ End(m) = End(r)
  BY <1>8, <1>9
<1>12. ASSUME NEW f \in pieces, TouchesLeft(f, b) PROVE m.start <= f.start /\ End(f) <= End(m)
  <2>1. first = f.start /\ End(f) = b.start /\ f.start \in Nat
    BY <1>3, <1>7, <1>12 DEF TouchesLeft
  <2> QED
    BY <2>1, <1>2, <1>8, <1>9
<1>13. ASSUME NEW f \in pieces, TouchesRight(f, b) PROVE m.start <= f.start /\ End(f) <= End(m)
  <2>1. end = End(f) /\ f.start = End(b) /\ End(f) \in Nat
    BY <1>3, <1>8, <1>13 DEF TouchesRight
  <2> QED
    BY <2>1, <1>2, <1>7, <1>9
<1> QED
  BY <1>1, <1>7, <1>8, <1>9, <1>10, <1>11, <1>12, <1>13

LEMMA JoiningFills ==
  ASSUME NEW pieces, NEW bs, NEW top \in Nat, Tidy(pieces, bs, top), NEW b \in bs,
         NEW k \in Nat, Fills(pieces \cup bs, k)
  PROVE  Fills(Merged(pieces, b) \cup (bs \ {b}), k)
<1> DEFINE rest == {f \in pieces : ~TouchesLeft(f, b) /\ ~TouchesRight(f, b)}
           es == Merged(pieces, b) \cup (bs \ {b})
<1>1. PICK m :
        /\ Merged(pieces, b) = rest \cup {m}
        /\ m.start \in Nat /\ End(m) \in Nat
        /\ m.start <= b.start /\ End(b) <= End(m)
        /\ m.start = b.start \/ \E l \in pieces : TouchesLeft(l, b) /\ m.start = l.start
        /\ End(m) = End(b) \/ \E r \in pieces : TouchesRight(r, b) /\ End(m) = End(r)
        /\ \A f \in pieces : TouchesLeft(f, b) \/ TouchesRight(f, b)
             => m.start <= f.start /\ End(f) <= End(m)
  BY MergedReaches
<1>2. PICK i \in 0..(k - 1) : Top(i) <= b.start /\ End(b) <= Top(i) + Chunks
  BY DEF Fills, Within
<1>3. b.start \in Nat /\ End(b) \in Nat /\ b.start < End(b)
  BY DEF Tidy, Block, End
<1>4. \A f \in pieces : f.start \in Nat /\ End(f) \in Nat /\ f.start <= End(f)
  BY DEF Tidy, Piece, End
<1>5. Chunks \in Nat /\ \A j \in Nat : Top(j) \in Nat
  BY MemoryBounds DEF Top
<1>6. ASSUME NEW f \in pieces, TouchesLeft(f, b) \/ TouchesRight(f, b)
      PROVE  Top(i) <= f.start /\ End(f) <= Top(i) + Chunks
  <2>1. PICK j \in 0..(k - 1) : Top(j) <= f.start /\ End(f) <= Top(j) + Chunks
    BY DEF Fills, Within
  <2>2. End(f) = b.start \/ f.start = End(b)
    BY <1>6 DEF TouchesLeft, TouchesRight
  <2>3. i \in Nat /\ j \in Nat /\ Top(i) \in Nat /\ Top(j) \in Nat
    BY <1>5
  <2>4. ~(i < j)
    BY <2>1, <2>2, <2>3, <1>2, <1>3, <1>4, <1>5, AreasSeparate
  <2>5. ~(j < i)
    BY <2>1, <2>2, <2>3, <1>2, <1>3, <1>4, <1>5, AreasSeparate
  <2>6. i = j
    BY <2>3, <2>4, <2>5
  <2> QED
    BY <2>1, <2>6
<1>7. Top(i) <= m.start /\ End(m) <= Top(i) + Chunks
  BY <1>1, <1>2, <1>6
<1>8. \A e \in es : \E j \in 0..(k - 1) : Top(j) <= e.start /\ End(e) <= Top(j) + Chunks
  BY <1>1, <1>7 DEF Fills, Within
<1>9. ASSUME NEW x \in pieces \cup bs, NEW a \in Int, x.start <= a, a < End(x)
      PROVE  \E e \in es : e.start <= a /\ a < End(e)
  <2>1. CASE x \in es
    BY <2>1, <1>9
  <2>2. CASE x \notin es
    <3>1. x = b \/ (x \in pieces /\ (TouchesLeft(x, b) \/ TouchesRight(x, b)))
      BY <2>2, <1>1
    <3>2. /\ m.start <= x.start /\ End(x) <= End(m)
          /\ x.start \in Nat /\ End(x) \in Nat
      BY <3>1, <1>1, <1>3, <1>4
    <3>3. m.start <= a /\ a < End(m)
      BY <3>2, <1>1, <1>9
    <3> QED
      BY <3>3, <1>1
  <2> QED
    BY <2>1, <2>2
<1> HIDE DEF es
<1>10. Fills(es, k)
  BY <1>8, <1>9, Exchanging
<1> QED
  BY <1>10 DEF es

\* The mark does not move a block.
LEMMA MarkingFills ==
  ASSUME NEW p, NEW k \in Nat, busy \subseteq Block, Fills(free \cup busy, k)
  PROVE  Fills(free \cup ((busy \ At(p)) \cup {[b EXCEPT !.enqueue = TRUE] : b \in At(p)}), k)
<1> DEFINE marked == {[b EXCEPT !.enqueue = TRUE] : b \in At(p)}
           es == free \cup ((busy \ At(p)) \cup marked)
<1>1. ASSUME NEW b \in At(p)
      PROVE  /\ [b EXCEPT !.enqueue = TRUE].start = b.start
             /\ End([b EXCEPT !.enqueue = TRUE]) = End(b) /\ b \in busy
  BY DEF At, Block, End
<1>2. \A e \in es : \E d \in free \cup busy : e.start = d.start /\ End(e) = End(d)
  BY <1>1
<1>3. \A d \in free \cup busy : \E e \in es : e.start = d.start /\ End(e) = End(d)
  BY <1>1
<1> HIDE DEF es
<1>4. \A e \in es : \E i \in 0..(k - 1) : Top(i) <= e.start /\ End(e) <= Top(i) + Chunks
  BY <1>2 DEF Fills, Within
<1>5. \A d \in free \cup busy : \A a \in Int : d.start <= a /\ a < End(d)
        => \E e \in es : e.start <= a /\ a < End(e)
  BY <1>3
<1>6. Fills(es, k)
  BY <1>4, <1>5, Exchanging
<1> QED
  BY <1>6 DEF es

-----------------------------------------------------------------------------
\* The four functions on the memory.
LEMMA AllocateInv ==
  ASSUME MemoryInv, NEW n \in Sizes, NEW p, Allocate(n, p)
  PROVE  MemoryInv' /\ p \in Nat \cup {Null}
<1>1. n \in Nat \ {0} /\ MaxAreas \in Nat /\ areas \in Nat
  BY MemoryBounds DEF MemoryInv
<1>2. Grown(n) \in areas..MaxAreas /\ Grown(n) \in Nat
  BY <1>1 DEF MemoryInv, Grown
<1>3. Tidy(Pieces(n), busy, Top(Grown(n)))
  BY <1>1, <1>2, Growing DEF MemoryInv, Pieces
<1>4. Top(Grown(n)) \in Nat /\ Fills(Pieces(n) \cup busy, Grown(n))
  <2>1. Fills((free \cup busy) \cup {Area(i) : i \in areas..(Grown(n) - 1)}, Grown(n))
    BY <1>1, <1>2, GrowingFills DEF MemoryInv
  <2>2. Pieces(n) \cup busy = (free \cup busy) \cup {Area(i) : i \in areas..(Grown(n) - 1)}
    BY DEF Pieces
  <2>3. Fills(Pieces(n) \cup busy, Grown(n))
    BY <2>1, <2>2, Zenon
  <2> QED
    BY <1>2, <2>3, MemoryBounds DEF Top
<1>5. areas' = Grown(n) /\ locked' = locked
  BY DEF Allocate
<1>6. areas' \in 1..MaxAreas /\ locked' \in BOOLEAN
  BY <1>1, <1>2, <1>5 DEF MemoryInv
<1>7. CASE p = Null /\ free' = Pieces(n) /\ UNCHANGED <<busy, blocks>>
  BY <1>3, <1>4, <1>5, <1>6, <1>7 DEF MemoryInv
<1>8. ASSUME NEW d \in Pieces(n), d.size >= n, p = d.start,
             free' = (Pieces(n) \ {d}) \cup {Remainder(d, n)},
             busy' = busy \cup {[start |-> p, size |-> n, enqueue |-> FALSE]},
             blocks' = blocks + n
      PROVE  MemoryInv' /\ p \in Nat \cup {Null}
  <2>1. Tidy(free', busy', Top(areas'))
    BY <1>1, <1>3, <1>4, <1>5, <1>8, Cutting
  <2>4. Fills(free' \cup busy', areas')
    BY <1>1, <1>2, <1>3, <1>4, <1>5, <1>8, CuttingFills
  <2>2. blocks' \in Int
    BY <1>1, <1>8 DEF MemoryInv
  <2>3. p \in Nat
    BY <1>3, <1>8 DEF Tidy, Piece
  <2> QED
    BY <1>6, <2>1, <2>2, <2>3, <2>4 DEF MemoryInv
<1> QED
  BY <1>7, <1>8 DEF Allocate

LEMMA ReleaseInv ==
  ASSUME MemoryInv, NEW b \in busy, Release(b)
  PROVE  MemoryInv'
<1>1. Top(areas) \in Nat
  BY MemoryBounds DEF MemoryInv, Top
<1>2. Tidy(free', busy', Top(areas'))
  BY <1>1, Joining DEF MemoryInv, Release
<1>3. b.size \in Int
  BY DEF MemoryInv, Tidy, Block
<1>4. Fills(free' \cup busy', areas')
  BY <1>1, JoiningFills DEF MemoryInv, Release
<1> QED
  BY <1>2, <1>3, <1>4 DEF MemoryInv, Release, BlocksLess

LEMMA StatFreeInv ==
  ASSUME MemoryInv, NEW p, StatFree(p)
  PROVE  MemoryInv'
<1>1. CASE UNCHANGED memory
  BY <1>1 DEF memory, MemoryInv
<1>2. CASE \E b \in At(p) : Release(b)
  BY <1>2, ReleaseInv DEF At
<1> QED
  BY <1>1, <1>2 DEF StatFree

LEMMA DeallocInv ==
  ASSUME MemoryInv, NEW p, Dealloc(p)
  PROVE  MemoryInv'
<1>1. CASE locked' = TRUE /\ UNCHANGED <<areas, free, busy, blocks>>
  BY <1>1 DEF MemoryInv
<1>2. CASE StatFree(p)
  BY <1>2, StatFreeInv
<1> QED
  BY <1>1, <1>2 DEF Dealloc

LEMMA MarkInv ==
  ASSUME MemoryInv, NEW p, Mark(p)
  PROVE  MemoryInv'
<1>1. Tidy(free', busy', Top(areas'))
  BY Marking DEF MemoryInv, Mark
<1>2. Fills(free' \cup busy', areas')
  <2>1. areas \in Nat /\ busy \subseteq Block /\ Fills(free \cup busy, areas)
    BY MemoryBounds DEF MemoryInv, Tidy
  <2>2. Fills(free \cup ((busy \ At(p)) \cup {[b EXCEPT !.enqueue = TRUE] : b \in At(p)}), areas)
    BY <2>1, MarkingFills
  <2> QED
    BY <2>2 DEF Mark
<1> QED
  BY <1>1, <1>2 DEF MemoryInv, Mark

LEMMA InitInv == Init => IInv
<1> SUFFICES ASSUME Init PROVE IInv
  OBVIOUS
<1>1. Area(0) \in Piece /\ End(Area(0)) < Top(1)
  BY AreasInOrder
<1>2. Tidy(free, busy, Top(areas))
  BY <1>1 DEF Init, Tidy
<1>6. Fills(free \cup busy, areas)
  <2>1. Fills({}, 0)
    BY DEF Fills, Within, Covers
  <2>2. Fills({} \cup {Area(i) : i \in 0..(1 - 1)}, 1)
    BY <2>1, GrowingFills
  <2>3. {} \cup {Area(i) : i \in 0..(1 - 1)} = free \cup busy /\ areas = 1
    BY DEF Init
  <2> QED
    BY <2>2, <2>3
<1>3. MemoryInv
  <2>1. areas = 1 /\ blocks = 0
    BY DEF Init
  <2>2. MaxAreas \in Nat \ {0}
    BY MemoryBounds
  <2>3. areas \in 1..MaxAreas /\ blocks \in Int
    BY <2>1, <2>2
  <2>4. locked \in BOOLEAN
    BY Zenon DEF Init
  <2> QED
    BY <1>2, <1>6, <2>3, <2>4 DEF MemoryInv
<1>4. ThreadsType
  BY DEF Init, ThreadsType, Steps
<1> QED
  BY <1>3, <1>4 DEF IInv

LEMMA StepInv == IInv /\ [Next]_vars => IInv'
<1> SUFFICES ASSUME IInv, [Next]_vars PROVE IInv'
  OBVIOUS
<1> USE DEF IInv
<1>1. ASSUME NEW d \in Decoders, AllocateFrame(d) PROVE IInv'
  <2>0. PICK n \in Sizes : \E p \in {Null} \cup {f.start : f \in Pieces(n)} :
          /\ Goes(d, "idle", IF p = Null THEN "idle" ELSE "decoded")
          /\ Allocate(n, p) /\ Sets(raw, d, p) /\ UNCHANGED <<out, stored>>
    BY <1>1 DEF AllocateFrame
  <2>1. PICK p \in {Null} \cup {f.start : f \in Pieces(n)} :
          /\ Goes(d, "idle", IF p = Null THEN "idle" ELSE "decoded")
          /\ Allocate(n, p) /\ Sets(raw, d, p) /\ UNCHANGED <<out, stored>>
    BY <2>0
  <2>2. MemoryInv' /\ p \in Nat \cup {Null}
    BY <2>1, AllocateInv
  <2>3. ThreadsType'
    BY <2>1, <2>2 DEF ThreadsType, Steps, Goes, Sets
  <2> QED
    BY <2>2, <2>3
<1>2. ASSUME NEW d \in Decoders, KeepFormat(d) PROVE IInv'
  <2>1. ThreadsType'
    BY <1>2 DEF KeepFormat, ThreadsType, Steps, Goes, Sets
  <2> QED
    BY <1>2, <2>1 DEF KeepFormat, memory, MemoryInv
<1>3. ASSUME NEW d \in Decoders, AllocateConverted(d) PROVE IInv'
  <2>0. PICK n \in Sizes : \E p \in {Null} \cup {f.start : f \in Pieces(n)} :
          /\ Goes(d, "decoded", IF p = Null THEN "crashed" ELSE "converted")
          /\ Allocate(n, p) /\ Sets(out, d, p) /\ UNCHANGED <<raw, stored>>
    BY <1>3 DEF AllocateConverted
  <2>1. PICK p \in {Null} \cup {f.start : f \in Pieces(n)} :
          /\ Goes(d, "decoded", IF p = Null THEN "crashed" ELSE "converted")
          /\ Allocate(n, p) /\ Sets(out, d, p) /\ UNCHANGED <<raw, stored>>
    BY <2>0
  <2>2. MemoryInv' /\ p \in Nat \cup {Null}
    BY <2>1, AllocateInv
  <2>3. ThreadsType'
    BY <2>1, <2>2 DEF ThreadsType, Steps, Goes, Sets
  <2> QED
    BY <2>2, <2>3
<1>4. ASSUME NEW d \in Decoders, FreeRaw(d) PROVE IInv'
  <2>1. ThreadsType'
    BY <1>4 DEF FreeRaw, ThreadsType, Steps, Goes, Sets
  <2> QED
    BY <1>4, <2>1, DeallocInv DEF FreeRaw
<1>5. ASSUME NEW d \in Decoders, Enqueue(d) PROVE IInv'
  <2>1. ThreadsType'
    BY <1>5 DEF Enqueue, ThreadsType, Steps, Goes, Sets
  <2> QED
    BY <1>5, <2>1, MarkInv DEF Enqueue
<1>6. ASSUME NEW d \in Decoders, EnqueueForNobody(d) PROVE IInv'
  <2>1. ThreadsType'
    BY <1>6 DEF EnqueueForNobody, ThreadsType, Steps, Goes, Sets
  <2> QED
    BY <1>6, <2>1, StatFreeInv DEF EnqueueForNobody
<1>7. ASSUME NEW d \in Decoders, EnqueueFails(d) PROVE IInv'
  <2>1. ThreadsType'
    BY <1>7 DEF EnqueueFails, ThreadsType, Steps, Goes
  <2> QED
    BY <1>7, <2>1, StatFreeInv DEF EnqueueFails, RefusedBuffer
<1>8. ASSUME NEW d \in Decoders, FreeRefused(d) PROVE IInv'
  <2>1. ThreadsType'
    BY <1>8 DEF FreeRefused, ThreadsType, Steps, Goes, Sets
  <2> QED
    BY <1>8, <2>1, DeallocInv DEF FreeRefused
<1>9. CASE FreeDirect
  <2>1. ThreadsType'
    BY <1>9 DEF FreeDirect, ThreadsType, threads
  <2> QED
    BY <1>9, <2>1, StatFreeInv DEF FreeDirect
<1>10. CASE UNCHANGED vars
  BY <1>10 DEF vars, memory, threads, MemoryInv, ThreadsType
<1> QED
  BY <1>1, <1>2, <1>3, <1>4, <1>5, <1>6, <1>7, <1>8, <1>9, <1>10 DEF Next, Decode

(* The inductive invariant: pieces and blocks lie side by side in the      *)
(* areas there are, and free pieces have been joined.                      *)
THEOREM MemoryInvariance == Spec => []IInv
<1>1. Init => IInv
  BY InitInv
<1>2. IInv /\ [Next]_vars => IInv'
  BY StepInv
<1> QED
  BY <1>1, <1>2, PTL DEF Spec

(* Every variable keeps its type; no piece has a negative size.            *)
THEOREM MemoryTypeCorrect == Spec => []TypeOK
<1>1. IInv => TypeOK
  BY DEF IInv, MemoryInv, ThreadsType, Tidy, TypeOK
<1> QED
  BY <1>1, MemoryInvariance, PTL

\* With nothing in use the pieces fill the areas, and as they do not touch each
\* one is an area.
LEMMA EmptyIsWhole ==
  ASSUME MemoryInv
  PROVE  WholeAgain
<1> SUFFICES ASSUME busy = {} PROVE free = {Area(i) : i \in 0..(areas - 1)}
  BY DEF WholeAgain
<1>1. areas \in Nat /\ Chunks \in Nat \ {0} /\ \A i \in Nat : Top(i) \in Nat
  BY MemoryBounds DEF MemoryInv, Top
<1>2. /\ \A f \in free : \E i \in 0..(areas - 1) : Top(i) <= f.start /\ End(f) <= Top(i) + Chunks
      /\ \A i \in 0..(areas - 1) : \A a \in Top(i)..(Top(i) + Chunks - 1) :
           \E f \in free : f.start <= a /\ a < End(f)
  BY DEF MemoryInv, Fills, Within, Covers
<1>3. \A f \in free : /\ f \in Piece /\ f.start \in Nat /\ f.size \in Nat
                      /\ End(f) = f.start + f.size
  BY DEF MemoryInv, Tidy, Piece, End
<1>4. \A f, g \in free : f # g => /\ End(f) <= g.start \/ End(g) <= f.start
                                 /\ End(f) # g.start /\ End(g) # f.start
  BY DEF MemoryInv, Tidy, Apart, TouchesLeft
<1>5. \A i \in Nat : Area(i) \in Piece /\ Area(i).start = Top(i) /\ End(Area(i)) = Top(i) + Chunks
  BY <1>1 DEF Area, Top, End, Piece
<1>6. ASSUME NEW i \in 0..(areas - 1) PROVE Area(i) \in free
  <2>1. i \in Nat /\ Top(i) \in Nat /\ Top(i) \in Top(i)..(Top(i) + Chunks - 1)
    BY <1>1
  <2>2. PICK f \in free : f.start <= Top(i) /\ Top(i) < End(f)
    BY <1>2, <2>1
  <2>3. f.start = Top(i) /\ End(f) <= Top(i) + Chunks
    <3>1. PICK j \in 0..(areas - 1) : Top(j) <= f.start /\ End(f) <= Top(j) + Chunks
      BY <1>2
    <3>2. j \in Nat /\ Top(j) \in Nat /\ f.start \in Nat /\ End(f) \in Nat
      BY <1>1, <1>3
    <3>3. ~(i < j) /\ ~(j < i)
      BY <1>1, <2>1, <2>2, <3>1, <3>2, AreasSeparate
    <3>4. i = j
      BY <2>1, <3>2, <3>3
    <3> QED
      BY <2>1, <2>2, <3>1, <3>2, <3>4
  <2>4. End(f) = Top(i) + Chunks
    <3>1. SUFFICES ASSUME End(f) # Top(i) + Chunks PROVE FALSE
      OBVIOUS
    <3>2. End(f) \in Top(i)..(Top(i) + Chunks - 1)
      BY <1>1, <1>3, <2>1, <2>2, <2>3, <3>1
    <3>3. PICK g \in free : g.start <= End(f) /\ End(f) < End(g)
      BY <1>2, <3>2
    <3>4. g.start \in Nat /\ End(g) \in Nat /\ f.start \in Nat /\ End(f) \in Nat /\ f.start < End(f)
      BY <1>3, <2>1, <2>2, <2>3
    <3> QED
      BY <1>4, <3>3, <3>4
  <2>5. f.size = Chunks
    BY <1>1, <1>3, <2>1, <2>3, <2>4
  <2>6. f = Area(i)
    BY <1>3, <2>3, <2>5 DEF Piece, Area, Top
  <2> QED
    BY <2>6
<1>7. ASSUME NEW f \in free PROVE \E i \in 0..(areas - 1) : f = Area(i)
  <2>1. PICK i \in 0..(areas - 1) : Top(i) <= f.start /\ End(f) <= Top(i) + Chunks
    BY <1>2
  <2>2. i \in Nat /\ Top(i) \in Nat /\ Area(i) \in free
    BY <1>1, <1>6
  <2>3. Area(i).start = Top(i) /\ End(Area(i)) = Top(i) + Chunks
    BY <1>5, <2>2
  <2>4. f.start \in Nat /\ End(f) \in Nat /\ f.start <= End(f)
    BY <1>3
  <2>5. f = Area(i)
    BY <1>1, <1>4, <2>1, <2>2, <2>3, <2>4
  <2> QED
    BY <2>5
<1> QED
  BY <1>6, <1>7

(* Buffers and free pieces never share memory, whatever the threads pass to *)
(* queue_dealloc(); the free list never holds two pieces that could be one; *)
(* and when every buffer is back, so is every area.                         *)
THEOREM PoolStaysTidy == Spec => []PoolTidy
<1>1. IInv => PoolTidy
  <2>1. IInv => BlocksApart /\ NeverTouching
    BY DEF IInv, MemoryInv, Tidy, BlocksApart, NeverTouching
  <2>2. IInv => WholeAgain
    BY EmptyIsWhole DEF IInv
  <2> QED
    BY <2>1, <2>2 DEF PoolTidy
<1> QED
  BY <1>1, MemoryInvariance, PTL
-----------------------------------------------------------------------------
(* Who owns the buffers, when one thread decodes: what each call does to    *)
(* the first addresses of the blocks in use, and of those in queues.        *)

Starts(bs) == {b.start : b \in bs}
Marked(bs) == {b.start : b \in {c \in bs : c.enqueue}}

LEMMA AllocateOwns ==
  ASSUME MemoryInv, NEW n \in Sizes, NEW p, Allocate(n, p)
  PROVE  /\ locked' = locked
         /\ \/ p = Null /\ busy' = busy
            \/ /\ p \in Nat /\ p \notin Starts(busy)
               /\ Starts(busy') = Starts(busy) \cup {p} /\ Marked(busy') = Marked(busy)
<1>1. n \in Nat \ {0} /\ MaxAreas \in Nat /\ areas \in Nat
  BY MemoryBounds DEF MemoryInv
<1>2. Grown(n) \in areas..MaxAreas /\ Grown(n) \in Nat
  BY <1>1 DEF MemoryInv, Grown
<1>3. Tidy(Pieces(n), busy, Top(Grown(n)))
  BY <1>1, <1>2, Growing DEF MemoryInv, Pieces
<1>4. locked' = locked
  BY DEF Allocate
<1>5. ASSUME NEW d \in Pieces(n), d.size >= n, p = d.start,
             busy' = busy \cup {[start |-> p, size |-> n, enqueue |-> FALSE]}
      PROVE  /\ p \in Nat /\ p \notin Starts(busy)
             /\ Starts(busy') = Starts(busy) \cup {p} /\ Marked(busy') = Marked(busy)
  <2>1. d.start \in Nat /\ d.size \in Nat \ {0} /\ End(d) = d.start + d.size
    BY <1>1, <1>3, <1>5 DEF Tidy, Piece, End
  <2>2. ASSUME NEW b \in busy PROVE b.start # p
    <3>1. b.start \in Nat /\ b.size \in Nat \ {0} /\ End(b) = b.start + b.size
      BY <1>3 DEF Tidy, Block, End
    <3>2. End(b) <= d.start \/ End(d) <= b.start
      BY <1>3 DEF Tidy, Apart
    <3> QED
      BY <1>5, <2>1, <3>1, <3>2
  <2>3. Starts(busy') = Starts(busy) \cup {p}
    <3> DEFINE c == [start |-> p, size |-> n, enqueue |-> FALSE]
    <3>1. busy' = busy \cup {c} /\ c.start = p
      BY <1>5
    <3> HIDE DEF c
    <3> QED
      BY <3>1 DEF Starts
  <2>4. Marked(busy') = Marked(busy)
    <3>1. {c \in busy' : c.enqueue} = {c \in busy : c.enqueue}
      BY <1>5
    <3> QED
      BY <3>1 DEF Marked
  <2> QED
    BY <1>5, <2>1, <2>2, <2>3, <2>4 DEF Starts
<1> QED
  BY <1>4, <1>5 DEF Allocate

LEMMA StatFreeOwns ==
  ASSUME MemoryInv, NEW p, StatFree(p)
  PROVE  /\ locked' = locked
         /\ Starts(busy') = Starts(busy) \ {p} /\ Marked(busy') = Marked(busy) \ {p}
<1>1. CASE At(p) = {}
  <2>1. busy' = busy /\ locked' = locked /\ \A b \in busy : b.start # p
    BY <1>1 DEF StatFree, memory, At
  <2> QED
    BY <2>1 DEF Starts, Marked
<1>2. ASSUME NEW b \in At(p), Release(b)
      PROVE  /\ locked' = locked
             /\ Starts(busy') = Starts(busy) \ {p} /\ Marked(busy') = Marked(busy) \ {p}
  <2>1. b \in busy /\ b.start = p /\ busy' = busy \ {b} /\ locked' = locked
    BY <1>2 DEF At, Release
  <2>2. \A c \in busy : c.start = p => c = b
    BY <2>1, StartsDiffer DEF MemoryInv
  <2> QED
    BY <2>1, <2>2 DEF Starts, Marked
<1> QED
  BY <1>1, <1>2 DEF StatFree

LEMMA DeallocOwns ==
  ASSUME MemoryInv, NEW p, p \notin Marked(busy), Dealloc(p)
  PROVE  /\ locked' = locked
         /\ Starts(busy') = Starts(busy) \ {p} /\ Marked(busy') = Marked(busy)
<1>1. ~\E b \in At(p) : b.enqueue
  BY DEF At, Marked
<1>2. StatFree(p)
  BY <1>1 DEF Dealloc
<1> QED
  BY <1>2, StatFreeOwns

LEMMA MarkOwns ==
  ASSUME MemoryInv, NEW p, p \in Starts(busy), Mark(p)
  PROVE  /\ locked' = locked
         /\ Starts(busy') = Starts(busy) /\ Marked(busy') = Marked(busy) \cup {p}
<1> DEFINE marked == {[b EXCEPT !.enqueue = TRUE] : b \in At(p)}
<1>1. locked' = locked /\ busy' = (busy \ At(p)) \cup marked
  BY DEF Mark
<1>2. PICK b \in busy : b.start = p
  BY DEF Starts
<1>3. At(p) = {b}
  BY <1>2, StartsDiffer DEF At, MemoryInv
<1>4. LET c == [b EXCEPT !.enqueue = TRUE]
      IN  busy' = (busy \ {b}) \cup {c} /\ c.start = p /\ c.enqueue = TRUE
  <2>1. b \in Block
    BY DEF MemoryInv, Tidy
  <2> QED
    BY <1>1, <1>2, <1>3, <2>1 DEF Block
<1>5. \A c \in busy : c.start = p => c = b
  BY <1>2, StartsDiffer DEF MemoryInv
<1>6. PICK c : busy' = (busy \ {b}) \cup {c} /\ c.start = p /\ c.enqueue = TRUE
  BY <1>4
<1>7. Starts(busy') = Starts(busy)
  BY <1>2, <1>6 DEF Starts
<1>8. Marked(busy') = Marked(busy) \cup {p}
  <2>1. ASSUME NEW x \in Marked(busy') PROVE x \in Marked(busy) \cup {p}
    <3>1. PICK e \in busy' : e.enqueue /\ e.start = x
      BY DEF Marked
    <3> QED
      BY <1>6, <3>1 DEF Marked
  <2>2. ASSUME NEW x \in Marked(busy) PROVE x \in Marked(busy')
    <3>1. PICK e \in busy : e.enqueue /\ e.start = x
      BY DEF Marked
    <3>2. CASE e = b
      BY <1>2, <1>6, <3>1, <3>2 DEF Marked
    <3>3. CASE e # b
      BY <1>6, <3>1, <3>3 DEF Marked
    <3> QED
      BY <3>2, <3>3
  <2>3. p \in Marked(busy')
    BY <1>6 DEF Marked
  <2> QED
    BY <2>1, <2>2, <2>3
<1> QED
  BY <1>1, <1>7, <1>8

\* What the thread holds at each step of a frame.
Holds(d) ==
  /\ step[d] \in {"decoded", "converted", "crashed"} <=> raw[d] # Null
  /\ step[d] \in {"converted", "ready", "refused"} <=> out[d] # Null
  /\ step[d] = "refused" => out[d] \notin Starts(busy)

Owners ==
  /\ ~locked /\ Null \notin Starts(busy)
  /\ \A d \in Decoders : Holds(d)
  /\ OneOwner

\* The only thread takes what nobody owns, and gives away what it owns.
LEMMA OwnersKept ==
  ASSUME IInv, Owners, Next, \A d, e \in Decoders : d = e
  PROVE  Owners'
<1>1. MemoryInv /\ ThreadsType /\ ~locked /\ Null \notin Starts(busy) /\ \A d \in Decoders : Holds(d)
  BY DEF IInv, Owners
<1>2. ASSUME NEW d \in Decoders
      PROVE  /\ Starts(busy) = stored \cup Held(d) /\ Marked(busy) = stored
             /\ Held(d) \cap stored = {} /\ (raw[d] = out[d] => raw[d] = Null)
  <2>1. UNION {Held(e) : e \in Decoders} = Held(d)
    <3>1. {Held(e) : e \in Decoders} = {Held(d)}
      OBVIOUS
    <3> QED
      BY <3>1
  <2> QED
    BY <2>1 DEF Owners, OneOwner, Starts, Marked
<1>3. ASSUME NEW d \in Decoders, ~locked', Null \notin Starts(busy'), Holds(d)',
             Starts(busy') = stored' \cup Held(d)', Marked(busy') = stored',
             Held(d)' \cap stored' = {}, raw'[d] = out'[d] => raw'[d] = Null
      PROVE  Owners'
  <2>1. UNION {Held(e)' : e \in Decoders} = Held(d)'
    <3>1. {Held(e)' : e \in Decoders} = {Held(d)'}
      OBVIOUS
    <3> QED
      BY <3>1
  <2>2. OneOwner'
    BY <1>3, <2>1 DEF OneOwner, Starts, Marked
  <2> QED
    BY <1>3, <2>2 DEF Owners
<1>4. Null \notin Nat
  BY DEF Null
<1> USE DEF Holds, Goes, Sets, ThreadsType
<1>5. ASSUME NEW d \in Decoders, AllocateFrame(d) PROVE Owners'
  <2>0. PICK n \in Sizes : \E p \in {Null} \cup {f.start : f \in Pieces(n)} :
          /\ Goes(d, "idle", IF p = Null THEN "idle" ELSE "decoded")
          /\ Allocate(n, p) /\ Sets(raw, d, p) /\ UNCHANGED <<out, stored>>
    BY <1>5 DEF AllocateFrame
  <2>1. PICK p \in {Null} \cup {f.start : f \in Pieces(n)} :
          /\ Goes(d, "idle", IF p = Null THEN "idle" ELSE "decoded")
          /\ Allocate(n, p) /\ Sets(raw, d, p) /\ UNCHANGED <<out, stored>>
    BY <2>0
  <2>2. raw[d] = Null /\ out[d] = Null /\ Held(d) = {}
    BY <1>1, <2>1 DEF Held
  <2>3. /\ raw'[d] = p /\ out'[d] = Null /\ stored' = stored
        /\ step'[d] = IF p = Null THEN "idle" ELSE "decoded"
    BY <1>1, <2>1, <2>2
  <2>4. Held(d)' = {p} \ {Null}
    BY <2>3 DEF Held
  <2>5. /\ locked' = locked
        /\ \/ p = Null /\ busy' = busy
           \/ /\ p \in Nat /\ p \notin Starts(busy)
              /\ Starts(busy') = Starts(busy) \cup {p} /\ Marked(busy') = Marked(busy)
    BY <1>1, <2>1, AllocateOwns
  <2> QED
    BY <1>1, <1>2, <1>3, <1>4, <2>2, <2>3, <2>4, <2>5
<1>6. ASSUME NEW d \in Decoders, KeepFormat(d) PROVE Owners'
  <2>1. step[d] = "decoded" /\ raw[d] # Null /\ out[d] = Null
    BY <1>1, <1>6 DEF KeepFormat
  <2>2. /\ raw'[d] = Null /\ out'[d] = raw[d] /\ step'[d] = "ready"
        /\ UNCHANGED <<busy, locked, stored>>
    BY <1>1, <1>6 DEF KeepFormat, memory
  <2>3. Held(d) = {raw[d]} /\ Held(d)' = {raw[d]}
    BY <2>1, <2>2 DEF Held
  <2> QED
    BY <1>1, <1>2, <1>3, <2>1, <2>2, <2>3
<1>7. ASSUME NEW d \in Decoders, AllocateConverted(d) PROVE Owners'
  <2>0. PICK n \in Sizes : \E p \in {Null} \cup {f.start : f \in Pieces(n)} :
          /\ Goes(d, "decoded", IF p = Null THEN "crashed" ELSE "converted")
          /\ Allocate(n, p) /\ Sets(out, d, p) /\ UNCHANGED <<raw, stored>>
    BY <1>7 DEF AllocateConverted
  <2>1. PICK p \in {Null} \cup {f.start : f \in Pieces(n)} :
          /\ Goes(d, "decoded", IF p = Null THEN "crashed" ELSE "converted")
          /\ Allocate(n, p) /\ Sets(out, d, p) /\ UNCHANGED <<raw, stored>>
    BY <2>0
  <2>2. raw[d] # Null /\ out[d] = Null /\ Held(d) = {raw[d]} /\ step[d] = "decoded"
    BY <1>1, <2>1 DEF Held
  <2>3. /\ raw'[d] = raw[d] /\ out'[d] = p /\ stored' = stored
        /\ step'[d] = IF p = Null THEN "crashed" ELSE "converted"
    BY <1>1, <2>1, <2>2
  <2>4. Held(d)' = {raw[d]} \cup ({p} \ {Null})
    BY <2>2, <2>3 DEF Held
  <2>5. /\ locked' = locked
        /\ \/ p = Null /\ busy' = busy
           \/ /\ p \in Nat /\ p \notin Starts(busy)
              /\ Starts(busy') = Starts(busy) \cup {p} /\ Marked(busy') = Marked(busy)
    BY <1>1, <2>1, AllocateOwns
  <2> QED
    BY <1>1, <1>2, <1>3, <1>4, <2>2, <2>3, <2>4, <2>5
<1>8. ASSUME NEW d \in Decoders, FreeRaw(d) PROVE Owners'
  <2>1. step[d] = "converted" /\ raw[d] # Null /\ out[d] # Null /\ Held(d) = {raw[d], out[d]}
    BY <1>1, <1>8 DEF FreeRaw, Held
  <2>2. raw'[d] = Null /\ out'[d] = out[d] /\ step'[d] = "ready" /\ stored' = stored
    BY <1>1, <1>8 DEF FreeRaw
  <2>3. Held(d)' = {out[d]}
    BY <2>1, <2>2 DEF Held
  <2>4. /\ locked' = locked
        /\ Starts(busy') = Starts(busy) \ {raw[d]} /\ Marked(busy') = Marked(busy)
    BY <1>1, <1>2, <1>8, <2>1, DeallocOwns DEF FreeRaw
  <2> QED
    BY <1>1, <1>2, <1>3, <2>1, <2>2, <2>3, <2>4
<1>9. ASSUME NEW d \in Decoders, Enqueue(d) PROVE Owners'
  <2>1. step[d] = "ready" /\ raw[d] = Null /\ out[d] # Null /\ Held(d) = {out[d]}
    BY <1>1, <1>9 DEF Enqueue, Held
  <2>2. raw'[d] = Null /\ out'[d] = Null /\ step'[d] = "idle" /\ stored' = stored \cup {out[d]}
    BY <1>1, <1>9, <2>1 DEF Enqueue
  <2>3. Held(d)' = {}
    BY <2>2 DEF Held
  <2>4. /\ locked' = locked
        /\ Starts(busy') = Starts(busy) /\ Marked(busy') = Marked(busy) \cup {out[d]}
    BY <1>1, <1>2, <1>9, <2>1, MarkOwns DEF Enqueue
  <2> QED
    BY <1>1, <1>2, <1>3, <2>1, <2>2, <2>3, <2>4
<1>10. ASSUME NEW d \in Decoders, EnqueueForNobody(d) PROVE Owners'
  <2>1. step[d] = "ready" /\ raw[d] = Null /\ out[d] # Null /\ Held(d) = {out[d]}
    BY <1>1, <1>10 DEF EnqueueForNobody, Held
  <2>2. raw'[d] = Null /\ out'[d] = Null /\ step'[d] = "idle" /\ stored' = stored
    BY <1>1, <1>10, <2>1 DEF EnqueueForNobody
  <2>3. Held(d)' = {}
    BY <2>2 DEF Held
  <2>4. /\ locked' = locked
        /\ Starts(busy') = Starts(busy) \ {out[d]} /\ Marked(busy') = Marked(busy) \ {out[d]}
    BY <1>1, <1>10, StatFreeOwns DEF EnqueueForNobody
  <2> QED
    BY <1>1, <1>2, <1>3, <2>1, <2>2, <2>3, <2>4
<1>11. ASSUME NEW d \in Decoders, EnqueueFails(d) PROVE Owners'
  <2>1. step[d] = "ready" /\ raw[d] = Null /\ out[d] # Null /\ Held(d) = {out[d]}
    BY <1>1, <1>11 DEF EnqueueFails, Held
  <2>2. raw'[d] = Null /\ out'[d] = out[d] /\ step'[d] = "refused" /\ stored' = stored
    BY <1>1, <1>11, <2>1 DEF EnqueueFails
  <2>3. Held(d)' = {}
    BY <2>2 DEF Held
  <2>4. /\ locked' = locked
        /\ Starts(busy') = Starts(busy) \ {out[d]} /\ Marked(busy') = Marked(busy) \ {out[d]}
    BY <1>1, <1>11, StatFreeOwns DEF EnqueueFails, RefusedBuffer
  <2> QED
    BY <1>1, <1>2, <1>3, <2>1, <2>2, <2>3, <2>4
<1>12. ASSUME NEW d \in Decoders, FreeRefused(d) PROVE Owners'
  <2>1. step[d] = "refused" /\ raw[d] = Null /\ out[d] \notin Starts(busy) /\ Held(d) = {}
    BY <1>1, <1>12 DEF FreeRefused, Held
  <2>2. raw'[d] = Null /\ out'[d] = Null /\ step'[d] = "idle" /\ stored' = stored
    BY <1>1, <1>12, <2>1 DEF FreeRefused
  <2>3. Held(d)' = {}
    BY <2>2 DEF Held
  <2>4. /\ locked' = locked
        /\ Starts(busy') = Starts(busy) \ {out[d]} /\ Marked(busy') = Marked(busy)
    BY <1>1, <1>2, <1>12, <2>1, DeallocOwns DEF FreeRefused
  <2> QED
    BY <1>1, <1>2, <1>3, <2>1, <2>2, <2>3, <2>4
<1>13. ASSUME FreeDirect PROVE Owners'
  <2>1. PICK p \in stored : StatFree(p) /\ stored' = stored \ {p}
    BY <1>13 DEF FreeDirect
  <2>2. /\ locked' = locked
        /\ Starts(busy') = Starts(busy) \ {p} /\ Marked(busy') = Marked(busy) \ {p}
    BY <1>1, <2>1, StatFreeOwns
  <2>3. UNCHANGED <<step, raw, out>>
    BY <1>13 DEF FreeDirect, threads
  <2>4. CASE Decoders = {}
    <3>1. Starts(busy) = stored /\ Marked(busy) = stored
      BY <2>4 DEF Owners, OneOwner, Starts, Marked
    <3>2. Starts(busy') = stored' /\ Marked(busy') = stored'
      BY <2>1, <2>2, <3>1
    <3>3. OneOwner'
      BY <2>4, <3>2 DEF OneOwner, Starts, Marked
    <3> QED
      BY <1>1, <2>2, <2>4, <3>3 DEF Owners
  <2>5. ASSUME NEW d \in Decoders PROVE Owners'
    <3>1. Held(d)' = Held(d)
      BY <2>3 DEF Held
    <3> QED
      BY <1>1, <1>2, <1>3, <2>1, <2>2, <2>3, <3>1
  <2> QED
    BY <2>4, <2>5
<1> QED
  BY <1>5, <1>6, <1>7, <1>8, <1>9, <1>10, <1>11, <1>12, <1>13 DEF Next, Decode

(* One thread: whichever call fails on the way of a frame, every buffer has *)
(* one owner and is freed once, and queue_dealloc() never returns with the  *)
(* mutex locked, although decode() frees what queue_enqueue() has freed.    *)
THEOREM OneThreadOwns ==
  ASSUME \A d, e \in Decoders : d = e
  PROVE  Spec => []BuffersOwned
<1>1. Init => Owners
  <2> SUFFICES ASSUME Init PROVE Owners
    OBVIOUS
  <2>1. busy = {} /\ stored = {} /\ ~locked
    BY DEF Init
  <2>2. Starts(busy) = {} /\ Marked(busy) = {}
    BY <2>1 DEF Starts, Marked
  <2>3. \A d \in Decoders : step[d] = "idle" /\ raw[d] = Null /\ out[d] = Null
    BY DEF Init
  <2>4. \A d \in Decoders : Holds(d)
    BY <2>3 DEF Holds
  <2>5. \A d \in Decoders : Held(d) = {}
    BY <2>3 DEF Held
  <2>6. OneOwner
    BY <2>1, <2>2, <2>3, <2>5 DEF OneOwner, Starts, Marked
  <2> QED
    BY <2>1, <2>2, <2>4, <2>6 DEF Owners
<1>2. IInv /\ Owners /\ [Next]_vars => Owners'
  <2>1. CASE UNCHANGED vars
    BY <2>1 DEF vars, memory, threads, Owners, OneOwner, Starts, Holds, Held
  <2> QED
    BY <2>1, OwnersKept
<1>3. Owners => BuffersOwned
  BY DEF Owners, BuffersOwned, NeverLocked
<1> QED
  BY <1>1, <1>2, <1>3, MemoryInvariance, PTL DEF Spec

-----------------------------------------------------------------------------
(* The counter of blocks: each block of memory lies in at most one buffer, *)
(* so what a call adds to the counter it adds to the blocks in use.        *)

Covered(b) == b.start..(End(b) - 1)
CoveredBy(bs) == UNION {Covered(b) : b \in bs}

Counted == IsFiniteSet(InUse) /\ blocks = Cardinality(InUse)

LEMMA InUseIsCovered == InUse = CoveredBy(busy) /\ InUse' = CoveredBy(busy')
BY DEF InUse, CoveredBy, Covered

\* Two sets of blocks without a common block, one an interval.
LEMMA IntervalCounts ==
  ASSUME NEW cells, IsFiniteSet(cells), NEW a \in Nat, NEW n \in Nat \ {0},
         NEW new, new = a..(a + n - 1), cells \cap new = {}
  PROVE  /\ IsFiniteSet(cells \cup new)
         /\ Cardinality(cells \cup new) = Cardinality(cells) + n
<1>1. IsFiniteSet(new) /\ Cardinality(new) = n
  BY FS_Interval
<1>2. Cardinality(cells \cap new) = 0
  BY FS_EmptySet
<1>3. Cardinality(cells) \in Nat
  BY FS_CardinalityType
<1>4. /\ IsFiniteSet(cells \cup new)
      /\ Cardinality(cells \cup new)
           = Cardinality(cells) + Cardinality(new) - Cardinality(cells \cap new)
  BY <1>1, FS_Union
<1> QED
  BY <1>1, <1>2, <1>3, <1>4

\* A block apart from the others shares no cell with them.
LEMMA ApartIsDisjoint ==
  ASSUME NEW bs, bs \subseteq Block, NEW b, b.start \in Nat, b.size \in Nat \ {0},
         \A c \in bs : Apart(b, c)
  PROVE  CoveredBy(bs) \cap Covered(b) = {}
<1> SUFFICES ASSUME NEW x \in CoveredBy(bs), x \in Covered(b) PROVE FALSE
  OBVIOUS
<1>1. PICK c \in bs : x \in Covered(c)
  BY DEF CoveredBy
<1>2. c.start \in Nat /\ c.size \in Nat \ {0}
  BY DEF Block
<1>3. /\ b.start <= x /\ x <= b.start + b.size - 1 /\ x \in Int
      /\ c.start <= x /\ x <= c.start + c.size - 1
  BY <1>1, <1>2 DEF Covered, End
<1>4. b.start + b.size <= c.start \/ c.start + c.size <= b.start
  BY DEF Apart, End
<1> QED
  BY <1>2, <1>3, <1>4

LEMMA AllocateCounts ==
  ASSUME MemoryInv, Counted, NEW n \in Sizes, NEW p, Allocate(n, p)
  PROVE  Counted'
<1>1. n \in Nat \ {0} /\ MaxAreas \in Nat /\ areas \in Nat
  BY MemoryBounds DEF MemoryInv
<1>2. Grown(n) \in areas..MaxAreas /\ Grown(n) \in Nat
  BY <1>1 DEF MemoryInv, Grown
<1>3. Tidy(Pieces(n), busy, Top(Grown(n)))
  BY <1>1, <1>2, Growing DEF MemoryInv, Pieces
<1>4. CASE UNCHANGED <<busy, blocks>>
  BY <1>4, InUseIsCovered DEF Counted
<1>5. ASSUME NEW d \in Pieces(n), d.size >= n, p = d.start,
             busy' = busy \cup {[start |-> p, size |-> n, enqueue |-> FALSE]},
             blocks' = blocks + n
      PROVE  Counted'
  <2> DEFINE b == [start |-> p, size |-> n, enqueue |-> FALSE]
  <2>1. b.start = d.start /\ b.size = n /\ busy' = busy \cup {b}
    BY <1>5
  <2>2. d.start \in Nat /\ d.size \in Nat
    BY <1>3, <1>5 DEF Tidy, Piece
  <2> HIDE DEF b
  <2>3. \A c \in busy : Apart(b, c)
    <3> SUFFICES ASSUME NEW c \in busy PROVE Apart(b, c)
      OBVIOUS
    <3>1. c.start \in Nat /\ c.size \in Nat
      BY <1>3 DEF Tidy, Block
    <3>2. Apart(c, d)
      BY <1>3 DEF Tidy
    <3> QED
      BY <1>1, <1>5, <2>1, <2>2, <3>1, <3>2 DEF Apart, End
  <2>4. CoveredBy(busy) \cap Covered(b) = {}
    BY <1>1, <1>3, <2>1, <2>2, <2>3, ApartIsDisjoint DEF Tidy
  <2>5. CoveredBy(busy') = CoveredBy(busy) \cup Covered(b)
    BY <2>1 DEF CoveredBy
  <2>6. Covered(b) = d.start..(d.start + n - 1)
    BY <1>1, <2>1, <2>2 DEF Covered, End
  <2>7. /\ IsFiniteSet(CoveredBy(busy) \cup Covered(b))
        /\ Cardinality(CoveredBy(busy) \cup Covered(b)) = Cardinality(CoveredBy(busy)) + n
    BY <1>1, <2>2, <2>4, <2>6, InUseIsCovered, IntervalCounts DEF Counted
  <2> QED
    BY <1>5, <2>5, <2>7, InUseIsCovered DEF Counted
<1> QED
  BY <1>4, <1>5 DEF Allocate

LEMMA ReleaseCounts ==
  ASSUME MemoryInv, Counted, NEW b \in busy, Release(b)
  PROVE  Counted'
<1>1. /\ b.start \in Nat /\ b.size \in Nat \ {0} /\ busy \subseteq Block
      /\ \A c \in busy : b # c => Apart(b, c)
  BY DEF MemoryInv, Tidy, Block
<1>2. busy' = busy \ {b} /\ blocks' = blocks - b.size
  BY DEF Release, BlocksLess
<1>3. CoveredBy(busy') \cap Covered(b) = {}
  BY <1>1, <1>2, ApartIsDisjoint
<1>4. CoveredBy(busy) = CoveredBy(busy') \cup Covered(b)
  BY <1>2 DEF CoveredBy
<1>5. IsFiniteSet(CoveredBy(busy'))
  <2>1. CoveredBy(busy') \in SUBSET CoveredBy(busy)
    BY <1>4
  <2> QED
    BY <2>1, FS_Subset, InUseIsCovered DEF Counted
<1>6. Covered(b) = b.start..(b.start + b.size - 1)
  BY <1>1 DEF Covered, End
<1>7. Cardinality(CoveredBy(busy') \cup Covered(b)) = Cardinality(CoveredBy(busy')) + b.size
  <2> DEFINE cells == CoveredBy(busy')
             new == Covered(b)
  <2>1. IsFiniteSet(cells) /\ cells \cap new = {} /\ new = b.start..(b.start + b.size - 1)
    BY <1>3, <1>5, <1>6
  <2>2. b.start \in Nat /\ b.size \in Nat \ {0}
    BY <1>1
  <2> HIDE DEF cells, new
  <2>3. Cardinality(cells \cup new) = Cardinality(cells) + b.size
    BY <2>1, <2>2, IntervalCounts
  <2> QED
    BY <2>3 DEF cells, new
<1>8. Cardinality(CoveredBy(busy')) \in Nat
  BY <1>5, FS_CardinalityType
<1> QED
  BY <1>1, <1>2, <1>4, <1>5, <1>7, <1>8, InUseIsCovered DEF Counted

LEMMA StatFreeCounts ==
  ASSUME MemoryInv, Counted, NEW p, StatFree(p)
  PROVE  Counted'
<1>1. CASE UNCHANGED memory
  BY <1>1, InUseIsCovered DEF memory, Counted
<1>2. CASE \E b \in At(p) : Release(b)
  BY <1>2, ReleaseCounts DEF At
<1> QED
  BY <1>1, <1>2 DEF StatFree

LEMMA DeallocCounts ==
  ASSUME MemoryInv, Counted, NEW p, Dealloc(p)
  PROVE  Counted'
<1>1. CASE UNCHANGED <<areas, free, busy, blocks>>
  BY <1>1, InUseIsCovered DEF Counted
<1>2. CASE StatFree(p)
  BY <1>2, StatFreeCounts
<1> QED
  BY <1>1, <1>2 DEF Dealloc

LEMMA MarkCounts ==
  ASSUME MemoryInv, Counted, NEW p, Mark(p)
  PROVE  Counted'
<1>1. busy \subseteq Block /\ blocks' = blocks
  BY DEF MemoryInv, Tidy, Mark
<1>2. \A b \in busy : Covered([b EXCEPT !.enqueue = TRUE]) = Covered(b)
  BY <1>1 DEF Block, Covered, End
<1>3. CoveredBy(busy') = CoveredBy(busy)
  <2>1. busy' = (busy \ At(p)) \cup {[b EXCEPT !.enqueue = TRUE] : b \in At(p)}
    BY DEF Mark
  <2>2. At(p) \subseteq busy
    BY DEF At
  <2>3. ASSUME NEW x \in CoveredBy(busy') PROVE x \in CoveredBy(busy)
    BY <1>2, <2>1, <2>2 DEF CoveredBy
  <2>4. ASSUME NEW x \in CoveredBy(busy) PROVE x \in CoveredBy(busy')
    <3>1. PICK b \in busy : x \in Covered(b)
      BY DEF CoveredBy
    <3>2. CASE b \in At(p)
      <4>1. [b EXCEPT !.enqueue = TRUE] \in busy'
        BY <2>1, <3>2
      <4>2. x \in Covered([b EXCEPT !.enqueue = TRUE])
        BY <1>2, <3>1
      <4> QED
        BY <4>1, <4>2 DEF CoveredBy
    <3>3. CASE b \notin At(p)
      BY <2>1, <3>1, <3>3 DEF CoveredBy
    <3> QED
      BY <3>2, <3>3
  <2> QED
    BY <2>3, <2>4
<1> QED
  BY <1>1, <1>3, InUseIsCovered DEF Counted

LEMMA CountKept == IInv /\ Counted /\ [Next]_vars => Counted'
<1> SUFFICES ASSUME IInv, Counted, [Next]_vars PROVE Counted'
  OBVIOUS
<1> USE DEF IInv
<1>1. CASE UNCHANGED memory
  BY <1>1, InUseIsCovered DEF memory, Counted
<1>2. CASE \E n \in Sizes : \E p : Allocate(n, p)
  BY <1>2, AllocateCounts
<1>3. CASE \E p : StatFree(p)
  BY <1>3, StatFreeCounts
<1>4. CASE \E p : Dealloc(p)
  BY <1>4, DeallocCounts
<1>5. CASE \E p : Mark(p)
  BY <1>5, MarkCounts
<1>6. ASSUME NEW d \in Decoders, AllocateFrame(d) \/ AllocateConverted(d)
      PROVE  \E n \in Sizes : \E p : Allocate(n, p)
  BY <1>6 DEF AllocateFrame, AllocateConverted
<1>7. ASSUME NEW d \in Decoders, EnqueueForNobody(d) \/ EnqueueFails(d)
      PROVE  \E p : StatFree(p)
  BY <1>7 DEF EnqueueForNobody, EnqueueFails, RefusedBuffer
<1>8. ASSUME NEW d \in Decoders, FreeRaw(d) \/ FreeRefused(d) PROVE \E p : Dealloc(p)
  BY <1>8 DEF FreeRaw, FreeRefused
<1>9. ASSUME NEW d \in Decoders, Enqueue(d) PROVE \E p : Mark(p)
  BY <1>9 DEF Enqueue
<1>10. ASSUME NEW d \in Decoders, KeepFormat(d) PROVE UNCHANGED memory
  BY <1>10 DEF KeepFormat
<1>11. ASSUME FreeDirect PROVE \E p : StatFree(p)
  BY <1>11 DEF FreeDirect
<1>12. ASSUME UNCHANGED vars PROVE UNCHANGED memory
  BY <1>12 DEF vars
<1> QED
  BY <1>1, <1>2, <1>3, <1>4, <1>5, <1>6, <1>7, <1>8, <1>9, <1>10, <1>11, <1>12 DEF Next, Decode

(* The counter of blocks is never off by one: it is what lies in buffers,   *)
(* whatever was allocated, refused, freed or freed twice, by however many   *)
(* threads.                                                                 *)
THEOREM CounterIsRight == Spec => []BlocksCounted
<1>1. Init => Counted
  <2> SUFFICES ASSUME Init PROVE Counted
    OBVIOUS
  <2>1. InUse = {} /\ blocks = 0
    BY DEF Init, InUse
  <2> QED
    BY <2>1, FS_EmptySet DEF Counted
<1>2. IInv /\ Counted /\ [Next]_vars => Counted'
  BY CountKept
<1>3. Counted => BlocksCounted
  BY DEF Counted, BlocksCounted
<1> QED
  BY <1>1, <1>2, <1>3, MemoryInvariance, PTL DEF Spec
=============================================================================
