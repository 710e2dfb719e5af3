-------------------------- MODULE FrameQueueProofs --------------------------
(***************************************************************************)
(* Proofs about the frame queue, for any number of consumers and frames.   *)
(***************************************************************************)
EXTENDS FrameQueueRefinement, FiniteSetTheorems, WellFoundedInduction, TLAPS

\* A set of numbers that is not empty has a least element.
LEMMA LeastExists ==
  ASSUME NEW S \in SUBSET Nat, S # {}
  PROVE  Least(S) \in S /\ \A j \in S : Least(S) <= j
<1> DEFINE lt == OpToRel(<, Nat)
<1>1. IsWellFoundedOn(lt, Nat)
  BY NatLessThanWellFounded
<1>2. \A m, n \in Nat : m < n => <<m, n>> \in lt
  BY Zenon DEF OpToRel
<1> HIDE DEF lt
<1>3. PICK x \in S : \A y \in S : ~(<<y, x>> \in lt)
  BY <1>1, WFMin, Zenon
<1>4. ASSUME NEW y \in S PROVE x <= y
  <2>1. x \in Nat /\ y \in Nat
    OBVIOUS
  <2>2. ~(y < x)
    BY <1>2, <1>3, <2>1, Zenon
  <2> QED
    BY <2>1, <2>2
<1>5. \E i \in S : \A j \in S : i <= j
  BY <1>4
<1> QED
  BY <1>5, Zenon DEF Least

\* firststore_p and nextstore_p: NULL exactly when there is nothing to find.
LEMMA LeastOrNullFinds ==
  ASSUME NEW n \in Nat, NEW S \in SUBSET (1..n)
  PROVE  \/ S = {} /\ LeastOrNull(S) = Null
         \/ LeastOrNull(S) \in S /\ \A j \in S : LeastOrNull(S) <= j
<1>1. CASE S = {}
  BY <1>1 DEF LeastOrNull
<1>2. CASE S # {}
  <2>1. S \in SUBSET Nat
    OBVIOUS
  <2>2. Least(S) \in S /\ \A j \in S : Least(S) <= j
    BY <1>2, <2>1, LeastExists
  <2> QED BY <1>2, <2>2, Zenon DEF LeastOrNull
<1> QED BY <1>1, <1>2

-----------------------------------------------------------------------------
(* The inductive invariant: the checked invariants, and where the cursor   *)
(* of a consumer may be.                                                   *)
Cursors ==
  \A c \in Consumers :
    /\ store_p[c] <= tail
    /\ hold[c] => store_p[c] # Null
    /\ c \notin registered => store_p[c] = Null

IInv == TypeOK /\ RefCounts /\ NothingLost /\ SleepersHaveNothing /\ Cursors

\* The types a step starts from.
LEMMA Types ==
  ASSUME IInv
  PROVE  /\ MaxFrames \in Nat /\ MaxConsumers \in Nat \ {0}
         /\ tail \in 0..MaxFrames /\ stores \subseteq 1..tail
         /\ pending \in [1..MaxFrames -> Nat]
         /\ registered \subseteq Consumers /\ consumers \in 0..MaxConsumers
         /\ store_p \in [Consumers -> 0..MaxFrames]
         /\ hold \in [Consumers -> BOOLEAN]
         /\ asleep \subseteq registered /\ woken \subseteq registered
         /\ mtxLeaked \in BOOLEAN
BY BoundsAssumption DEF IInv, TypeOK, Frames

\* Consumers, and so the readers of any store, are finitely many.
LEMMA FiniteReaders ==
  ASSUME TypeOK
  PROVE  IsFiniteSet(registered) /\ \A i : IsFiniteSet(Readers(i))
<1>1. IsFiniteSet(registered)
  BY ConsumersAssumption, FS_Subset DEF TypeOK
<1>2. ASSUME NEW i PROVE IsFiniteSet(Readers(i))
  <2>1. Readers(i) \in SUBSET registered
    BY DEF Readers
  <2> QED BY <1>1, <2>1, FS_Subset
<1> QED BY <1>1, <1>2

\* A linked store has a reader, and its count tells whether one is the last.
LEMMA Counted ==
  ASSUME IInv, NEW i \in stores
  PROVE  /\ i \in 1..tail /\ i \in Frames
         /\ pending[i] \in Nat /\ pending[i] > 0
         /\ pending[i] = Cardinality(Readers(i))
         /\ IsFiniteSet(Readers(i)) /\ Readers(i) # {}
<1>1. i \in 1..tail /\ i \in Frames
  BY Types DEF Frames
<1>2. pending[i] \in Nat /\ pending[i] > 0 /\ pending[i] = Cardinality(Readers(i))
  BY <1>1, Types DEF IInv, RefCounts, Frames
<1>3. IsFiniteSet(Readers(i))
  BY FiniteReaders DEF IInv
<1>4. Readers(i) # {}
  BY <1>2, FS_EmptySet
<1> QED BY <1>1, <1>2, <1>3, <1>4

\* If the count says one reader is left, there is no other.
LEMMA OnlyReader ==
  ASSUME IInv, NEW i \in stores, NEW c \in Readers(i), LastReader(i)
  PROVE  Readers(i) = {c}
<1>1. Cardinality(Readers(i)) = 1 /\ IsFiniteSet(Readers(i))
  BY Counted DEF LastReader
<1>2. Cardinality(Readers(i) \ {c}) = 0 /\ IsFiniteSet(Readers(i) \ {c})
  BY <1>1, FS_RemoveElement
<1>3. Readers(i) \ {c} = {}
  BY <1>2, FS_EmptySet
<1> QED BY <1>3

\* What a reader does not lose: the stores from its cursor to the tail.
LEMMA Linked ==
  ASSUME IInv, NEW c \in registered, store_p[c] # Null
  PROVE  /\ store_p[c] \in 1..tail
         /\ store_p[c] \in stores
         /\ \A i \in store_p[c]..tail : i \in stores
<1>1. store_p[c] \in 0..MaxFrames /\ tail \in 0..MaxFrames /\ MaxFrames \in Nat
  BY Types
<1>2. store_p[c] <= tail /\ store_p[c] # 0
  BY Types DEF IInv, Cursors, Null
<1>3. ASSUME NEW i \in store_p[c]..tail PROVE i \in stores
  <2>1. i \in Frames /\ store_p[c] <= i /\ i <= tail
    BY <1>1, <1>2 DEF Frames
  <2> QED BY <2>1 DEF IInv, NothingLost
<1>4. store_p[c] \in store_p[c]..tail /\ store_p[c] \in 1..tail
  BY <1>1, <1>2
<1> QED BY <1>3, <1>4

\* The list has no holes: behind a linked store every store is linked.
LEMMA NoHoles ==
  ASSUME IInv, NEW i \in stores, NEW j \in i..tail
  PROVE  j \in stores
<1>1. PICK c \in Readers(i) : TRUE
  BY Counted
<1>2. c \in registered /\ store_p[c] # Null /\ store_p[c] <= i
  BY <1>1 DEF Readers
<1>3. store_p[c] \in 1..tail /\ i \in 1..tail /\ tail \in Nat
  BY <1>2, Linked, Types
<1>4. j \in store_p[c]..tail
  BY <1>2, <1>3
<1> QED BY <1>2, <1>4, Linked

\* nextstore_p of a linked store is the next serial number.
LEMMA NextIs ==
  ASSUME IInv, NEW p \in stores
  PROVE  NextStore(p) = IF p < tail THEN p + 1 ELSE Null
<1> DEFINE S == {j \in stores : j > p}
<1>1. tail \in Nat /\ p \in 1..tail /\ stores \subseteq 1..tail /\ S \in SUBSET (1..tail)
  BY Types
<1>2. \/ S = {} /\ LeastOrNull(S) = Null
      \/ LeastOrNull(S) \in S /\ \A j \in S : LeastOrNull(S) <= j
  BY <1>1, LeastOrNullFinds
<1>3. NextStore(p) = LeastOrNull(S)
  BY Zenon DEF NextStore
<1>4. CASE p < tail
  <2>1. p + 1 \in p..tail /\ p + 1 > p
    BY <1>1, <1>4
  <2>2. p + 1 \in S
    BY <2>1, NoHoles
  <2>3. LeastOrNull(S) \in S /\ LeastOrNull(S) <= p + 1
    BY <1>2, <2>2
  <2>4. LeastOrNull(S) > p /\ LeastOrNull(S) \in 1..tail
    BY <1>1, <2>3
  <2> QED BY <1>1, <1>3, <1>4, <2>3, <2>4
<1>5. CASE ~(p < tail)
  <2>1. S = {}
    BY <1>1, <1>5
  <2>2. LeastOrNull(S) = Null
    BY <1>2, <2>1
  <2> QED BY <1>3, <1>5, <2>2
<1> QED BY <1>4, <1>5

-----------------------------------------------------------------------------
(* queue_create() establishes the invariant.                               *)
LEMMA InitEstablishes == Init => IInv
<1> SUFFICES ASSUME Init PROVE IInv
  OBVIOUS
<1>1. TypeOK
  <2>1. stores \subseteq 1..tail /\ tail \in 0..MaxFrames /\ consumers \in 0..MaxConsumers
    BY BoundsAssumption DEF Init
  <2>2. pending \in [Frames -> Nat] /\ hold \in [Consumers -> BOOLEAN]
    BY DEF Init
  <2>3. store_p \in [Consumers -> 0..MaxFrames]
    BY BoundsAssumption DEF Init, Null
  <2>4. /\ registered \subseteq Consumers
        /\ asleep \subseteq registered /\ woken \subseteq registered
        /\ mtxLeaked \in BOOLEAN
    BY DEF Init
  <2> QED BY <2>1, <2>2, <2>3, <2>4 DEF TypeOK
<1>2. RefCounts
  BY FS_EmptySet DEF Init, RefCounts
<1>3. NothingLost /\ SleepersHaveNothing
  BY DEF Init, NothingLost, SleepersHaveNothing
<1>4. Cursors
  BY DEF Init, Cursors, Null
<1> QED
  BY <1>1, <1>2, <1>3, <1>4 DEF IInv

\* The list is untouched when every consumer keeps its place.
LEMMA ListUnchanged ==
  ASSUME IInv, UNCHANGED <<stores, pending, tail, registered, consumers, store_p>>
  PROVE  RefCounts' /\ NothingLost'
BY DEF IInv, RefCounts, NothingLost, Readers

\* queue_registerConsumer() preserves the invariant: the newcomer is counted by
\* every linked store and starts at the first of them.
LEMMA RegisterConsumerStep ==
  ASSUME IInv, NEW c \in Consumers, RegisterConsumer(c)
  PROVE  IInv'
<1>0. /\ c \notin registered /\ consumers # MaxConsumers
      /\ registered' = registered \cup {c} /\ consumers' = consumers + 1
      /\ store_p' = [store_p EXCEPT ![c] = FirstStore]
      /\ hold' = [hold EXCEPT ![c] = FALSE]
      /\ pending' = [i \in 1..MaxFrames |-> IF i \in stores THEN pending[i] + 1 ELSE pending[i]]
      /\ UNCHANGED <<stores, tail, asleep, woken, mtxLeaked>>
  BY Zenon DEF RegisterConsumer, Frames
<1>1. \/ stores = {} /\ FirstStore = Null
      \/ FirstStore \in stores /\ \A i \in stores : FirstStore <= i
  <2>1. tail \in Nat /\ stores \in SUBSET (1..tail)
    BY Types
  <2> QED BY <2>1, LeastOrNullFinds, Zenon DEF FirstStore
<1>a. FirstStore \in 0..tail
  BY <1>1, Types DEF Null
<1>b. \A d \in Consumers : d # c => store_p'[d] = store_p[d] /\ hold'[d] = hold[d]
  BY <1>0, Types
<1>c. store_p'[c] = FirstStore /\ ~hold'[c]
  BY <1>0, Types
<1>2. TypeOK'
  <2>1. pending' \in [Frames -> Nat]
    BY <1>0, Types DEF Frames
  <2>2. store_p' \in [Consumers -> 0..MaxFrames] /\ hold' \in [Consumers -> BOOLEAN]
    BY <1>0, <1>a, Types
  <2>3. consumers' \in 0..MaxConsumers
    BY <1>0, Types
  <2> QED BY <1>0, <2>1, <2>2, <2>3, Types DEF TypeOK
<1>3. RefCounts'
  <2>1. consumers' = Cardinality(registered')
    <3>1. consumers = Cardinality(registered)
      BY DEF IInv, RefCounts
    <3>2. Cardinality(registered \cup {c}) = Cardinality(registered) + 1
      BY <1>0, FiniteReaders, FS_AddElement DEF IInv
    <3> QED BY <1>0, <3>1, <3>2
  <2>2. ASSUME NEW i \in stores
        PROVE  pending'[i] = Cardinality(Readers(i)') /\ pending'[i] > 0
    <3>1. pending'[i] = pending[i] + 1
      BY <1>0, Types
    <3>2. c \notin Readers(i)
      BY <1>0 DEF Readers
    <3>3. FirstStore # Null /\ FirstStore <= i
      BY <1>1, Types DEF Null
    <3>4. Readers(i)' = Readers(i) \cup {c}
      BY <1>0, <1>b, <1>c, <3>3, Types DEF Readers
    <3>5. Cardinality(Readers(i) \cup {c}) = Cardinality(Readers(i)) + 1
      BY <3>2, Counted, FS_AddElement
    <3> QED BY <3>1, <3>4, <3>5, Counted
  <2> QED BY <1>0, <2>1, <2>2 DEF RefCounts
<1>4. NothingLost'
  <2> SUFFICES ASSUME NEW d \in registered', store_p'[d] # Null,
                      NEW i \in Frames, store_p'[d] <= i, i <= tail
               PROVE  i \in stores
    BY <1>0 DEF NothingLost
  <2>1. CASE d = c
    <3>1. FirstStore \in stores /\ FirstStore <= i
      BY <1>1, <1>c, <2>1
    <3>2. i \in FirstStore..tail
      BY <1>a, <3>1, Types DEF Frames
    <3> QED BY <3>1, <3>2, NoHoles
  <2>2. CASE d # c
    BY <1>0, <1>b, <2>2, Types DEF IInv, NothingLost
  <2> QED BY <2>1, <2>2
<1>5. SleepersHaveNothing'
  <2>1. \A d \in asleep : d \in Consumers /\ d # c
    BY <1>0, Types
  <2> QED BY <1>0, <1>b, <2>1 DEF IInv, SleepersHaveNothing
<1>6. Cursors'
  <2> SUFFICES ASSUME NEW d \in Consumers
               PROVE  /\ store_p'[d] <= tail
                      /\ hold'[d] => store_p'[d] # Null
                      /\ d \notin registered' => store_p'[d] = Null
    BY <1>0 DEF Cursors
  <2>1. CASE d = c
    BY <1>0, <1>a, <1>c, <2>1, Types
  <2>2. CASE d # c
    BY <1>0, <1>b, <2>2 DEF IInv, Cursors
  <2> QED BY <2>1, <2>2
<1> QED BY <1>2, <1>3, <1>4, <1>5, <1>6 DEF IInv

\* queue_unregisterConsumer() preserves it: the stores the consumer had still
\* to release lose one reader, and those it was the last reader of are freed.
LEMMA UnregisterConsumerStep ==
  ASSUME IInv, NEW c \in Consumers, UnregisterConsumer(c)
  PROVE  IInv'
<1> DEFINE mine == From(store_p[c])
<1>0. /\ c \in registered /\ c \notin asleep /\ c \notin woken
      /\ registered' = registered \ {c} /\ consumers' = consumers - 1
      /\ \/ /\ consumers' # 0
            /\ pending' = [i \in 1..MaxFrames |-> IF i \in mine THEN pending[i] - 1 ELSE pending[i]]
            /\ stores' = stores \ {i \in mine : LastReader(i)}
         \/ consumers' = 0 /\ stores' = {} /\ pending' = pending
      /\ store_p' = [store_p EXCEPT ![c] = Null]
      /\ hold' = [hold EXCEPT ![c] = FALSE]
      /\ UNCHANGED <<tail, asleep, woken, mtxLeaked>>
  BY Zenon DEF UnregisterConsumer, Running, FlushInternal, Frames
<1>1. \A i \in stores : i \in mine <=> c \in Readers(i)
  BY <1>0, Types DEF From, Readers, Null
<1>2. mine \subseteq stores
  BY DEF From
<1>a. \A d \in Consumers : d # c => store_p'[d] = store_p[d] /\ hold'[d] = hold[d]
  BY <1>0, Types
<1>b. store_p'[c] = Null /\ ~hold'[c]
  BY <1>0, Types
<1>c. consumers = Cardinality(registered) /\ consumers' = Cardinality(registered')
  <2>1. consumers = Cardinality(registered)
    BY DEF IInv, RefCounts
  <2>2. Cardinality(registered \ {c}) = Cardinality(registered) - 1
    BY <1>0, FiniteReaders, FS_RemoveElement DEF IInv
  <2> QED BY <1>0, <2>1, <2>2
<1>d. \A i : Readers(i)' = Readers(i) \ {c}
  BY <1>0, <1>a, Types DEF Readers
<1>3. TypeOK'
  <2>1. pending' \in [Frames -> Nat]
    <3>1. \A i \in mine : pending[i] > 0
      BY <1>2, Counted
    <3> HIDE DEF mine
    <3> QED BY <1>0, <3>1, Types DEF Frames
  <2>2. store_p' \in [Consumers -> 0..MaxFrames] /\ hold' \in [Consumers -> BOOLEAN]
    BY <1>0, Types DEF Null
  <2>3. consumers' \in 0..MaxConsumers
    <3>1. IsFiniteSet(registered')
      BY <1>0, FiniteReaders, FS_RemoveElement DEF IInv
    <3>2. Cardinality(registered') \in Nat
      BY <3>1, FS_CardinalityType
    <3> QED BY <1>0, <1>c, <3>2, Types
  <2>4. stores' \subseteq stores
    BY <1>0, Zenon
  <2>5. asleep' \subseteq registered' /\ woken' \subseteq registered'
    BY <1>0, Types
  <2>6. /\ registered' \subseteq Consumers /\ mtxLeaked' \in BOOLEAN
        /\ tail' \in 0..MaxFrames /\ stores' \subseteq 1..tail'
    BY <1>0, <2>4, Types
  <2> QED BY <2>1, <2>2, <2>3, <2>5, <2>6 DEF TypeOK
<1>4. RefCounts'
  <2> SUFFICES ASSUME NEW i \in stores'
               PROVE  pending'[i] = Cardinality(Readers(i)') /\ pending'[i] > 0
    BY <1>c DEF RefCounts
  <2>1. /\ consumers' # 0 /\ i \in stores /\ ~(i \in mine /\ LastReader(i))
        /\ pending' = [j \in 1..MaxFrames |-> IF j \in mine THEN pending[j] - 1 ELSE pending[j]]
    BY <1>0
  <2>2. CASE i \in mine
    <3>1. pending'[i] = pending[i] - 1 /\ pending[i] # 1
      BY <2>1, <2>2, Counted DEF LastReader, Frames
    <3>2. Cardinality(Readers(i) \ {c}) = Cardinality(Readers(i)) - 1
      BY <1>1, <2>1, <2>2, Counted, FS_RemoveElement
    <3>3. Readers(i)' = Readers(i) \ {c}
      BY <1>d
    <3>4. pending[i] \in Nat /\ pending[i] > 0 /\ pending[i] = Cardinality(Readers(i))
      BY <2>1, Counted
    <3> QED BY <3>1, <3>2, <3>3, <3>4
  <2>3. CASE i \notin mine
    <3>1. pending'[i] = pending[i]
      BY <2>1, <2>3, Counted DEF Frames
    <3>2. Readers(i)' = Readers(i) \ {c}
      BY <1>d
    <3>3. Readers(i) \ {c} = Readers(i)
      BY <1>1, <2>1, <2>3
    <3>4. Readers(i)' = Readers(i)
      BY <3>2, <3>3
    <3> QED BY <2>1, <3>1, <3>4, Counted
  <2> QED BY <2>2, <2>3
<1>5. NothingLost'
  <2> SUFFICES ASSUME NEW d \in registered', store_p'[d] # Null,
                      NEW i \in Frames, store_p'[d] <= i, i <= tail
               PROVE  i \in stores'
    BY <1>0 DEF NothingLost
  <2>1. d \in registered /\ d # c /\ store_p[d] # Null /\ store_p[d] <= i
    BY <1>0, <1>a, Types
  <2>2. i \in stores
    BY <2>1 DEF IInv, NothingLost
  <2>3. consumers' # 0
    BY <1>0, <1>c, FiniteReaders, FS_RemoveElement, FS_EmptySet DEF IInv
  <2>4. ~(i \in mine /\ LastReader(i))
    <3>1. d \in Readers(i)
      BY <2>1 DEF Readers
    <3>2. i \in mine /\ LastReader(i) => Readers(i) = {c}
      BY <1>1, <2>2, OnlyReader
    <3> QED BY <2>1, <3>1, <3>2
  <2> QED BY <1>0, <2>2, <2>3, <2>4
<1>6. SleepersHaveNothing'
  <2>1. \A d \in asleep : d \in Consumers /\ d # c
    BY <1>0, Types
  <2> QED BY <1>0, <1>a, <2>1 DEF IInv, SleepersHaveNothing
<1>7. Cursors'
  <2> SUFFICES ASSUME NEW d \in Consumers
               PROVE  /\ store_p'[d] <= tail
                      /\ hold'[d] => store_p'[d] # Null
                      /\ d \notin registered' => store_p'[d] = Null
    BY <1>0 DEF Cursors
  <2>1. CASE d = c
    BY <1>b, <2>1, Types DEF Null
  <2>2. CASE d # c
    BY <1>0, <1>a, <2>2 DEF IInv, Cursors
  <2> QED BY <2>1, <2>2
<1> QED BY <1>3, <1>4, <1>5, <1>6, <1>7 DEF IInv

\* queue_enqueue() preserves it: the new store waits for every consumer.
LEMMA EnqueueStep ==
  ASSUME IInv, Enqueue
  PROVE  IInv'
<1>0. /\ consumers # 0 /\ tail < MaxFrames /\ tail' = tail + 1
      /\ stores' = stores \cup {tail + 1}
      /\ pending' = [pending EXCEPT ![tail + 1] = consumers]
      /\ store_p' = [c \in Consumers |->
                       IF c \in registered /\ store_p[c] = Null THEN tail + 1 ELSE store_p[c]]
      /\ woken' = woken \cup asleep /\ asleep' = {}
      /\ UNCHANGED <<registered, consumers, hold, mtxLeaked>>
  BY DEF Enqueue, WakeAll
<1>1. tail + 1 \in 1..MaxFrames /\ tail \in Nat
  BY <1>0, Types
<1>2. TypeOK'
  <2>1. pending' \in [Frames -> Nat]
    BY <1>0, Types DEF Frames
  <2>2. store_p' \in [Consumers -> 0..MaxFrames]
    BY <1>0, <1>1, Types
  <2>3. stores' \subseteq 1..tail' /\ tail' \in 0..MaxFrames
    BY <1>0, <1>1, Types
  <2>4. asleep' \subseteq registered' /\ woken' \subseteq registered'
    BY <1>0, Types
  <2> QED BY <1>0, <2>1, <2>2, <2>3, <2>4, Types DEF TypeOK
<1>3. RefCounts'
  <2>1. consumers' = Cardinality(registered')
    BY <1>0 DEF IInv, RefCounts
  <2>2. ASSUME NEW i \in stores
        PROVE  pending'[i] = Cardinality(Readers(i)') /\ pending'[i] > 0
    <3>1. i \in 1..tail /\ pending'[i] = pending[i]
      BY <1>0, <1>1, Counted, Types
    <3>2. Readers(i)' = Readers(i)
      BY <1>0, <1>1, <3>1, Types DEF Readers
    <3> QED BY <3>1, <3>2, Counted
  <2>3. ASSUME NEW i, i = tail + 1
        PROVE  pending'[i] = Cardinality(Readers(i)') /\ pending'[i] > 0
    <3>1. pending'[i] = consumers
      BY <1>0, <1>1, <2>3, Types
    <3>2. ASSUME NEW d \in registered
          PROVE  store_p'[d] # Null /\ store_p'[d] <= i
      BY <1>0, <1>1, <2>3, Types DEF IInv, Cursors, Null
    <3>3. Readers(i)' = registered
      <4>1. Readers(i)' = {d \in registered : store_p'[d] # Null /\ store_p'[d] <= i}
        BY <1>0 DEF Readers
      <4> QED BY <3>2, <4>1, Zenon
    <3> QED BY <1>0, <2>1, <3>1, <3>3, Types
  <2> QED BY <1>0, <2>1, <2>2, <2>3 DEF RefCounts
<1>4. NothingLost'
  <2> SUFFICES ASSUME NEW d \in registered, store_p'[d] # Null,
                      NEW i \in Frames, store_p'[d] <= i, i <= tail + 1
               PROVE  i \in stores \cup {tail + 1}
    BY <1>0 DEF NothingLost
  <2>1. CASE store_p[d] = Null
    BY <1>0, <1>1, <2>1, Types DEF Frames
  <2>2. CASE store_p[d] # Null
    <3>1. store_p[d] <= i
      BY <1>0, <2>2, Types
    <3>2. i <= tail \/ i = tail + 1
      BY <1>1, Types DEF Frames
    <3> QED BY <2>2, <3>1, <3>2 DEF IInv, NothingLost
  <2> QED BY <2>1, <2>2
<1>5. SleepersHaveNothing'
  BY <1>0 DEF SleepersHaveNothing
<1>6. Cursors'
  <2> SUFFICES ASSUME NEW d \in Consumers
               PROVE  /\ store_p'[d] <= tail + 1
                      /\ hold[d] => store_p'[d] # Null
                      /\ d \notin registered => store_p'[d] = Null
    BY <1>0 DEF Cursors
  <2> QED BY <1>0, <1>1, Types DEF IInv, Cursors, Null
<1> QED BY <1>2, <1>3, <1>4, <1>5, <1>6 DEF IInv

\* queue_dequeue() that returns a buffer preserves it.
LEMMA DequeueStep ==
  ASSUME IInv, NEW c \in Consumers, Dequeue(c)
  PROVE  IInv'
<1>0. /\ c \in registered /\ c \notin asleep /\ store_p[c] # Null
      /\ hold' = [hold EXCEPT ![c] = TRUE]
      /\ UNCHANGED <<stores, pending, tail, registered, consumers, store_p, asleep, woken, mtxLeaked>>
  BY DEF Dequeue, Running
<1>1. TypeOK'
  <2>1. hold' \in [Consumers -> BOOLEAN]
    BY <1>0, Types
  <2> QED BY <1>0, <2>1 DEF IInv, TypeOK
<1>2. RefCounts' /\ NothingLost'
  BY <1>0, ListUnchanged
<1>3. \A d \in Consumers : d # c => hold'[d] = hold[d]
  BY <1>0, Types
<1>4. SleepersHaveNothing'
  <2>1. \A d \in asleep : d \in Consumers /\ d # c
    BY <1>0, Types
  <2> QED BY <1>0, <1>3, <2>1 DEF IInv, SleepersHaveNothing
<1>5. Cursors'
  BY <1>0, <1>3 DEF IInv, Cursors
<1> QED BY <1>1, <1>2, <1>4, <1>5 DEF IInv

\* queue_dequeueCond() up to the wait preserves it: an empty list means that
\* the cursor of the consumer is NULL, so whoever sleeps has nothing.
LEMMA DequeueCondWaitStep ==
  ASSUME IInv, NEW c \in Consumers, DequeueCondWait(c)
  PROVE  IInv'
<1>0. /\ c \in registered /\ (stores = {} \/ store_p[c] = Null)
      /\ asleep' = asleep \cup {c}
      /\ UNCHANGED <<stores, pending, tail, registered, consumers, store_p, hold, woken, mtxLeaked>>
  BY DEF DequeueCondWait, Running
<1>1. store_p[c] = Null /\ ~hold[c]
  <2>1. store_p[c] = Null
    BY <1>0, Linked
  <2> QED BY <2>1 DEF IInv, Cursors
<1>2. TypeOK'
  <2>1. asleep' \subseteq registered'
    BY <1>0, Types
  <2> QED BY <1>0, <2>1 DEF IInv, TypeOK
<1>3. RefCounts' /\ NothingLost'
  BY <1>0, ListUnchanged
<1>4. SleepersHaveNothing'
  BY <1>0, <1>1 DEF IInv, SleepersHaveNothing
<1>5. Cursors'
  BY <1>0 DEF IInv, Cursors
<1> QED BY <1>2, <1>3, <1>4, <1>5 DEF IInv

\* Signals, spurious ones included, and refusals move consumers only between
\* asleep, woken and running.
LEMMA WakeupStep ==
  ASSUME IInv,
         \/ Broadcast
         \/ RegisterRefused
         \/ \E c \in Consumers : Wake(c) \/ SpuriousWakeup(c)
  PROVE  IInv'
<1>1. /\ UNCHANGED <<stores, pending, tail, registered, consumers, store_p, hold>>
      /\ asleep' \subseteq asleep
      /\ woken' \subseteq woken \cup asleep
      /\ mtxLeaked' \in {mtxLeaked, TRUE}
  BY Zenon DEF Broadcast, WakeAll, RegisterRefused, Wake, SpuriousWakeup
<1>2. TypeOK'
  <2>1. asleep' \subseteq registered' /\ woken' \subseteq registered' /\ mtxLeaked' \in BOOLEAN
    BY <1>1, Types
  <2> QED BY <1>1, <2>1 DEF IInv, TypeOK
<1>3. RefCounts' /\ NothingLost'
  BY <1>1, ListUnchanged
<1>4. SleepersHaveNothing' /\ Cursors'
  BY <1>1 DEF IInv, SleepersHaveNothing, Cursors
<1> QED BY <1>2, <1>3, <1>4 DEF IInv

\* queue_free() preserves it: one reader less, and the cursor moves one store on.
LEMMA FreeStep ==
  ASSUME IInv, NEW c \in Consumers, Free(c)
  PROVE  IInv'
<1>p. PICK p : p = store_p[c]
  OBVIOUS
<1>0. /\ c \in registered /\ c \notin asleep /\ hold[c]
      /\ hold' = [hold EXCEPT ![c] = FALSE]
      /\ store_p' = [store_p EXCEPT ![c] = NextStore(p)]
      /\ pending' = [pending EXCEPT ![p] = pending[p] - 1]
      /\ stores' = IF LastReader(p) THEN stores \ {p} ELSE stores
      /\ UNCHANGED <<tail, registered, consumers, asleep, woken, mtxLeaked>>
  BY <1>p DEF Free, Running
<1>1. p # Null /\ p \in stores /\ p \in 1..tail
  BY <1>p, <1>0, Linked DEF IInv, Cursors
<1>2. NextStore(p) = IF p < tail THEN p + 1 ELSE Null
  BY <1>1, NextIs
<1>3. c \in Readers(p)
  BY <1>p, <1>0, <1>1, Types DEF Readers
<1>a. \A d \in Consumers : d # c => store_p'[d] = store_p[d] /\ hold'[d] = hold[d]
  BY <1>0, Types
<1>b. store_p'[c] = NextStore(p) /\ ~hold'[c]
  BY <1>0, Types
<1>c. pending[p] \in Nat /\ pending[p] > 0
  BY <1>1, Counted
<1>4. TypeOK'
  <2>1. pending' \in [Frames -> Nat]
    BY <1>0, <1>1, <1>c, Types DEF Frames
  <2>2. NextStore(p) \in 0..MaxFrames
    BY <1>1, <1>2, Types DEF Null
  <2>3. store_p' \in [Consumers -> 0..MaxFrames] /\ hold' \in [Consumers -> BOOLEAN]
    BY <1>0, <2>2, Types
  <2>4. stores' \subseteq stores
    BY <1>0
  <2> QED BY <1>0, <2>1, <2>3, <2>4, Types DEF TypeOK
<1>5. RefCounts'
  <2>1. consumers' = Cardinality(registered')
    BY <1>0 DEF IInv, RefCounts
  <2>2. ASSUME NEW i \in stores'
        PROVE  pending'[i] = Cardinality(Readers(i)') /\ pending'[i] > 0
    <3>0. i \in stores /\ i \in 1..tail /\ ~(i = p /\ LastReader(p))
      BY <1>0, Types
    <3>1. CASE i = p
      <4>1. pending'[p] = pending[p] - 1
        BY <1>0, <1>1, Types
      <4>2. Readers(p)' = Readers(p) \ {c}
        BY <1>0, <1>1, <1>2, <1>a, <1>b, Types DEF Readers
      <4>3. Cardinality(Readers(p) \ {c}) = Cardinality(Readers(p)) - 1
        BY <1>1, <1>3, Counted, FS_RemoveElement
      <4>4. pending[p] # 1
        BY <3>0, <3>1 DEF LastReader
      <4> QED BY <1>1, <1>c, <3>1, <4>1, <4>2, <4>3, <4>4, Counted
    <3>2. CASE i # p
      <4>1. pending'[i] = pending[i]
        BY <1>0, <3>2, Types
      <4>2. c \in Readers(i) <=> p < i
        BY <1>p, <1>0, <1>1, <3>0, <3>2, Types DEF Readers
      <4>3. c \in Readers(i)' <=> p < i
        BY <1>0, <1>1, <1>2, <1>b, <3>0, Types DEF Readers, Null
      <4>4. \A d : d # c => (d \in Readers(i)' <=> d \in Readers(i))
        BY <1>0, <1>a, Types DEF Readers
      <4>5. Readers(i)' = Readers(i)
        BY <4>2, <4>3, <4>4
      <4> QED BY <3>0, <4>1, <4>5, Counted
    <3> QED BY <3>1, <3>2
  <2> QED BY <2>1, <2>2 DEF RefCounts
<1>6. NothingLost'
  <2> SUFFICES ASSUME NEW d \in registered, store_p'[d] # Null,
                      NEW i \in Frames, store_p'[d] <= i, i <= tail
               PROVE  i \in stores'
    BY <1>0 DEF NothingLost
  <2>1. CASE d = c
    <3>1. i \in p..tail /\ i # p
      BY <1>1, <1>2, <1>b, <2>1, Types DEF Frames
    <3> QED BY <1>0, <1>1, <3>1, NoHoles
  <2>2. CASE d # c
    <3>1. store_p[d] # Null /\ store_p[d] <= i
      BY <1>a, <2>2, Types
    <3>2. i \in stores
      BY <3>1 DEF IInv, NothingLost
    <3>3. ~(i = p /\ LastReader(p))
      <4>1. d \in Readers(i)
        BY <3>1 DEF Readers
      <4>2. LastReader(p) => Readers(p) = {c}
        BY <1>1, <1>3, OnlyReader
      <4> QED BY <2>2, <4>1, <4>2
    <3> QED BY <1>0, <3>2, <3>3
  <2> QED BY <2>1, <2>2
<1>7. SleepersHaveNothing'
  <2>1. \A d \in asleep : d \in Consumers /\ d # c
    BY <1>0, Types
  <2> QED BY <1>0, <1>a, <2>1 DEF IInv, SleepersHaveNothing
<1>8. Cursors'
  <2> SUFFICES ASSUME NEW d \in Consumers
               PROVE  /\ store_p'[d] <= tail
                      /\ hold'[d] => store_p'[d] # Null
                      /\ d \notin registered => store_p'[d] = Null
    BY <1>0 DEF Cursors
  <2>1. CASE d = c
    BY <1>0, <1>1, <1>2, <1>b, <2>1, Types DEF Null
  <2>2. CASE d # c
    BY <1>0, <1>a, <2>2 DEF IInv, Cursors
  <2> QED BY <2>1, <2>2
<1> QED BY <1>4, <1>5, <1>6, <1>7, <1>8 DEF IInv

\* Every step of the queue preserves the invariant.
LEMMA NextStep ==
  ASSUME IInv, [Next]_vars
  PROVE  IInv'
<1>1. CASE Enqueue
  BY <1>1, EnqueueStep
<1>2. CASE Broadcast \/ RegisterRefused \/ \E c \in Consumers : Wake(c) \/ SpuriousWakeup(c)
  BY <1>2, WakeupStep
<1>3. ASSUME NEW c \in Consumers, RegisterConsumer(c)
      PROVE  IInv'
  BY <1>3, RegisterConsumerStep
<1>4. ASSUME NEW c \in Consumers, UnregisterConsumer(c)
      PROVE  IInv'
  BY <1>4, UnregisterConsumerStep
<1>5. ASSUME NEW c \in Consumers, DequeueCond(c)
      PROVE  IInv'
  BY <1>5, DequeueStep, DequeueCondWaitStep DEF DequeueCond
<1>6. ASSUME NEW c \in Consumers, Free(c)
      PROVE  IInv'
  BY <1>6, FreeStep
<1>7. CASE UNCHANGED vars
  BY <1>7 DEF vars, IInv, TypeOK, RefCounts, NothingLost, SleepersHaveNothing, Cursors, Readers
<1> QED
  BY <1>1, <1>2, <1>3, <1>4, <1>5, <1>6, <1>7, Zenon DEF Next

-----------------------------------------------------------------------------
(* The inductive invariant holds in every state of the queue.              *)
THEOREM Invariance == Spec => []IInv
<1>1. Init => IInv
  BY InitEstablishes
<1>2. IInv /\ [Next]_vars => IInv'
  BY NextStep
<1> QED BY <1>1, <1>2, PTL DEF Spec

(* Every variable of the queue keeps its type.                             *)
THEOREM TypeCorrect == Spec => []TypeOK
<1>1. IInv => TypeOK
  BY DEF IInv
<1> QED BY <1>1, Invariance, PTL

(* Reference counts are exact: no store leaks and none is freed while a    *)
(* consumer still has to release it (queue_free, queue_unregisterConsumer).*)
THEOREM CountsExact == Spec => []RefCounts
<1>1. IInv => RefCounts
  BY DEF IInv
<1> QED BY <1>1, Invariance, PTL

(* No consumer's store_p dangles, and every later frame is still linked.   *)
THEOREM NoFrameLost == Spec => []NothingLost
<1>1. IInv => NothingLost
  BY DEF IInv
<1> QED BY <1>1, Invariance, PTL

(* A consumer inside pthread_cond_wait() has nothing to read: queue_enqueue*)
(* and queue_dequeueCond leave no lost wakeup between them.                *)
THEOREM NoLostWakeup == Spec => []SleepersHaveNothing
<1>1. IInv => SleepersHaveNothing
  BY DEF IInv
<1> QED BY <1>1, Invariance, PTL

-----------------------------------------------------------------------------
\* A step leaves the store of a consumer that holds it in both states alone.
LEMMA HolderUndisturbed ==
  ASSUME IInv, IInv', [Next]_vars,
         NEW c \in Consumers, c \in registered, hold[c], hold'[c]
  PROVE  store_p'[c] = store_p[c] /\ store_p[c] \in stores'
<1>1. store_p[c] # Null /\ store_p[c] \in 0..MaxFrames /\ MaxFrames \in Nat
  BY Types DEF IInv, Cursors
<1>2. store_p'[c] = store_p[c] /\ c \in registered'
  <2>1. CASE Enqueue
    BY <1>1, <2>1 DEF Enqueue
  <2>2. CASE \/ Broadcast \/ RegisterRefused
             \/ \E d \in Consumers : DequeueCond(d) \/ Wake(d) \/ SpuriousWakeup(d)
    BY <2>2, Zenon DEF Broadcast, RegisterRefused, DequeueCond, DequeueCondWait, Dequeue,
                       Wake, SpuriousWakeup
  <2>3. ASSUME NEW d \in Consumers, RegisterConsumer(d)
        PROVE  store_p'[c] = store_p[c] /\ c \in registered'
    <3>1. d # c
      BY <2>3 DEF RegisterConsumer
    <3> QED BY <2>3, <3>1, Types DEF RegisterConsumer
  <2>4. ASSUME NEW d \in Consumers, UnregisterConsumer(d)
        PROVE  store_p'[c] = store_p[c] /\ c \in registered'
    <3>1. /\ hold' = [hold EXCEPT ![d] = FALSE]
          /\ store_p' = [store_p EXCEPT ![d] = Null]
          /\ registered' = registered \ {d}
      BY <2>4, Zenon DEF UnregisterConsumer
    <3>2. d # c
      BY <3>1, Types
    <3> QED BY <3>1, <3>2, Types
  <2>5. ASSUME NEW d \in Consumers, Free(d)
        PROVE  store_p'[c] = store_p[c] /\ c \in registered'
    <3>1. /\ hold' = [hold EXCEPT ![d] = FALSE]
          /\ store_p' = [store_p EXCEPT ![d] = NextStore(store_p[d])]
          /\ registered' = registered
      BY <2>5 DEF Free
    <3>2. d # c
      BY <3>1, Types
    <3> QED BY <3>1, <3>2, Types
  <2>6. CASE UNCHANGED vars
    BY <2>6 DEF vars
  <2> QED BY <2>1, <2>2, <2>3, <2>4, <2>5, <2>6, Zenon DEF Next
<1>3. store_p[c] <= tail'
  BY <1>2 DEF IInv, Cursors
<1>4. store_p[c] \in Frames /\ store_p[c] <= store_p[c]
  BY <1>1 DEF Frames, Null
<1>5. \A i \in Frames : store_p'[c] <= i /\ i <= tail' => i \in stores'
  BY <1>1, <1>2 DEF IInv, NothingLost
<1> QED BY <1>2, <1>3, <1>4, <1>5

(* The buffer a consumer got from queue_dequeue() is neither freed nor     *)
(* replaced before the consumer itself calls queue_free() or unregisters.  *)
THEOREM HeldBufferStays == Spec => HeldStoreStays
<1> DEFINE Stays ==
      \A c \in Consumers :
        c \in registered /\ hold[c] /\ hold'[c]
          => store_p'[c] = store_p[c] /\ store_p[c] \in stores'
<1>1. IInv /\ IInv' /\ [Next]_vars => Stays
  BY HolderUndisturbed
<1>2. IInv /\ IInv' /\ [Next]_vars => [Stays]_vars
  BY <1>1
<1> HIDE DEF Stays
<1>3. Spec => [][Stays]_vars
  BY <1>2, Invariance, PTL DEF Spec
<1> QED BY <1>3 DEF Stays, HeldStoreStays

-----------------------------------------------------------------------------
(* The frame queue implements the broadcast log.                            *)

\* A consumer has passed the frames before the first one it still reads.
LEMMA PassedIs ==
  ASSUME IInv
  PROVE  /\ Passed \in [Consumers -> 0..tail]
         /\ \A c \in registered, i \in 1..tail : Passed[c] < i <=> c \in Readers(i)
         /\ \A c \in Consumers : c \notin registered => Passed[c] = 0
<1>1. ASSUME NEW c \in Consumers
      PROVE  /\ store_p[c] \in 0..tail /\ tail \in Nat
  BY Types DEF IInv, Cursors
<1>2. Passed \in [Consumers -> 0..tail]
  BY <1>1 DEF Passed, Null
<1>3. ASSUME NEW c \in registered, NEW i \in 1..tail
      PROVE  Passed[c] < i <=> c \in Readers(i)
  <2>1. c \in Consumers
    BY Types
  <2> QED BY <1>1, <2>1 DEF Passed, Readers, Null
<1>4. \A c \in Consumers : c \notin registered => Passed[c] = 0
  BY DEF Passed
<1> QED BY <1>2, <1>3, <1>4

\* What is linked is what some consumer still has to release.
LEMMA RetainedIsNeeded ==
  ASSUME IInv
  PROVE  stores = Log!Needed(registered, Passed, tail)
<1>1. Log!Needed(registered, Passed, tail) = {i \in 1..tail : \E c \in registered : Passed[c] < i}
  BY Zenon DEF Log!Needed
<1>2. ASSUME NEW i \in 1..tail
      PROVE  (\E c \in registered : Passed[c] < i) <=> Readers(i) # {}
  <2>1. \A c \in registered : Passed[c] < i <=> c \in Readers(i)
    BY PassedIs
  <2>2. Readers(i) \subseteq registered
    BY DEF Readers
  <2> QED BY <2>1, <2>2, Zenon
<1>3. ASSUME NEW i \in 1..tail PROVE i \in stores <=> Readers(i) # {}
  <2>1. i \in stores => Readers(i) # {}
    BY Counted
  <2>2. ASSUME NEW c \in Readers(i) PROVE i \in stores
    <3>1. c \in registered /\ store_p[c] # Null /\ store_p[c] <= i
      BY DEF Readers
    <3>2. i \in store_p[c]..tail
      BY <3>1, Types
    <3> QED BY <3>1, <3>2, Linked
  <2> QED BY <2>1, <2>2
<1>4. stores \subseteq 1..tail
  BY Types
<1> QED BY <1>1, <1>2, <1>3, <1>4, Zenon

\* The same facts about the state after a step.
LEMMA MappedAfter ==
  IInv' => /\ Passed' \in [Consumers -> 0..tail']
           /\ stores' = Log!Needed(registered', Passed', tail')
           /\ \A c \in Consumers : c \notin registered' => Passed'[c] = 0
<1> DEFINE Mapped ==
      /\ Passed \in [Consumers -> 0..tail]
      /\ stores = Log!Needed(registered, Passed, tail)
      /\ \A c \in Consumers : c \notin registered => Passed[c] = 0
<1>1. IInv => Mapped
  BY PassedIs, RetainedIsNeeded
<1>2. (IInv => Mapped)'
  BY <1>1, PTL
<1> QED BY <1>2

\* queue_create() maps to the initial state of the log.
LEMMA InitImplements == Init => Log!Init
<1> SUFFICES ASSUME Init PROVE Log!Init
  OBVIOUS
<1>1. Passed = [c \in Consumers |-> 0]
  BY DEF Init, Passed
<1>2. {c \in registered : hold[c]} = {}
  BY DEF Init
<1> QED BY <1>1, <1>2 DEF Init, Log!Init

\* Every step is a step of the log, or leaves it alone.
LEMMA StepImplements ==
  ASSUME IInv, IInv', [Next]_vars
  PROVE  [Log!Next]_(Log!logVars)
<1>t. /\ tail \in Nat /\ registered \subseteq Consumers
      /\ store_p \in [Consumers -> 0..MaxFrames] /\ hold \in [Consumers -> BOOLEAN]
  BY Types
<1>p. /\ Passed \in [Consumers -> 0..tail] /\ Passed' \in [Consumers -> 0..tail']
      /\ stores' = Log!Needed(registered', Passed', tail')
      /\ \A c \in Consumers : c \notin registered' => Passed'[c] = 0
  BY PassedIs, MappedAfter
<1>1. CASE Enqueue
  <2>1. /\ tail' = tail + 1 /\ tail < MaxFrames /\ registered' = registered /\ hold' = hold
        /\ store_p' = [c \in Consumers |->
                         IF c \in registered /\ store_p[c] = Null THEN tail + 1 ELSE store_p[c]]
    BY <1>1 DEF Enqueue
  <2>2. registered # {}
    BY <1>1, FS_EmptySet DEF Enqueue, IInv, RefCounts
  <2>3. ASSUME NEW c \in Consumers PROVE Passed'[c] = Passed[c]
    BY <1>t, <2>1, <2>3 DEF Passed, Null
  <2>4. Passed' = Passed
    BY <1>p, <2>3
  <2>5. Log!Publish
    BY <1>p, <2>1, <2>2, <2>4 DEF Log!Publish
  <2> QED BY <2>5 DEF Log!Next
<1>2. ASSUME NEW c \in Consumers, RegisterConsumer(c)
      PROVE  Log!Subscribe(c)
  <2>1. /\ c \notin registered /\ registered' = registered \cup {c}
        /\ store_p' = [store_p EXCEPT ![c] = FirstStore]
        /\ hold' = [hold EXCEPT ![c] = FALSE] /\ UNCHANGED <<stores, tail>>
    BY <1>2, Zenon DEF RegisterConsumer
  <2>2. {d \in registered' : hold'[d]} = {d \in registered : hold[d]}
    BY <1>t, <2>1
  <2>3. \/ stores = {} /\ FirstStore = Null
        \/ FirstStore \in stores /\ \A i \in stores : FirstStore <= i
    <3>1. stores \in SUBSET (1..tail)
      BY Types
    <3> QED BY <1>t, <3>1, LeastOrNullFinds, Zenon DEF FirstStore
  <2>4. PICK first : first = IF FirstStore = Null THEN tail ELSE FirstStore - 1
    OBVIOUS
  <2>5. first \in 0..tail /\ stores = (first + 1)..tail
    <3>1. stores \subseteq 1..tail
      BY Types
    <3>2. CASE FirstStore = Null
      <4>1. first = tail /\ stores = {}
        BY <2>3, <2>4, <3>1, <3>2 DEF Null
      <4>2. (tail + 1)..tail = {}
        BY <1>t
      <4> QED BY <1>t, <4>1, <4>2
    <3>3. CASE FirstStore # Null
      <4>1. FirstStore \in 1..tail /\ first = FirstStore - 1 /\ FirstStore \in stores
        BY <1>t, <2>3, <2>4, <3>1, <3>3
      <4>2. \A j \in FirstStore..tail : j \in stores
        BY <4>1, NoHoles
      <4>3. first + 1 = FirstStore /\ first \in 0..tail
        BY <1>t, <4>1
      <4>4. \A j \in stores : j \in FirstStore..tail
        BY <1>t, <2>3, <3>1, <4>1 DEF Null
      <4>5. stores = FirstStore..tail
        BY <4>2, <4>4, Zenon
      <4> QED BY <4>3, <4>5
    <3> QED BY <3>2, <3>3
  <2>6. Passed'[c] = first
    BY <1>t, <2>1, <2>4 DEF Passed
  <2>7. \A d \in Consumers : d # c => Passed'[d] = Passed[d]
    BY <1>t, <2>1 DEF Passed
  <2>8. Passed' = [Passed EXCEPT ![c] = first]
    BY <1>p, <2>6, <2>7
  <2> QED BY <2>1, <2>2, <2>5, <2>8 DEF Log!Subscribe
<1>3. ASSUME NEW c \in Consumers, UnregisterConsumer(c)
      PROVE  Log!Unsubscribe(c)
  <2>1. /\ c \in registered /\ registered' = registered \ {c}
        /\ store_p' = [store_p EXCEPT ![c] = Null]
        /\ hold' = [hold EXCEPT ![c] = FALSE] /\ UNCHANGED tail
    BY <1>3, Zenon DEF UnregisterConsumer, Running
  <2>2. {d \in registered' : hold'[d]} = {d \in registered : hold[d]} \ {c}
    BY <1>t, <2>1
  <2>3. \A d \in Consumers : d # c => Passed'[d] = Passed[d]
    BY <1>t, <2>1 DEF Passed
  <2>4. Passed' = [Passed EXCEPT ![c] = 0]
    BY <1>p, <2>1, <2>3
  <2> QED BY <1>p, <2>1, <2>2, <2>4 DEF Log!Unsubscribe
<1>4. ASSUME NEW c \in Consumers, Dequeue(c)
      PROVE  Log!Read(c)
  <2>1. /\ c \in registered /\ ~hold[c] /\ store_p[c] # Null
        /\ hold' = [hold EXCEPT ![c] = TRUE] /\ UNCHANGED <<stores, tail, registered, store_p>>
    BY <1>4 DEF Dequeue, Running
  <2>2. {d \in registered' : hold'[d]} = {d \in registered : hold[d]} \cup {c}
    BY <1>t, <2>1
  <2>3. Passed' = Passed
    BY <2>1 DEF Passed
  <2>4. Passed[c] < tail
    BY <1>t, <2>1, Linked DEF Passed
  <2> QED BY <2>1, <2>2, <2>3, <2>4 DEF Log!Read
<1>5. ASSUME NEW c \in Consumers, Free(c)
      PROVE  Log!Release(c)
  <2>1. /\ c \in registered /\ hold[c]
        /\ store_p' = [store_p EXCEPT ![c] = NextStore(store_p[c])]
        /\ hold' = [hold EXCEPT ![c] = FALSE] /\ UNCHANGED <<tail, registered>>
    BY <1>5 DEF Free, Running
  <2>2. {d \in registered' : hold'[d]} = {d \in registered : hold[d]} \ {c}
    BY <1>t, <2>1
  <2>3. store_p[c] # Null /\ store_p[c] \in 1..tail /\ store_p[c] \in stores
    BY <2>1, Linked DEF IInv, Cursors
  <2>4. NextStore(store_p[c]) = IF store_p[c] < tail THEN store_p[c] + 1 ELSE Null
    BY <2>3, NextIs
  <2>5. Passed'[c] = Passed[c] + 1
    BY <1>t, <2>1, <2>3, <2>4 DEF Passed, Null
  <2>6. \A d \in Consumers : d # c => Passed'[d] = Passed[d]
    BY <1>t, <2>1 DEF Passed
  <2>7. Passed' = [Passed EXCEPT ![c] = Passed[c] + 1]
    BY <1>p, <2>5, <2>6
  <2> QED BY <1>p, <2>1, <2>2, <2>7 DEF Log!Release
<1>6. CASE \/ Broadcast \/ RegisterRefused \/ UNCHANGED vars
           \/ \E c \in Consumers : DequeueCondWait(c) \/ Wake(c) \/ SpuriousWakeup(c)
  <2>1. UNCHANGED <<tail, registered, store_p, hold, stores>>
    BY <1>6, Zenon DEF Broadcast, RegisterRefused, vars, DequeueCondWait, Wake, SpuriousWakeup
  <2> QED BY <2>1 DEF Passed, Log!logVars
<1> QED
  BY <1>1, <1>2, <1>3, <1>4, <1>5, <1>6, Zenon DEF Next, DequeueCond, Log!Next

(* The queue implements its abstract specification: whatever the           *)
(* interleaving, a consumer reads every frame enqueued while it is         *)
(* registered, once and in order, and exactly the frames somebody still    *)
(* has to release are kept.                                                *)
THEOREM QueueImplementsLog == Spec => ImplementsLog
<1>1. Init => Log!Init
  BY InitImplements
<1>2. IInv /\ IInv' /\ [Next]_vars => [Log!Next]_(Log!logVars)
  BY StepImplements
<1> QED
  BY <1>1, <1>2, Invariance, PTL DEF Spec, ImplementsLog, Log!Spec
=============================================================================
