----------------------------- MODULE FrameQueue -----------------------------
(***************************************************************************)
(* The frame queue of the native video path (jni/iva/queue/queue.cpp): a   *)
(* linked list of stores shared by several registered consumers.  Every    *)
(* store counts the consumers that have not released it yet; the last one  *)
(* to release it frees it.  A consumer that reached the end of the list    *)
(* has a NULL store_p and sleeps on the queue's condition variable until   *)
(* the next queue_enqueue().                                               *)
(*                                                                         *)
(* Every operation runs under queue_t.mtx, so each is one action; only     *)
(* pthread_cond_wait() splits an operation in two (DequeueCond, Wake).     *)
(* A store is named by the serial number of its queue_enqueue() call: the  *)
(* list only grows at its tail, so the order of the list is the order of   *)
(* the numbers, and nextstore_p is the next linked number.                 *)
(***************************************************************************)
EXTENDS Naturals, FiniteSets

CONSTANTS
  Consumers,     \* addresses a queue_consumer_t can have
  MaxConsumers,  \* QUEUE_MAX_CONSUMERS
  MaxFrames,     \* bound on the number of stored frames
  MemoryFails    \* may malloc() of a queue_consumer_t return NULL?

ASSUME ConsumersAssumption == IsFiniteSet(Consumers)
ASSUME BoundsAssumption == MaxConsumers \in Nat \ {0} /\ MaxFrames \in Nat
ASSUME MemoryAssumption == MemoryFails \in BOOLEAN

VARIABLES
  stores,      \* serial numbers linked between firststore_p and laststore_p
  pending,     \* queue_store_t.consumers of each store
  tail,        \* serial number of the last frame that was stored
  registered,  \* the list that starts at firstconsumer_p
  consumers,   \* queue_t.consumers, the counter kept beside that list
  store_p,     \* queue_consumer_t.store_p
  hold,        \* queue_consumer_t.hold
  asleep,      \* consumers inside pthread_cond_wait()
  woken,       \* consumers signalled, that have not re-acquired mtx yet
  mtxLeaked    \* a call returned without unlocking mtx

vars == <<stores, pending, tail, registered, consumers, store_p, hold,
          asleep, woken, mtxLeaked>>

Null == 0
Frames == 1..MaxFrames

Least(S) == CHOOSE i \in S : \A j \in S : i <= j
LeastOrNull(S) == IF S = {} THEN Null ELSE Least(S)

(* Faulty variants, which the properties below must tell from the code:    *)
(* a new consumer that starts at the end of the list, a walk that begins   *)
(* one store late or at firststore_p, a store freed by the first consumer  *)
(* that releases it, a broadcast that reaches nobody.                      *)
EndOfList == Null
FromNext(p) == IF p = Null THEN {} ELSE {j \in stores : j > p}
FromFirst(p) == stores
AnyReader(i) == pending[i] >= 1
WakeNobody == UNCHANGED <<asleep, woken>>

\* firststore_p, and the nextstore_p of store i.
FirstStore == LeastOrNull(stores)
NextStore(i) == LeastOrNull({j \in stores : j > i})

\* The stores a walk along nextstore_p meets when it starts at p.
From(p) == IF p = Null THEN {} ELSE {j \in stores : j >= p}

\* Decrementing queue_store_t.consumers of store i brings it to zero.
LastReader(i) == pending[i] = 1

-----------------------------------------------------------------------------
(* queue_create() *)
Init ==
  /\ stores = {}
  /\ pending = [i \in Frames |-> 0]
  /\ tail = 0
  /\ registered = {}
  /\ consumers = 0
  /\ store_p = [c \in Consumers |-> Null]
  /\ hold = [c \in Consumers |-> FALSE]
  /\ asleep = {}
  /\ woken = {}
  /\ mtxLeaked = FALSE

\* pthread_mutex_lock() succeeds, and the thread of c is not inside a call.
Running(c) == c \in registered /\ c \notin asleep /\ c \notin woken
LockMtx == ~mtxLeaked

(* queue_registerConsumer(): the new consumer starts at the first store    *)
(* and becomes one of the consumers every linked store waits for.          *)
RegisterConsumer(c) ==
  /\ LockMtx
  /\ c \notin registered
  /\ consumers # MaxConsumers
  /\ store_p' = [store_p EXCEPT ![c] = FirstStore]
  /\ hold' = [hold EXCEPT ![c] = FALSE]
  /\ consumers' = consumers + 1
  /\ pending' = [i \in Frames |-> IF i \in stores THEN pending[i] + 1 ELSE pending[i]]
  /\ registered' = registered \cup {c}
  /\ UNCHANGED <<stores, tail, asleep, woken, mtxLeaked>>

\* Both refusals return NULL with mtx still locked.
RegisterRefused ==
  /\ LockMtx
  /\ consumers = MaxConsumers \/ MemoryFails
  /\ mtxLeaked' = TRUE
  /\ UNCHANGED <<stores, pending, tail, registered, consumers, store_p, hold, asleep, woken>>

\* queue_flushInternal(): frees every store; no consumer's store_p is reset.
FlushInternal == stores' = {}

(* queue_unregisterConsumer(): gives back what the consumer had not        *)
(* released yet; the last consumer to leave empties the queue.             *)
UnregisterConsumer(c) ==
  /\ LockMtx
  /\ Running(c)
  /\ registered' = registered \ {c}
  /\ consumers' = consumers - 1
  /\ IF consumers' # 0
     THEN LET mine == From(store_p[c]) IN
          /\ pending' = [i \in Frames |-> IF i \in mine THEN pending[i] - 1 ELSE pending[i]]
          /\ stores' = stores \ {i \in mine : LastReader(i)}
     ELSE FlushInternal /\ UNCHANGED pending
  /\ store_p' = [store_p EXCEPT ![c] = Null]
  /\ hold' = [hold EXCEPT ![c] = FALSE]
  /\ UNCHANGED <<tail, asleep, woken, mtxLeaked>>

\* pthread_cond_broadcast()
WakeAll ==
  /\ woken' = woken \cup asleep
  /\ asleep' = {}

(* queue_enqueue() with at least one consumer: the frame is linked at the  *)
(* tail, the consumers at the end of the list are pointed at it, and every *)
(* sleeping consumer is woken.                                             *)
Enqueue ==
  /\ LockMtx
  /\ consumers # 0
  /\ tail < MaxFrames
  /\ tail' = tail + 1
  /\ stores' = stores \cup {tail'}
  /\ pending' = [pending EXCEPT ![tail'] = consumers]
  /\ store_p' = [c \in Consumers |->
                   IF c \in registered /\ store_p[c] = Null THEN tail' ELSE store_p[c]]
  /\ WakeAll
  /\ UNCHANGED <<registered, consumers, hold, mtxLeaked>>

\* queue_dequeue() that returns E_OK; its error returns change nothing.
Dequeue(c) ==
  /\ LockMtx
  /\ Running(c)
  /\ stores # {} /\ store_p[c] # Null /\ ~hold[c]
  /\ hold' = [hold EXCEPT ![c] = TRUE]
  /\ UNCHANGED <<stores, pending, tail, registered, consumers, store_p, asleep, woken, mtxLeaked>>

\* queue_dequeueCond() that finds nothing to read, up to pthread_cond_wait().
DequeueCondWait(c) ==
  /\ LockMtx
  /\ Running(c)
  /\ stores = {} \/ store_p[c] = Null
  /\ asleep' = asleep \cup {c}
  /\ UNCHANGED <<stores, pending, tail, registered, consumers, store_p, hold, woken, mtxLeaked>>

DequeueCond(c) == DequeueCondWait(c) \/ Dequeue(c)

\* pthread_cond_wait() returns: queue_dequeueCond() answers E_QUEUE_EMPTY.
Wake(c) ==
  /\ LockMtx
  /\ c \in woken
  /\ woken' = woken \ {c}
  /\ UNCHANGED <<stores, pending, tail, registered, consumers, store_p, hold, asleep, mtxLeaked>>

\* POSIX lets pthread_cond_wait() return although nobody signalled.
SpuriousWakeup(c) ==
  /\ c \in asleep
  /\ asleep' = asleep \ {c}
  /\ woken' = woken \cup {c}
  /\ UNCHANGED <<stores, pending, tail, registered, consumers, store_p, hold, mtxLeaked>>

\* queue_broadcast(), which does not take mtx.
Broadcast ==
  /\ WakeAll
  /\ UNCHANGED <<stores, pending, tail, registered, consumers, store_p, hold, mtxLeaked>>

(* queue_free(): the consumer moves on to the next store, and the store it *)
(* held is freed if no consumer still has to release it.                   *)
Free(c) ==
  /\ LockMtx
  /\ Running(c)
  /\ hold[c]
  /\ hold' = [hold EXCEPT ![c] = FALSE]
  /\ store_p' = [store_p EXCEPT ![c] = NextStore(@)]
  /\ pending' = [pending EXCEPT ![store_p[c]] = @ - 1]
  /\ stores' = IF LastReader(store_p[c]) THEN stores \ {store_p[c]} ELSE stores
  /\ UNCHANGED <<tail, registered, consumers, asleep, woken, mtxLeaked>>

Next ==
  \/ Enqueue
  \/ Broadcast
  \/ RegisterRefused
  \/ \E c \in Consumers :
       \/ RegisterConsumer(c)
       \/ UnregisterConsumer(c)
       \/ DequeueCond(c)
       \/ Wake(c)
       \/ SpuriousWakeup(c)
       \/ Free(c)

Spec == Init /\ [][Next]_vars

(* A consumer is a thread that loops over queue_dequeueCond() and          *)
(* queue_free() (Decode::_ThreadDecode, VideoDrawer::renderFrame): the     *)
(* scheduler runs it again and again, and the kernel lets a signalled      *)
(* waiter re-acquire mtx, which no call holds for long.                    *)
Fairness == \A c \in Consumers : WF_vars(DequeueCond(c)) /\ WF_vars(Wake(c)) /\ WF_vars(Free(c))

FairSpec == Spec /\ Fairness

-----------------------------------------------------------------------------
(* Types, and the bookkeeping that is kept twice.                          *)
TypeOK ==
  /\ stores \subseteq 1..tail
  /\ tail \in 0..MaxFrames
  /\ pending \in [Frames -> Nat]
  /\ registered \subseteq Consumers
  /\ consumers \in 0..MaxConsumers
  /\ store_p \in [Consumers -> 0..MaxFrames]
  /\ hold \in [Consumers -> BOOLEAN]
  /\ asleep \subseteq registered
  /\ woken \subseteq registered
  /\ mtxLeaked \in BOOLEAN

\* The registered consumers that have not released store i yet.
Readers(i) == {c \in registered : store_p[c] # Null /\ store_p[c] <= i}

(* Reference counts are exact: a linked store counts the consumers that    *)
(* still have to release it and there is at least one, so no store leaks   *)
(* and none is freed early, whatever consumers join and leave meanwhile    *)
(* (queue_incStoreConsumers, queue_decStoreConsumers, queue_free).         *)
RefCounts ==
  /\ consumers = Cardinality(registered)
  /\ \A i \in stores : pending[i] = Cardinality(Readers(i)) /\ pending[i] > 0

(* Nothing a consumer still has to read is freed: its store_p, and every   *)
(* later frame, is linked.  A store_p outside the list is a dangling       *)
(* pointer queue_dequeue() would follow.                                   *)
NothingLost ==
  \A c \in registered :
    store_p[c] # Null => \A i \in Frames : store_p[c] <= i /\ i <= tail => i \in stores

(* A buffer handed out by queue_dequeue() stays where it is until its      *)
(* holder calls queue_free() or unregisters, whatever the others do.       *)
HeldStoreStays ==
  [][\A c \in Consumers :
       c \in registered /\ hold[c] /\ hold'[c]
         => store_p'[c] = store_p[c] /\ store_p[c] \in stores']_vars

(* No lost wakeup inside the queue: a consumer that sleeps has nothing to  *)
(* read and nothing to release.                                            *)
SleepersHaveNothing ==
  \A c \in asleep : store_p[c] = Null /\ ~hold[c]

(* Every frame enqueued while a consumer is registered is released by it   *)
(* or the consumer leaves: the loop of dequeueCond and free drains it,     *)
(* unless a refused registration has left the queue locked.                *)
EveryFrameDelivered ==
  \A c \in Consumers, i \in Frames :
    (c \in registered /\ store_p[c] # Null /\ store_p[c] <= i /\ i <= tail)
      ~> (c \notin registered \/ store_p[c] = Null \/ store_p[c] > i \/ mtxLeaked)

=============================================================================
