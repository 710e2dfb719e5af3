------------------------ MODULE DecodePipelineProofs ------------------------
(***************************************************************************)
(* The decode pipeline is type correct and its queues outlive the threads  *)
(* that use them, for any number of drawers and frames.                    *)
(*                                                                         *)
(* QueuesOutliveUsers is not inductive.  For the decoder thread it rests   *)
(* on running_, which is set as long as the thread is in its loop.  For    *)
(* the render thread it rests on two plain flags, each written by one side *)
(* before it reads the other: the thread sets rendering and then tests     *)
(* stopThread, the destructor sets stopThread and then tests rendering.    *)
(***************************************************************************)
EXTENDS DecodePipeline, SequenceTheorems, TLAPS

\* The states of the UI thread in which the decoder thread may be running.
DecoderMayRun ==
  {"showing", "disconnected", "announced", "awaiting", "awaited", "halting",
   "joining", "blocked"}

\* When the drawer exists, and when it has been told to stop.
Lifetime ==
  /\ alive <=> ui \notin {"closed", "freed"}
  /\ alive => (stopThread <=> ui \notin {"showing", "disconnected"})

\* running_ is set while the decoder thread is in its loop.
DecoderCovered ==
  decoder \in DecoderInQueue \cup {"testing", "unregistered"}
    => running /\ ui \in DecoderMayRun

\* rendering is set while the render thread is in a drawer that exists, and
\* the destructor does not get past its loop while it is in the queue.
RendererCovered ==
  /\ render \in RenderInQueue
       => /\ ThisAlive /\ rendering
          /\ ui \in {"showing", "disconnected", "announced", "awaiting"}
  /\ render \in {"testing", "returning"} /\ ThisAlive => rendering

\* A thread that has a frame in hand finds it at the head of its queue, and
\* a buffer is only worked on with a frame in hand.
InHand ==
  /\ decoder \in {"got", "decoding", "freeing"} => encoded # <<>>
  /\ decoder # "decoding" => pending = 0
  /\ render \in {"got", "drawing"} => decoded # <<>>

\* The frames in queueIn whose bytes are not in the decoder's buffer yet.
Waiting == Len(encoded) - (IF decoder \in {"decoding", "freeing"} THEN 1 ELSE 0)

\* The most bytes that n frames have.
Bytes(n) == FrameSize * n

\* Every picture is paid for by a byte that was received, and so are the
\* bytes of the buffer, those kept for the next frame and those to come.
FramesCounted == Len(decoded) + pending + left + Bytes(Waiting) <= Bytes(received)

IInv ==
  /\ Types /\ Lifetime /\ DecoderCovered /\ RendererCovered /\ InHand /\ FramesCounted

-----------------------------------------------------------------------------
\* Control: which thread may be where, while the others are somewhere.
LEMMA ControlInductive ==
  ASSUME Types, Lifetime, DecoderCovered, RendererCovered, [Next]_vars
  PROVE  (Lifetime /\ DecoderCovered /\ RendererCovered)'
<1> USE DEF Types, Lifetime, DecoderCovered, RendererCovered, ThisAlive,
            DecoderInQueue, DecoderMayRun, RenderInQueue, drawer, flags, queues, bytes, network
<1>1. CASE InitDrawer
  BY <1>1 DEF InitDrawer, UiStep, InProcess
<1>2. CASE Disconnect
  BY <1>2 DEF Disconnect, UiStep, InProcess
<1>3. CASE SetStopThread
  BY <1>3 DEF SetStopThread, UiStep, InProcess
<1>4. CASE BroadcastDecoded
  BY <1>4 DEF BroadcastDecoded, UiStep, Woken, InProcess
<1>5. CASE AwaitRenderer
  BY <1>5 DEF AwaitRenderer, UiStep, RenderingSeenOff, InProcess
<1>6. CASE ClearThreadRun
  BY <1>6 DEF ClearThreadRun, UiStep, InProcess
<1>7. CASE BroadcastEncoded
  BY <1>7 DEF BroadcastEncoded, UiStep, Woken, InProcess
<1>8. CASE TestRunning
  BY <1>8 DEF TestRunning, UiStep, InProcess
<1>9. CASE Join
  BY <1>9 DEF Join, UiStep, InProcess
<1>10. CASE FreeDrawer
  BY <1>10 DEF FreeDrawer, UiStep, InProcess
<1>11. CASE ForgetDrawer
  BY <1>11 DEF ForgetDrawer, UiStep, InProcess
<1>12. CASE EnqueueFrame
  BY <1>12 DEF EnqueueFrame, Woken, InProcess
<1>13. CASE ReleaseArray
  BY <1>13 DEF ReleaseArray, InProcess
<1>14. CASE DecoderTests
  BY <1>14 DEF DecoderTests, DecoderStep, InProcess
<1>15. CASE DecoderDequeues
  BY <1>15 DEF DecoderDequeues, DecoderStep, InProcess
<1>16. CASE DecoderWakes
  BY <1>16 DEF DecoderWakes, DecoderStep, InProcess
<1>17. CASE DecoderGets
  BY <1>17 DEF DecoderGets, DecoderStep, InProcess
<1>18. CASE DecodesFrame
  BY <1>18 DEF DecodesFrame, DecoderStep, Woken, InProcess
<1>34. CASE DecodeFails
  BY <1>34 DEF DecodeFails, DecoderStep, InProcess
<1>19. CASE DecoderFrees
  BY <1>19 DEF DecoderFrees, DecoderStep, Released, InProcess
<1>20. CASE DecoderLeaves
  BY <1>20 DEF DecoderLeaves, DecoderStep, InProcess
<1>21. CASE DecoderNotRunning
  BY <1>21 DEF DecoderNotRunning, DecoderStep, InProcess
<1>22. CASE DecoderEnds
  BY <1>22 DEF DecoderEnds, DecoderStep, InProcess
<1>23. CASE TestPointer
  BY <1>23 DEF TestPointer, RenderStep
<1>24. CASE SetRendering
  BY <1>24 DEF SetRendering, RenderStep
<1>25. CASE TestStop
  BY <1>25 DEF TestStop, RenderStep
<1>26. CASE RendererDequeues
  BY <1>26 DEF RendererDequeues, RenderStep
<1>27. CASE RendererWakes
  BY <1>27 DEF RendererWakes, RenderStep
<1>28. CASE RendererGets
  BY <1>28 DEF RendererGets, RenderStep
<1>29. CASE Draws
  BY <1>29 DEF Draws, RenderStep, Released
<1>30. CASE Returns
  BY <1>30 DEF Returns, RenderStep, RenderingOff
<1>31. CASE TouchesDeleted
  BY <1>31 DEF TouchesDeleted, RenderStep
<1>32. CASE SpuriousWakeup
  BY <1>32 DEF SpuriousWakeup, InProcess
<1>33. CASE UNCHANGED vars
  BY <1>33 DEF vars
<1> QED
  BY <1>1, <1>2, <1>3, <1>4, <1>5, <1>6, <1>7, <1>8, <1>9, <1>10, <1>11,
     <1>12, <1>13, <1>14, <1>15, <1>16, <1>17, <1>18, <1>19, <1>20, <1>21, <1>22,
     <1>23, <1>24, <1>25, <1>26, <1>27, <1>28, <1>29, <1>30, <1>31, <1>32, <1>33, <1>34
  DEF Next, EndDrawer, Decoder, Renderer

\* Data: the queues and the buffer hold what their readers say.
LEMMA DataInductive ==
  ASSUME IInv, [Next]_vars
  PROVE  (Types /\ InHand)'
<1> USE DEF IInv, Types, InHand, Lifetime, DecoderCovered, RendererCovered,
            ThisAlive, UiStates, DecoderStates, RenderStates, DecoderInQueue,
            DecoderMayRun, RenderInQueue, drawer, flags, queues, bytes, network
<1>1. CASE InitDrawer
  <2>1. encoded' = <<>> /\ decoded' = <<>> /\ decoder' = "testing" /\ received' = received
    BY <1>1 DEF InitDrawer, UiStep
  <2>2. InHand'
    <3>1. Len(encoded') = 0 /\ Len(decoded') = 0
      BY <2>1, EmptySeq
    <3>2. ~alive /\ render' = render
      BY <1>1 DEF InitDrawer, UiStep
    <3>3. render \notin {"got", "drawing"}
      BY <3>2
    <3> QED
      BY <1>1, <2>1, <3>1, <3>2, <3>3 DEF InitDrawer
  <2>3. encoded' \in Seq(1..received') /\ decoded' \in Seq(1..received')
    BY <2>1, EmptySeq
  <2>4. Len(encoded') <= received'
    BY <2>1, EmptySeq
  <2>5. this' \in 0..drawers' /\ drawers' \in Nat
    BY <1>1 DEF InitDrawer, UiStep
  <2> QED
    BY <1>1, <2>2, <2>3, <2>4, <2>5 DEF InitDrawer, UiStep
<1>2. CASE Disconnect
  BY <1>2 DEF Disconnect, UiStep, InProcess
<1>3. CASE SetStopThread
  BY <1>3 DEF SetStopThread, UiStep, InProcess
<1>4. CASE BroadcastDecoded
  BY <1>4 DEF BroadcastDecoded, UiStep, Woken, InProcess
<1>5. CASE AwaitRenderer
  BY <1>5 DEF AwaitRenderer, UiStep, RenderingSeenOff, InProcess
<1>6. CASE ClearThreadRun
  BY <1>6 DEF ClearThreadRun, UiStep, InProcess
<1>7. CASE BroadcastEncoded
  BY <1>7 DEF BroadcastEncoded, UiStep, Woken, InProcess
<1>8. CASE TestRunning
  BY <1>8 DEF TestRunning, UiStep, InProcess
<1>9. CASE Join
  BY <1>9 DEF Join, UiStep, InProcess
<1>10. CASE FreeDrawer
  <2>1. encoded' = <<>> /\ decoded' = <<>> /\ decoder' = decoder /\ received' = received
    BY <1>10 DEF FreeDrawer, UiStep
  <2>2. Len(encoded') = 0 /\ Len(decoded') = 0
    BY <2>1, EmptySeq
  <2>3. encoded' \in Seq(1..received') /\ decoded' \in Seq(1..received')
    BY <2>1, EmptySeq
  <2>4. InHand'
    <3>1. decoder' \notin {"got", "decoding", "freeing"} /\ render' \notin {"got", "drawing"}
      BY <1>10 DEF FreeDrawer, UiStep
    <3>2. pending' = 0
      BY <1>10, <3>1 DEF FreeDrawer, UiStep
    <3> QED
      BY <2>1, <2>2, <3>1, <3>2
  <2> QED
    <3>1. Len(encoded') <= received'
      BY <2>1, <2>2
    <3>2. /\ drawers' \in Nat /\ this' \in 0..drawers'
          /\ received' \in Nat /\ loan' \in 0..received'
      BY <1>10 DEF FreeDrawer, UiStep
    <3>3. /\ videoDrawer' \in BOOLEAN /\ alive' \in BOOLEAN
          /\ stopThread' \in BOOLEAN /\ rendering' \in BOOLEAN
          /\ threadRun' \in BOOLEAN /\ running' \in BOOLEAN
          /\ ui' \in UiStates /\ decoder' \in DecoderStates /\ render' \in RenderStates
      BY <1>10 DEF FreeDrawer, UiStep
    <3> QED
      BY <1>10, <2>3, <2>4, <3>1, <3>2, <3>3 DEF FreeDrawer
<1>11. CASE ForgetDrawer
  BY <1>11 DEF ForgetDrawer, UiStep, InProcess
<1>12. CASE EnqueueFrame
  <2>1. /\ received' = received + 1 /\ decoded' = decoded
        /\ encoded' = Append(encoded, received + 1)
    BY <1>12 DEF EnqueueFrame
  <2>2. 1..received \subseteq 1..received'
    BY <2>1
  <2>3. encoded \in Seq(1..received') /\ decoded \in Seq(1..received')
    BY <2>2, SeqMonotonic
  <2>4. received + 1 \in 1..received'
    BY <2>1
  <2>5. encoded' \in Seq(1..received') /\ Len(encoded') = Len(encoded) + 1
    BY <2>1, <2>3, <2>4, AppendProperties
  <2>6. encoded' # <<>>
    BY <2>5, EmptySeq, LenProperties
  <2>7. decoder' = Woken(decoder) /\ render' = render
    BY <1>12 DEF EnqueueFrame
  <2>8. InHand'
    BY <1>12, <2>1, <2>5, <2>6, <2>7, LenProperties DEF EnqueueFrame, Woken
  <2>9. Len(encoded') <= received'
    BY <2>1, <2>5, LenProperties
  <2> QED
    BY <1>12, <2>1, <2>3, <2>5, <2>7, <2>8, <2>9 DEF EnqueueFrame, Woken
<1>13. CASE ReleaseArray
  BY <1>13 DEF ReleaseArray, InProcess
<1>14. CASE DecoderTests
  BY <1>14 DEF DecoderTests, DecoderStep, InProcess
<1>15. CASE DecoderDequeues
  BY <1>15 DEF DecoderDequeues, DecoderStep, InProcess
<1>16. CASE DecoderWakes
  BY <1>16 DEF DecoderWakes, DecoderStep, InProcess
<1>17. CASE DecoderGets
  BY <1>17, PipelineBounds DEF DecoderGets, DecoderStep, BufferSizes, InProcess
<1>18. CASE DecodesFrame
  <2> USE DEF DecodesFrame, DecoderStep
  <2>1. encoded # <<>> /\ decoded' = Append(decoded, Head(encoded))
    BY <1>18
  <2>2. Head(encoded) \in 1..received
    BY <2>1, HeadTailProperties
  <2>3. decoded' \in Seq(1..received) /\ decoded' # <<>>
    BY <2>1, <2>2, AppendProperties, EmptySeq, LenProperties
  <2>4. decoder' \in {"freeing", "decoding"} /\ pending' \in Nat
        /\ (decoder' = "freeing" => pending' = 0)
    BY <1>18
  <2> QED
    BY <1>18, <2>1, <2>3, <2>4 DEF Woken
<1>34. CASE DecodeFails
  BY <1>34 DEF DecodeFails, DecoderStep, InProcess
<1>19. CASE DecoderFrees
  BY <1>19 DEF DecoderFrees, DecoderStep, Released, InProcess
<1>20. CASE DecoderLeaves
  BY <1>20 DEF DecoderLeaves, DecoderStep, InProcess
<1>21. CASE DecoderNotRunning
  BY <1>21 DEF DecoderNotRunning, DecoderStep, InProcess
<1>22. CASE DecoderEnds
  BY <1>22 DEF DecoderEnds, DecoderStep, InProcess
<1>23. CASE TestPointer
  BY <1>23 DEF TestPointer, RenderStep
<1>24. CASE SetRendering
  BY <1>24 DEF SetRendering, RenderStep
<1>25. CASE TestStop
  BY <1>25 DEF TestStop, RenderStep
<1>26. CASE RendererDequeues
  BY <1>26 DEF RendererDequeues, RenderStep
<1>27. CASE RendererWakes
  BY <1>27 DEF RendererWakes, RenderStep
<1>28. CASE RendererGets
  BY <1>28 DEF RendererGets, RenderStep
<1>29. CASE Draws
  BY <1>29 DEF Draws, RenderStep, Released
<1>30. CASE Returns
  BY <1>30 DEF Returns, RenderStep, RenderingOff
<1>31. CASE TouchesDeleted
  BY <1>31 DEF TouchesDeleted, RenderStep
<1>32. CASE SpuriousWakeup
  BY <1>32 DEF SpuriousWakeup, InProcess
<1>33. CASE UNCHANGED vars
  BY <1>33 DEF vars
<1> QED
  BY <1>1, <1>2, <1>3, <1>4, <1>5, <1>6, <1>7, <1>8, <1>9, <1>10, <1>11,
     <1>12, <1>13, <1>14, <1>15, <1>16, <1>17, <1>18, <1>19, <1>20, <1>21, <1>22,
     <1>23, <1>24, <1>25, <1>26, <1>27, <1>28, <1>29, <1>30, <1>31, <1>32, <1>33, <1>34
  DEF Next, EndDrawer, Decoder, Renderer

-----------------------------------------------------------------------------
-----------------------------------------------------------------------------
LEMMA BytesGrow ==
  ASSUME NEW n \in Nat
  PROVE  /\ Bytes(n) \in Nat /\ Bytes(0) = 0
         /\ Bytes(n + 1) = Bytes(n) + FrameSize /\ FrameSize \in Nat
BY PipelineBounds DEF Bytes

LEMMA BytesOrdered ==
  ASSUME NEW m \in Nat, NEW n \in Nat, m <= n
  PROVE  Bytes(m) <= Bytes(n)
BY PipelineBounds DEF Bytes

LEMMA SumsOrdered ==
  ASSUME NEW n \in Nat, NEW a \in Nat, NEW b \in Nat, NEW c \in Nat,
         NEW x \in Nat, NEW y \in Nat, NEW total \in Nat,
         n + x + y <= total, a + b + c <= x + y
  PROVE  n + a + b + c <= total
OBVIOUS

LEMMA WaitingTyped == Types /\ InHand => Waiting \in Nat
BY EmptySeq, LenProperties DEF Types, InHand, Waiting

\* Bytes: a step that takes no frame and no byte in keeps the account.
LEMMA Spends ==
  ASSUME IInv, (Types /\ InHand)', received' = received,
         Len(decoded') + pending' + left' <= Len(decoded) + pending + left,
         Waiting' <= Waiting
  PROVE  FramesCounted'
<1>1. Waiting \in Nat /\ Waiting' \in Nat
  BY WaitingTyped, EmptySeq, LenProperties DEF IInv, Types, InHand, Waiting
<1>2. /\ Bytes(Waiting') <= Bytes(Waiting) /\ Bytes(Waiting) \in Nat
      /\ Bytes(Waiting') \in Nat /\ Bytes(received) \in Nat
  BY <1>1, BytesOrdered, BytesGrow DEF IInv, Types
<1>3. /\ Len(decoded) \in Nat /\ pending \in Nat /\ left \in Nat
      /\ Len(decoded') \in Nat /\ pending' \in Nat /\ left' \in Nat
  BY LenProperties DEF IInv, Types
<1>4. Bytes(received)' = Bytes(received) /\ Bytes(Waiting)' = Bytes(Waiting')
  BY DEF Bytes
<1> QED
  BY <1>2, <1>3, <1>4 DEF IInv, FramesCounted

\* The pictures, the buffer and the frames waiting are paid for by the bytes
\* received: only a new frame adds bytes, and taking a frame moves its bytes.
LEMMA BytesInductive ==
  ASSUME IInv, (Types /\ InHand)', [Next]_vars
  PROVE  FramesCounted'
<1> DEFINE Kept == UNCHANGED <<encoded, decoded, pending, left, received>>
           InLoop == decoder \in {"decoding", "freeing"}
<1>0. /\ Len(encoded) \in Nat /\ Len(decoded) \in Nat /\ pending \in Nat /\ left \in Nat
      /\ received \in Nat /\ Len(encoded') \in Nat /\ Len(decoded') \in Nat
      /\ pending' \in Nat /\ left' \in Nat /\ Waiting \in Nat
  BY LenProperties, WaitingTyped DEF IInv, Types
<1>1. ASSUME Kept, InLoop' <=> InLoop PROVE FramesCounted'
  BY <1>0, <1>1, Spends DEF Waiting
<1>2. CASE InitDrawer \/ FreeDrawer
  <2>1. /\ encoded' = <<>> /\ decoded' = <<>> /\ received' = received
        /\ (pending' = 0 /\ left' = 0) \/ (pending' = pending /\ left' = left)
    BY <1>2 DEF InitDrawer, FreeDrawer, UiStep, network, bytes
  <2>3. ~InLoop'
    BY <1>2 DEF InitDrawer, FreeDrawer, UiStep, IInv, DecoderCovered, DecoderInQueue,
                DecoderMayRun
  <2>4. Len(decoded') + pending' + left' <= Len(decoded) + pending + left
    BY <1>0, <2>1, EmptySeq
  <2>2. Waiting' = 0
    BY <2>1, <2>3, EmptySeq DEF Waiting
  <2> QED
    BY <1>0, <2>1, <2>2, <2>4, Spends
<1>3. CASE EnqueueFrame
  <2>1. /\ received' = received + 1 /\ UNCHANGED <<decoded, pending, left>>
        /\ encoded' = Append(encoded, received') /\ (InLoop' <=> InLoop)
    BY <1>3 DEF EnqueueFrame, Woken, bytes
  <2>2. Waiting' = Waiting + 1
    <3>1. Len(encoded') = Len(encoded) + 1
      BY <2>1, AppendProperties, SeqMonotonic DEF IInv, Types
    <3> QED
      BY <1>0, <2>1, <3>1 DEF Waiting
  <2>3. /\ Bytes(Waiting') = Bytes(Waiting) + FrameSize /\ FrameSize \in Nat
        /\ Bytes(received') = Bytes(received) + FrameSize
        /\ Bytes(Waiting) \in Nat /\ Bytes(received) \in Nat
    BY <1>0, <2>1, <2>2, BytesGrow
  <2>4. Bytes(received)' = Bytes(received') /\ Bytes(Waiting)' = Bytes(Waiting')
    BY DEF Bytes
  <2> QED
    BY <1>0, <2>1, <2>3, <2>4 DEF IInv, FramesCounted
<1>4. CASE DecoderGets
  <2>1. UNCHANGED <<encoded, decoded, received>> /\ ~InLoop /\ encoded # <<>> /\ pending = 0
    BY <1>4 DEF DecoderGets, DecoderStep, queues, network, IInv, InHand
  <2>2. Len(encoded) > 0 /\ Waiting = Len(encoded)
    BY <1>0, <2>1, EmptySeq DEF Waiting, IInv, Types
  <2>3. CASE UNCHANGED bytes
    BY <1>0, <2>1, <2>2, <2>3, Spends DEF Waiting, bytes
  <2>4. CASE decoder' = "decoding" /\ pending' \in BufferSizes /\ left' = 0
    <3>1. Waiting' = Waiting - 1 /\ Waiting' \in Nat
      BY <1>0, <2>1, <2>2, <2>4 DEF Waiting
    <3>2. /\ Bytes(Waiting' + 1) = Bytes(Waiting') + FrameSize /\ FrameSize \in Nat
          /\ Bytes(Waiting') \in Nat /\ Bytes(received) \in Nat
      BY <1>0, <3>1, BytesGrow
    <3>3. Waiting' + 1 = Waiting
      BY <1>0, <3>1
    <3>4. Bytes(Waiting) = Bytes(Waiting') + FrameSize
      BY <3>2, <3>3
    <3>5. left \in Nat /\ pending' \in Nat /\ FrameSize \in Nat
      BY <1>0, <3>2
    <3>6. left' = 0 /\ pending' <= left + FrameSize
      BY <2>4, <3>5 DEF BufferSizes
    <3>7. pending' + left' + Bytes(Waiting') <= left + Bytes(Waiting)
      BY <3>2, <3>4, <3>5, <3>6
    <3>8. Bytes(received)' = Bytes(received) /\ Bytes(Waiting)' = Bytes(Waiting')
      BY <2>1 DEF Bytes
    <3>9. Len(decoded) + left + Bytes(Waiting) <= Bytes(received)
      BY <1>0, <2>1 DEF IInv, FramesCounted
    <3>10. Len(decoded') = Len(decoded) /\ Bytes(Waiting) \in Nat
      BY <2>1, <3>2, <3>4
    <3>11. Len(decoded') + pending' + left' + Bytes(Waiting') <= Bytes(received)
      <4>1. left' \in Nat /\ Bytes(Waiting') \in Nat /\ Bytes(received) \in Nat
        BY <3>2, <3>6
      <4> QED
        BY <1>0, <3>5, <3>7, <3>9, <3>10, <4>1, SumsOrdered
    <3> QED
      BY <3>8, <3>11 DEF FramesCounted
  <2> QED
    BY <1>4, <2>3, <2>4 DEF DecoderGets, DecoderStep
<1>5. CASE DecodesFrame
  <2>1. /\ UNCHANGED <<encoded, left, received>> /\ InLoop /\ InLoop'
        /\ decoded' = Append(decoded, Head(encoded)) /\ pending' < pending
        /\ encoded # <<>>
    BY <1>0, <1>5 DEF DecodesFrame, DecoderStep, network, IInv, InHand
  <2>2. Head(encoded) \in 1..received
    BY <2>1, HeadTailProperties DEF IInv, Types
  <2>3. Len(decoded') = Len(decoded) + 1
    BY <2>1, <2>2, AppendProperties DEF IInv, Types
  <2> QED
    BY <1>0, <2>1, <2>3, Spends DEF Waiting
<1>6. CASE DecodeFails
  <2>1. /\ UNCHANGED <<encoded, decoded, received>> /\ InLoop /\ InLoop'
        /\ pending' = 0 /\ left' \in {0, pending}
    BY <1>6 DEF DecodeFails, DecoderStep, queues, network
  <2>2. Len(decoded') + pending' + left' <= Len(decoded) + pending + left
    BY <1>0, <2>1
  <2>3. Waiting' = Waiting
    BY <2>1 DEF Waiting
  <2> QED
    BY <1>0, <2>1, <2>2, <2>3, Spends
<1>7. CASE DecoderFrees
  <2>1. /\ UNCHANGED <<decoded, pending, left, received>> /\ InLoop /\ ~InLoop'
        /\ encoded' = Tail(encoded) /\ encoded # <<>>
    BY <1>7 DEF DecoderFrees, DecoderStep, Released, bytes, network, IInv, InHand
  <2>2. Len(encoded') = Len(encoded) - 1
    BY <2>1, HeadTailProperties DEF IInv, Types
  <2> QED
    BY <1>0, <2>1, <2>2, Spends DEF Waiting
<1>8. CASE DecoderLeaves
  <2>1. UNCHANGED <<decoded, pending, left, received>> /\ encoded' = <<>> /\ ~InLoop'
    BY <1>8 DEF DecoderLeaves, DecoderStep, bytes, network
  <2>2. Waiting' = 0
    BY <2>1, EmptySeq DEF Waiting
  <2> QED
    BY <1>0, <2>1, <2>2, Spends
<1>9. CASE Draws
  <2>1. /\ UNCHANGED <<encoded, decoder, pending, left, received>>
        /\ decoded' = Tail(decoded) /\ decoded # <<>>
    BY <1>9 DEF Draws, RenderStep, Released, bytes, network, IInv, InHand
  <2>2. Len(decoded') <= Len(decoded)
    BY <1>0, <2>1, HeadTailProperties DEF IInv, Types
  <2> QED
    BY <1>0, <2>1, <2>2, Spends DEF Waiting
<1>10. CASE EndDrawer /\ ~FreeDrawer
  BY <1>1, <1>10
  DEF EndDrawer, SetStopThread, BroadcastDecoded, AwaitRenderer, ClearThreadRun,
      BroadcastEncoded, TestRunning, Join, ForgetDrawer, UiStep, Woken, queues, bytes, network
<1>11. CASE Disconnect \/ ReleaseArray \/ SpuriousWakeup \/ UNCHANGED vars
  BY <1>1, <1>11
  DEF Disconnect, ReleaseArray, SpuriousWakeup, UiStep, vars, queues, bytes, network
<1>12. CASE DecoderTests \/ DecoderDequeues \/ DecoderWakes \/ DecoderNotRunning \/ DecoderEnds
  BY <1>1, <1>12
  DEF DecoderTests, DecoderDequeues, DecoderWakes, DecoderNotRunning, DecoderEnds,
      DecoderStep, queues, bytes, network
<1>13. CASE Renderer /\ ~Draws
  BY <1>1, <1>13
  DEF Renderer, TestPointer, SetRendering, TestStop, RendererDequeues, RendererWakes,
      RendererGets, Returns, TouchesDeleted, RenderStep, bytes, network
<1> QED
  BY <1>2, <1>3, <1>4, <1>5, <1>6, <1>7, <1>8, <1>9, <1>10, <1>11, <1>12, <1>13
  DEF Next, EndDrawer, Decoder, Renderer

LEMMA InitEstablishes == Init => IInv
<1> SUFFICES ASSUME Init PROVE IInv
  OBVIOUS
<1>1. encoded = <<>> /\ decoded = <<>> /\ received = 0
  BY DEF Init
<1>2. encoded \in Seq(1..received) /\ decoded \in Seq(1..received)
  BY <1>1, EmptySeq
<1>3. Len(encoded) = 0 /\ Len(decoded) = 0
  BY <1>1, EmptySeq
<1>4. Types
  <2>1. Len(encoded) <= received /\ pending = 0 /\ left = 0
    BY <1>1, <1>3 DEF Init
  <2>2. /\ drawers \in Nat /\ this \in 0..drawers
        /\ received \in Nat /\ loan \in 0..received
    BY DEF Init
  <2>3. /\ videoDrawer \in BOOLEAN /\ alive \in BOOLEAN
        /\ stopThread \in BOOLEAN /\ rendering \in BOOLEAN
        /\ threadRun \in BOOLEAN /\ running \in BOOLEAN
        /\ ui \in UiStates /\ decoder \in DecoderStates /\ render \in RenderStates
    BY DEF Init, UiStates, DecoderStates, RenderStates
  <2> QED
    BY <1>2, <2>1, <2>2, <2>3 DEF Types
<1>5. Lifetime /\ DecoderCovered /\ RendererCovered
  BY DEF Init, Lifetime, DecoderCovered, RendererCovered, DecoderInQueue, RenderInQueue
<1>6. InHand
  BY DEF Init, InHand
<1>7. FramesCounted
  <2>1. Waiting = 0 /\ pending = 0 /\ left = 0
    BY <1>3 DEF Init, Waiting
  <2> QED
    BY <1>1, <1>3, <2>1, BytesGrow DEF FramesCounted
<1> QED
  BY <1>4, <1>5, <1>6, <1>7 DEF IInv

LEMMA StepPreserves == IInv /\ [Next]_vars => IInv'
<1> SUFFICES ASSUME IInv, [Next]_vars PROVE IInv'
  OBVIOUS
<1>1. (Lifetime /\ DecoderCovered /\ RendererCovered)'
  BY ControlInductive DEF IInv
<1>2. (Types /\ InHand)'
  BY DataInductive
<1>3. FramesCounted'
  BY <1>2, BytesInductive
<1> QED
  BY <1>1, <1>2, <1>3 DEF IInv

(* The inductive invariant: which thread may be where while the drawer is  *)
(* created, stopped and deleted, and what the two queues then hold.        *)
THEOREM PipelineInvariance == Spec => []IInv
<1>1. Init => IInv
  BY InitEstablishes
<1>2. IInv /\ [Next]_vars => IInv'
  BY StepPreserves
<1> QED
  BY <1>1, <1>2, PTL DEF Spec

(* Every variable keeps its type, no frame is queued for the decoder       *)
(* twice, and the decode loop makes at most one picture of a byte.         *)
THEOREM PipelineTypeCorrect == Spec => []TypeOK
<1>1. IInv => TypeOK
  <2> SUFFICES ASSUME IInv PROVE TypeOK
    OBVIOUS
  <2>1. Types /\ Waiting \in Nat
    BY WaitingTyped DEF IInv
  <2>2. Bytes(Waiting) \in Nat /\ Bytes(received) \in Nat /\ Len(decoded) \in Nat
    BY <2>1, BytesGrow, LenProperties DEF Types
  <2>3. Len(decoded) + pending + left <= Bytes(received)
    BY <2>1, <2>2 DEF IInv, FramesCounted, Types
  <2> QED
    BY <2>1, <2>3 DEF TypeOK, Bytes
<1> QED
  BY <1>1, PipelineInvariance, PTL

(* ~VideoDrawer() destroys the queues only when neither the decoder thread *)
(* nor the render thread is inside them or between two calls on them.      *)
THEOREM QueuesOutlive == Spec => []QueuesOutliveUsers
<1>1. IInv => QueuesOutliveUsers
  BY DEF IInv, Types, QueuesOutliveUsers, Lifetime, DecoderCovered, RendererCovered,
         DecoderMayRun
<1> QED
  BY <1>1, PipelineInvariance, PTL
=============================================================================
