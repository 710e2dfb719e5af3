--------------------------- MODULE DecodePipeline ---------------------------
(***************************************************************************)
(* The native video path around the frame queue: the drawer and its        *)
(* manager (mconfnative/VideoDrawer.h, DrawerManager.cpp), the decoder     *)
(* thread (iva/decode/Decode.cpp, iva/thread/Thread.h) and the Java class  *)
(* that opens and closes them (VideoSurface).                              *)
(*                                                                         *)
(* Four threads meet in a drawer.  The UI thread creates and deletes it,   *)
(* the I/O thread of the video connection enqueues frames, the decoder     *)
(* thread takes them from one queue to the other, and the render thread    *)
(* of GLSurfaceView, which never stops, draws them.  Only the queues are   *)
(* locked; the flags stopThread, rendering, FLAG_THREAD_RUN and running_   *)
(* are plain variables, read and written here in one step each.            *)
(*                                                                         *)
(* Either queue has exactly one consumer, so each is a FIFO of frames (see *)
(* FrameQueueRefinement); what is kept of its condition variable is which  *)
(* thread sleeps.  Of the bytes of a frame only their number is kept.  A   *)
(* decoded frame has the number of the frame it was completed with.        *)
(***************************************************************************)
EXTENDS Naturals, Sequences

CONSTANTS
  MaxDrawers,  \* bound on the drawers created
  MaxFrames,   \* bound on the frames received
  FrameSize    \* bound on the bytes of a frame

ASSUME PipelineBounds ==
  MaxDrawers \in Nat /\ MaxFrames \in Nat /\ FrameSize \in Nat \ {0}

VARIABLES
  drawers,     \* drawers created so far; the last one is the current one
  videoDrawer, \* the pointer videoDrawer is not NULL
  alive,       \* the current drawer and its queues are allocated
  stopThread,  \* fields of the current drawer
  rendering,
  threadRun,   \* FLAG_THREAD_RUN of its decoder
  running,     \* Thread::running_ of its decoder
  ui, decoder, render,  \* what each thread does next
  this,        \* the drawer renderFrame() was called on
  encoded,     \* frames not released by the decoder thread
  decoded,     \* frames not released by the render thread
  pending,     \* bytes of the decoder's buffer not passed to decode() yet
  left,        \* _bufLeftSize, the bytes kept for the next frame
  received,    \* frames received so far
  loan         \* the frame whose Java array is not released, or 0

drawer == <<drawers, videoDrawer, alive>>
flags == <<stopThread, rendering, threadRun, running>>
queues == <<encoded, decoded>>
bytes == <<pending, left>>
network == <<received, loan>>
vars == <<drawer, flags, ui, decoder, render, this, queues, bytes, network>>

(* Faulty variants of the operators below.                                 *)
SleepOn(pc) == pc
KeepRendering == UNCHANGED rendering
NotAwaited == TRUE
KeepHead(queue) == queue

\* pthread_cond_broadcast(), seen by the one thread that may be waiting.
Woken(pc) == IF pc = "asleep" THEN "woken" ELSE pc

\* The statements of ~VideoDrawer() and renderFrame() that meet in rendering.
RenderingSeenOff == ~rendering
RenderingOff == rendering' = FALSE

\* queue_free() of the only consumer.
Released(queue) == Tail(queue)
-----------------------------------------------------------------------------
Init ==
  /\ drawers = 0 /\ videoDrawer = FALSE /\ alive = FALSE
  /\ stopThread = FALSE /\ rendering = FALSE
  /\ threadRun = FALSE /\ running = FALSE
  /\ ui = "closed" /\ decoder = "none" /\ render = "idle" /\ this = 0
  /\ encoded = <<>> /\ decoded = <<>> /\ pending = 0 /\ left = 0
  /\ received = 0 /\ loan = 0

\* A crash of the render thread ends the process.
InProcess == render # "crashed"

(***************************************************************************)
(* The UI thread: VideoSurface.start() and stop().                         *)
(***************************************************************************)
UiStep(from, to) ==
  /\ InProcess
  /\ ui = from /\ ui' = to
  /\ UNCHANGED <<this, network>>

\* initDrawer(), VideoDrawer() and Decode::start(), then the connection.
InitDrawer ==
  /\ UiStep("closed", "showing")
  /\ drawers < MaxDrawers
  /\ drawers' = drawers + 1 /\ videoDrawer' = TRUE /\ alive' = TRUE
  /\ stopThread' = FALSE /\ rendering' = FALSE
  /\ threadRun' = TRUE /\ running' = TRUE
  /\ decoder' = "testing"
  /\ encoded' = <<>> /\ decoded' = <<>> /\ pending' = 0 /\ left' = 0
  /\ UNCHANGED render

\* RtmpConnection.disconnect() waits for the I/O thread to end.
Disconnect ==
  /\ UiStep("showing", "disconnected")
  /\ loan = 0
  /\ UNCHANGED <<drawer, flags, decoder, render, queues, bytes>>

SetStopThread ==
  /\ UiStep("disconnected", "announced")
  /\ stopThread' = TRUE
  /\ UNCHANGED <<drawer, rendering, threadRun, running, decoder, render, queues, bytes>>

BroadcastDecoded ==
  /\ UiStep("announced", "awaiting")
  /\ render' = Woken(render)
  /\ UNCHANGED <<drawer, flags, decoder, queues, bytes>>

AwaitRenderer ==
  /\ UiStep("awaiting", "awaited")
  /\ RenderingSeenOff
  /\ UNCHANGED <<drawer, flags, decoder, render, queues, bytes>>

\* Decode::stop()
ClearThreadRun ==
  /\ UiStep("awaited", "halting")
  /\ threadRun' = FALSE
  /\ UNCHANGED <<drawer, stopThread, rendering, running, decoder, render, queues, bytes>>

BroadcastEncoded ==
  /\ UiStep("halting", "joining")
  /\ decoder' = Woken(decoder)
  /\ UNCHANGED <<drawer, flags, render, queues, bytes>>

\* isRunning(), which decides whether pthread_join() is called.
TestRunning ==
  /\ UiStep("joining", IF running THEN "blocked" ELSE "joined")
  /\ UNCHANGED <<drawer, flags, decoder, render, queues, bytes>>

Join ==
  /\ UiStep("blocked", "joined")
  /\ decoder = "ended"
  /\ running' = FALSE
  /\ UNCHANGED <<drawer, stopThread, rendering, threadRun, decoder, render, queues, bytes>>

\* The rest of the destructor: consumer, queues and decoder are gone.
FreeDrawer ==
  /\ UiStep("joined", "freed")
  /\ alive' = FALSE
  /\ encoded' = <<>> /\ decoded' = <<>>
  /\ UNCHANGED <<drawers, videoDrawer, flags, decoder, render, bytes>>

ForgetDrawer ==
  /\ UiStep("freed", "closed")
  /\ videoDrawer' = FALSE
  /\ UNCHANGED <<drawers, alive, flags, decoder, render, queues, bytes>>

EndDrawer ==
  \/ SetStopThread \/ BroadcastDecoded \/ AwaitRenderer \/ ClearThreadRun
  \/ BroadcastEncoded \/ TestRunning \/ Join \/ FreeDrawer \/ ForgetDrawer

(***************************************************************************)
(* The I/O thread of the video connection: enqueueFrame().                 *)
(***************************************************************************)
EnqueueFrame ==
  /\ InProcess
  /\ ui = "showing" /\ loan = 0
  /\ received < MaxFrames
  /\ received' = received + 1 /\ loan' = received'
  /\ encoded' = Append(encoded, received')
  /\ decoder' = Woken(decoder)
  /\ UNCHANGED <<drawer, flags, ui, render, this, decoded, bytes>>

\* ReleaseByteArrayElements()
ReleaseArray ==
  /\ InProcess
  /\ loan # 0
  /\ loan' = 0
  /\ UNCHANGED <<drawer, flags, ui, decoder, render, this, queues, bytes, received>>

(***************************************************************************)
(* The decoder thread: Decode::_ThreadDecode().                            *)
(***************************************************************************)
DecoderStep(from, to) ==
  /\ InProcess
  /\ decoder = from /\ decoder' = to
  /\ UNCHANGED <<drawer, stopThread, rendering, threadRun, ui, this, network>>

DecoderTests ==
  /\ DecoderStep("testing", IF threadRun THEN "calling" ELSE "leaving")
  /\ UNCHANGED <<running, render, queues, bytes>>

DecoderDequeues ==
  /\ DecoderStep("calling", IF encoded = <<>> THEN "asleep" ELSE "got")
  /\ UNCHANGED <<running, render, queues, bytes>>

DecoderWakes ==
  /\ DecoderStep("woken", "testing")
  /\ UNCHANGED <<running, render, queues, bytes>>

\* _RestoreBufferLeft(): the bytes kept come before those of the frame.
BufferSizes == left + 1..left + FrameSize

\* A frame of no bytes is skipped; otherwise the flag is tested again.
DecoderGets ==
  /\ \/ DecoderStep("got", "freeing") /\ UNCHANGED bytes
     \/ ~threadRun /\ DecoderStep("got", "leaving") /\ UNCHANGED bytes
     \/ threadRun /\ DecoderStep("got", "decoding") /\ pending' \in BufferSizes /\ left' = 0
  /\ UNCHANGED <<running, render, queues>>

\* A call of decode() that enqueues a frame and returns the bytes it used;
\* the loop goes on with the rest of the buffer.
DecodesFrame ==
  /\ \E used \in 1..pending :
       /\ DecoderStep("decoding", IF used = pending THEN "freeing" ELSE "decoding")
       /\ pending' = pending - used
  /\ decoded' = Append(decoded, Head(encoded)) /\ render' = Woken(render)
  /\ UNCHANGED <<running, encoded, left>>

\* A call that returns -1 ends the loop.  The rest is stored for the next
\* frame, or dropped if a frame was completed and could not be enqueued.
DecodeFails ==
  /\ DecoderStep("decoding", "freeing")
  /\ pending' = 0 /\ left' \in {0, pending}
  /\ UNCHANGED <<running, render, queues>>

DecoderFrees ==
  /\ DecoderStep("freeing", "testing")
  /\ encoded' = Released(encoded)
  /\ UNCHANGED <<running, render, decoded, bytes>>

\* queue_unregisterConsumer() of the only consumer empties the queue.
DecoderLeaves ==
  /\ DecoderStep("leaving", "unregistered")
  /\ encoded' = <<>>
  /\ UNCHANGED <<running, render, decoded, bytes>>

\* threadFinished(): two writes to the Thread object.
DecoderNotRunning ==
  /\ DecoderStep("unregistered", "finishing")
  /\ running' = FALSE
  /\ UNCHANGED <<render, queues, bytes>>

DecoderEnds ==
  /\ DecoderStep("finishing", "ended")
  /\ UNCHANGED <<running, render, queues, bytes>>

Decoder ==
  \/ DecoderTests \/ DecoderDequeues \/ DecoderWakes \/ DecoderGets
  \/ DecodesFrame \/ DecodeFails \/ DecoderFrees \/ DecoderLeaves \/ DecoderNotRunning \/ DecoderEnds

(***************************************************************************)
(* The render thread: nativeRender() and renderFrame().                    *)
(***************************************************************************)
\* The drawer this thread is in has not been deleted.
ThisAlive == alive /\ this = drawers

RenderStep(from, to) ==
  /\ render = from /\ render' = to
  /\ UNCHANGED <<drawer, stopThread, threadRun, running, ui, decoder, encoded, bytes, network>>

\* nativeRender() tests the pointer, then calls through it.
TestPointer ==
  /\ RenderStep("idle", "entering")
  /\ videoDrawer
  /\ this' = drawers
  /\ UNCHANGED <<rendering, decoded>>

SetRendering ==
  /\ RenderStep("entering", "testing")
  /\ ThisAlive
  /\ rendering' = TRUE
  /\ UNCHANGED <<this, decoded>>

TestStop ==
  /\ RenderStep("testing", IF stopThread THEN "returning" ELSE "calling")
  /\ ThisAlive
  /\ UNCHANGED <<this, rendering, decoded>>

RendererDequeues ==
  /\ RenderStep("calling", IF decoded = <<>> THEN "asleep" ELSE "got")
  /\ UNCHANGED <<this, rendering, decoded>>

RendererWakes ==
  /\ RenderStep("woken", "testing")
  /\ UNCHANGED <<this, rendering, decoded>>

\* stopThread is tested once more; a frame in hand is then left unreleased.
RendererGets ==
  /\ RenderStep("got", IF stopThread THEN "returning" ELSE "drawing")
  /\ UNCHANGED <<this, rendering, decoded>>

Draws ==
  /\ RenderStep("drawing", "returning")
  /\ decoded' = Released(decoded)
  /\ UNCHANGED <<this, rendering>>

Returns ==
  /\ RenderStep("returning", "idle")
  /\ ThisAlive
  /\ RenderingOff
  /\ UNCHANGED <<this, decoded>>

\* A field of a deleted drawer is read or written: the call may come back
\* all the same, or end the process.
TouchesDeleted ==
  /\ \E pc \in {"entering", "testing", "returning"}, next \in {"idle", "crashed"} :
       RenderStep(pc, next)
  /\ ~ThisAlive
  /\ UNCHANGED <<this, rendering, decoded>>

Renderer ==
  \/ TestPointer \/ SetRendering \/ TestStop \/ RendererDequeues \/ RendererWakes
  \/ RendererGets \/ Draws \/ Returns \/ TouchesDeleted

\* POSIX lets pthread_cond_wait() return although nobody signalled.
SpuriousWakeup ==
  /\ InProcess
  /\ \/ decoder = "asleep" /\ decoder' = "woken" /\ UNCHANGED render
     \/ render = "asleep" /\ render' = "woken" /\ UNCHANGED decoder
  /\ UNCHANGED <<drawer, flags, ui, this, queues, bytes, network>>

Next ==
  \/ InitDrawer \/ Disconnect \/ EndDrawer
  \/ EnqueueFrame \/ ReleaseArray
  \/ Decoder \/ Renderer \/ SpuriousWakeup

Spec == Init /\ [][Next]_vars

(* Threads that were started run; the UI thread ends a deletion it began.  *)
(* It polls rendering, which is off while GLSurfaceView swaps the buffers  *)
(* after each call: a poll falls there in the end (strong fairness).       *)
(* Nothing is assumed of the user or of the network.                       *)
Fairness ==
  /\ SF_vars(AwaitRenderer)
  /\ WF_vars(EndDrawer) /\ WF_vars(ReleaseArray)
  /\ WF_vars(Decoder) /\ WF_vars(Renderer)

FairSpec == Spec /\ Fairness
-----------------------------------------------------------------------------
UiStates == {"closed", "showing", "disconnected", "announced", "awaiting", "awaited",
             "halting", "joining", "blocked", "joined", "freed"}
DecoderInQueue == {"calling", "asleep", "woken", "got", "decoding", "freeing", "leaving"}
DecoderStates == DecoderInQueue \cup
  {"none", "testing", "unregistered", "finishing", "ended"}
RenderInQueue == {"calling", "asleep", "woken", "got", "drawing"}
RenderStates == RenderInQueue \cup {"idle", "entering", "testing", "returning", "crashed"}

Types ==
  /\ drawers \in Nat /\ this \in 0..drawers
  /\ videoDrawer \in BOOLEAN /\ alive \in BOOLEAN
  /\ stopThread \in BOOLEAN /\ rendering \in BOOLEAN
  /\ threadRun \in BOOLEAN /\ running \in BOOLEAN
  /\ ui \in UiStates /\ decoder \in DecoderStates /\ render \in RenderStates
  /\ received \in Nat /\ loan \in 0..received
  /\ encoded \in Seq(1..received) /\ Len(encoded) <= received
  /\ decoded \in Seq(1..received) /\ pending \in Nat /\ left \in Nat

(* Types: no frame is queued for the decoder twice, and the loop over the  *)
(* buffer makes at most one picture of every byte that was received, the   *)
(* bytes kept for the next frame included.                                 *)
TypeOK ==
  /\ Types
  /\ Len(decoded) + pending + left <= FrameSize * received

(* The queues outlive their users: when ~VideoDrawer() destroys them, no   *)
(* thread is inside a queue function or between two of them, although the  *)
(* two flags that guard the render thread are not locked.                  *)
QueuesOutliveUsers ==
  /\ decoder \in DecoderInQueue => alive
  /\ render \in RenderInQueue => ThisAlive

(* A frame that was received is drawn or skipped, as long as the drawer    *)
(* stays open: neither of the two consumers sleeps through it.             *)
FramesLeave ==
  \A i \in 1..MaxFrames :
    LET queued == \E k \in DOMAIN encoded : encoded[k] = i
        shown == \E k \in DOMAIN decoded : decoded[k] = i
    IN (queued \/ shown) ~> (~(queued \/ shown) \/ ui # "showing" \/ render = "crashed")

(* The lost wakeup is the only way a deletion can hang: if it does not     *)
(* end, one of the two threads sleeps for ever.                            *)
OnlySleepersBlock ==
  \/ <>[](render = "asleep") \/ <>[](decoder = "asleep")
  \/ (ui = "disconnected") ~> (ui = "closed" \/ render = "crashed")

(* Decode::stop(): the broadcast makes the thread leave dequeueCond ("para *)
(* sair do dequeueCond"), so the join returns.                             *)
StopReturns == (ui = "halting") ~> (ui = "joined" \/ render = "crashed")

\* queue.h has buffers come from queue_malloc(): they stay until queue_free.
BytesOutliveDecoding == decoder = "decoding" => loan = Head(encoded)
=============================================================================
