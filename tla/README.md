# The mconf-mobile client in TLA+

mconf-mobile is an Android client for BigBlueButton web conferences: a Java
library that speaks RTMP with the server (`src/bbb-java`, over a fork of
`src/flazr`), an Android application on top of it (`src/bbb-android/src`), and a
native video decoder reached through JNI (`src/bbb-android/jni/iva` and
`src/bbb-android/jni/mconfnative`). This directory models the parts of it where
several threads, or the client and the server, share state, checks them with
TLC, and proves with TLAPS the safety of all of them for every instance: the
frame queue, the life of the queues around a drawer, the memory pool under them,
the windows that show a camera, the numbering of commands, the reconnection, the
meeting session and the list of the voice conference.

Run `tlc -config <cfg> <module>` for each run of the table below and
`tlapm M.tla` for each module `M` of `FrameQueueProofs`,
`DecodePipelineProofs`, `FrameMemoryProofs`,
`CommandTransactionsProofs`, `VideoWindowsProofs`, `ReconnectionProofs`,
`MeetingSessionProofs` and `VoiceConferenceProofs` (a few minutes each at most,
from scratch).

## 1. Inventory

### Threads

| thread | where it comes from | what it runs |
|---|---|---|
| I/O thread of a connection | Netty, one per channel | `MainRtmpConnection.messageReceived`, the modules, the listener methods of `Client` |
| UI thread | Android | commands of the user, the first `joinAndConnect`, `start()` and `stop()` of a video window, and the runnables the other threads post with `runOnUiThread` |
| reconnection thread | `Client.onDisconnected`, one per lost connection | `joinAndConnect` once, or `quit` after a kick |
| I/O thread of a video connection | Netty, one per watched stream | the loop over the video listeners, `DrawerManager::enqueueFrame` through JNI |
| decoder thread | `Decode::start` | `queue_dequeueCond`, decode, `queue_free`, `queue_enqueue` |
| render thread | `GLSurfaceView` | `VideoDrawer::renderFrame`: `queue_dequeueCond`, draw, `queue_free` |

### Components

| component | state | operations | talks to | what is hard | what makes it correct |
|---|---|---|---|---|---|
| **Frame queue** `jni/iva/queue/queue.cpp` | linked list of stores with a count of readers, list of consumers with `store_p` and `hold`, `mtx`, `cond` | register, unregister, enqueue, dequeue, dequeueCond, free, flush, broadcast | network thread enqueues, decoder and renderer consume | consumers that join and leave between dequeue and free; the condition variable; the limit of consumers | counts are exact, nothing freed early or leaked, a held buffer stays, no lost wakeup, every frame once and in order |
| **Memory pool** under the queue (`queue_statAlloc`, `queue_statFree`, `queue_dealloc`) | blocks with an `enqueued` flag, its own mutex | malloc, dealloc, statFree | queue, decoder | who frees a block when an enqueue fails | no double free, mutex released on every path |
| **Decoder** `jni/iva/decode` | run flag, thread, consumer, codec context | open, start, stop, restart, close | both queues | stop while the thread is about to wait | stop terminates, nothing is used after close |
| **Drawer, drawer manager** `jni/mconfnative` | drawer pointer, two queues, one decoder | create, delete, enqueue, render, resize | UI, render and network threads | delete while another thread is inside | no use after delete |
| **RTMP session and users** `MainRtmpConnection`, `UsersModule` | connection, `participants`, counters of the meeting, the shared objects connected | handshake, roster query, join, leave, status, kick, disconnect | server; listener methods of `Client` | snapshot against subscription, exceptions that close the channel, reconnection | the roster mirrors the server, lookups find their user, the handshake ends |
| **Chat** `ChatModule` | public messages, private messages by peer | query, send, receive, clear | server; `PrivateChat` | the clear of a shared object against what was stored before | nothing received or sent is lost |
| **Listeners** `ListenersModule`, `ListenerAdapter` | listeners of the voice conference by id, and the copies the screen shows | query, join, leave, talk, mute, lock, mute all, kick | server; `Client` | as the users, and leaves of unknown ids; objects shared by two threads; menu positions | map and screen follow the conference |
| **Shared objects, command results** `ClientHandler`, `ClientSharedObject` (flazr) | transaction id and its table, shared objects by name | connect, send, clear, result | I/O and UI threads write | ids given out by two threads, results for modules that do not exist yet | a result reaches the command it answers |
| **Android meeting screen** `Client`, `ContactAdapter`, `PrivateChat` | contacts, open chats, `kicked`, pending runnables | runnables, context menu, options menu, send, quit, reconnect | modules (synchronous calls), UI thread (posted runnables) | two threads, two copies of the list of users | the copy converges; a runnable finds its contact; a kicked user stays out |
| **Joining and reconnection** `JoinService`, `Client.joinAndConnect`, `onDisconnected`, `quit` | the current `JoinService` and its joined meeting, the current connection, the reconnect dialog and icon | join over HTTP, connect, lose the connection, reconnect by thread or by menu, quit | web server; every thread | none of the state is locked: a quit or a second join beside a join | the user is in the meeting once, and not at all after quitting; it hangs or dies of it in known ways only |
| **Video windows and connections** `VideoDialog`, `VideoFullScreen`, `VideoSurface`, `IVideoListener`, `VideoRtmpConnection` | the window, one connection and one listener per window, the drawer | open, pause, turn, close; start, stop; frame in | UI thread, I/O threads of both kinds of connections, drawer manager | stop against a late frame; the broadcast that closes a window | a frame reaches only its own drawer, nothing is left of a closed window, a window follows its camera |
| **Buffered and discarding queues** `QueueBuffer`, `QueueDiscard` | timestamps, discard policy | dequeue with delay, discard | queue | wrap of 32-bit timestamps | no frame kept back for ever |
| **Voice call** `VoiceModule` over the vendored SIP stack | call state | call, hangup, mute | vendored stack | call backs of the stack | hang up ends the call |

The full list of hazards, each with its line and the properties that watch it,
is in `PROJECT.json` (`hazards`). Those with no property say why.

## 2. Modules

| module | models | role |
|---|---|---|
| `FrameQueue` | `queue.cpp`, every operation of the API except creation, destruction and `queue_flush` | detailed specification and its properties |
| `BroadcastLog` | what the queue promises | abstract specification |
| `FrameQueueRefinement` | `FrameQueue` with the mapping to `BroadcastLog` | `ImplementsLog` |
| `MCFrameQueue` | | model checked by the `queue*` runs |
| `FrameQueueProofs` | | inductive invariant and its consequences; the queue implements the log |
| `DecodePipeline` | `Decode.cpp`, `Thread.h`, `VideoDrawer.h`, `DrawerManager.cpp`, `VideoSurface.java` over two frame queues | composition of the UI, network, decoder and render threads |
| `MCDecodePipeline` | | model checked by the `pipeline*` runs |
| `DecodePipelineProofs` | | no queue is destroyed while a thread is inside it |
| `FrameMemory` | `queue_malloc`, `queue_dealloc`, `queue_statFree`, and `DecodeVideo::decode`, which uses them | the pool of blocks and its owners |
| `MCFrameMemory` | the coalescing loop | model checked by `memory`; the loop against the set definition |
| `FrameMemoryProofs` | | buffers are apart, free pieces never touch and fill whole areas, the counter is right, every buffer has one owner |
| `MeetingSession` | `MainRtmpConnection`, `UsersModule`, private chat of `ChatModule`, `Client`, `ContactAdapter`, `PrivateChat`, and an external server | composition of the client's two threads with the server |
| `MCMeetingSession` | | model checked by the `session*` runs; what a queue of messages or runnables does, against handling it one by one |
| `MeetingSessionProofs` | | the roster mirrors the server, the contacts follow it, lookups find their user |
| `VoiceConference` | `ListenersModule`, `ListenerAdapter`, their runnables and menus in `Client`, and an external voice bridge | the list of callers on two threads |
| `MCVoiceConference` | | model checked by `voice` |
| `VoiceConferenceProofs` | | the module and the screen follow the conference, runnables find their listener, menus keep it |
| `CommandTransactions` | `ClientHandler` of flazr: the counter, the table, the lookup of a result | two threads in one handler |
| `MCCommandTransactions` | | model checked by `commands` |
| `CommandTransactionsProofs` | | when an answer finds its command |
| `Reconnection` | `Client`, `BigBlueButtonClient`, `JoinService`, `RtmpConnection`: one activity from its first join to the end of `onDestroy` | composition of UI, reconnection and I/O threads over one unlocked state |
| `MCReconnection` | | model checked by `reconnection` |
| `ReconnectionProofs` | | the user is in the meeting once, what can end the activity, what its screen shows |
| `VideoWindows` | `VideoDialog`, `VideoFullScreen`, `VideoSurface`, `IVideoListener`, `VideoRtmpConnection`, the listeners of `BigBlueButtonClient`, `DrawerManager` | composition of the three kinds of threads that meet in a window |
| `MCVideoWindows` | | model checked by `video` |
| `VideoWindowsProofs` | | the order of `stop()` is enough; a window follows its camera |

The modules that share code meet at their edges: `DecodePipeline` takes over a
frame where `VideoWindows` has it enter the drawer; `MeetingSession` and
`VoiceConference` are two modules of the same connection with two lists of
their own; `Reconnection` opens up the one action `Connect` of `MeetingSession`
into the steps of `joinAndConnect`, and leaves out what the connection carries.

### FrameQueue and the code

A store is named by the serial number of the `queue_enqueue` call that created
it. The list only grows at its tail, so the order of the list is the order of
the numbers: `firststore_p` is the least linked number (`FirstStore`),
`nextstore_p` the next linked one (`NextStore`), `laststore_p` the greatest.
`pending[i]` is `queue_store_t.consumers`, `registered` the list that starts at
`firstconsumer_p`, `consumers` the counter kept beside that list, `store_p` and
`hold` the fields of `queue_consumer_t`, and `asleep`/`woken` the threads inside
`pthread_cond_wait` before and after a signal. `mtxLeaked` records that a call
returned without unlocking `mtx`; every operation that locks it is disabled
from then on.

Every operation runs under `mtx` from its first read to its last write, so an
operation is one action, except `queue_dequeueCond`, which `pthread_cond_wait`
splits in `DequeueCondWait` and `Wake`. `queue_broadcast` takes no mutex and is
an action that is enabled at any time. `queue_free`'s and
`queue_unregisterConsumer`'s calls to `queue_decStoreConsumers` and the removal
of stores whose count reaches zero are part of their actions. `pthread_cond_*`
is external and may wake without a signal (`SpuriousWakeup`).

The bytes, timestamps and extra data of a frame are left out: no operation
looks at them. The error returns that change nothing (a NULL argument, nothing
to read, already holding) are disabled guards. `queue_flush` has no caller in the
client and is left out (section 5).

### DecodePipeline and the code

Four threads, each with a program counter: `ui` (the UI thread, in
`DrawerManager::initDrawer` and `endDrawer`), `net` (the I/O thread of the video
connection, in `DrawerManager::enqueueFrame`), `decoder` (the thread of
`Decode::start`) and `renderer` (`VideoDrawer::renderFrame`). The drawer pointer
and the two plain flags `stopThread` and `rendering`, the run flag of `Decode`
and `running_` of `Thread` are variables of their own; each read and each write
of them is a step, in the order of the source. They are plain C++ fields: the
model lets the steps of the threads interleave in any order but does not let
one thread see the writes of another out of order, which a compiler or a
processor could.

Each of the two queues has a single consumer here. By `QueueImplementsLog` a
frame queue with one consumer is a FIFO that keeps a frame until it is released,
so a queue is a sequence of frames plus the state of its condition variable;
`queue_dequeueCond` is again two steps, the wait and what follows it.

| steps | code |
|---|---|
| `InitDrawer` | `initDrawer`, the constructor of `VideoDrawer`: two queues, a decoder, `Decode::start` |
| `Disconnect` | `VideoSurface.stop`: the connection ends before the drawer does, and `releaseExternalResources` waits for its I/O thread, so that no frame is enqueued into a drawer that is being deleted |
| `SetStopThread`, `BroadcastDecoded`, `AwaitRenderer` | `~VideoDrawer` up to the loop over `rendering` |
| `ClearThreadRun`, `BroadcastEncoded`, `TestRunning`, `Join` | `Decode::stop` and `Thread::join` |
| `FreeDrawer`, `ForgetDrawer` | unregistering the consumers, destroying the queues; `videoDrawer = NULL` |
| `EnqueueFrame`, `ReleaseArray` | `DrawerManager::enqueueFrame`: the bytes belong to a Java array, which is released when the call returns |
| `DecoderTests` ... `DecoderGets`, `DecoderFrees` ... `DecoderEnds` | `Decode::_ThreadDecode` and `Thread::threadFinished` |
| `DecodesFrame`, `DecodeFails` | one call of `decode` in the loop over the buffer: it completes a picture and uses some of the bytes, or returns -1, which ends the loop; what is left is stored (`left`) and put before the next frame (`BufferSizes`) |
| `TestPointer` ... `Returns` | `nativeRender`, `VideoDrawer::renderFrame` |

A received frame may hold several pictures, or a part of one: the decoder
enqueues as many pictures for it as `decode` finds. Every frame has up to
`FrameSize` bytes here, and a call that completes a picture uses at least one
byte, which is assumed of the codec: `_ThreadDecode` itself would call `decode`
for ever if it used none.

Left out: failures of `open` and of `pthread_create`; `setCodec`;
`_NeedRestart`, which is never true because the encoded frames carry no extra
data; the size of the screen and the texture.

### FrameMemory and the code

A descriptor is a record with a first block and a size, in blocks of
`QUEUE_BLOCK` bytes; addresses count blocks. Areas are separate calls of
`malloc`, so they are one block apart and pieces of two areas never touch. The
lists `free` and `busy` are sets: which piece that fits is taken is a choice, and
coalescing is `Merged`, the neighbour on each side joined with the block. That
the loop of `queue_statFree`, which passes once over the list and moves its
iterator `m` as it joins, computes `Merged` is `LoopCoalesces` of
`MCFrameMemory`, which TLC evaluates for every list of up to three pieces in
any order, zero-sized ones included (an allocation that fits exactly leaves
one); it needs pieces that do not touch, which is `NeverTouching`, a part of the
invariant and theorem `PoolTidy`. `queue_dealloc` has the same loop.

`queue_statAlloc` adds areas until one fits: a request larger than an area takes
every area there can be and then fails (`Grown`). `malloc` of an area or of a
descriptor is assumed to succeed. The mutex of the pool covers every call, so a
call is one action; a block that `queue_dealloc` finds in a queue makes it return
with the mutex locked (`locked`).

The decoder thread is `_PrepareFrame` and the end of `decode`: allocate, perhaps
allocate a second buffer, convert and free the first, enqueue; the enqueue
succeeds, finds no consumer, or fails and frees the buffer, after which `decode`
frees it again. The client has one such thread, because it has one drawer.
With two, TLC violates `OneOwner` and `NeverLocked`, the two parts of
`BuffersOwned`: between the two frees of a refused frame the other thread can be
given the same block. The buffers of the
encoded queue come from Java, not from the pool; freeing them finds no descriptor
and changes nothing.

`BlocksCounted` speaks of the counter of blocks only. `queue_memInUse` and
`queue_memPercent`, which report it, are left out: they are not what `queue.h`
says of them (section 5), and nothing in the client calls them.

### MeetingSession and the code

The I/O thread handles one message per action: `messageReceived` dispatches to
one handler, and the handler runs to its end, posting runnables (`ui`) and
writing requests (`toServer`). The UI thread takes the oldest runnable
(`RunPosted`) or a command of the user. An uncaught exception of a handler
reaches `exceptionCaught`, which closes the channel (`FailWith`); one on the UI
thread ends the application (`Crash`). `exceptions` records where each was
thrown, and whether the list of participants had been received by then, so
that properties can speak of it.

| action | code |
|---|---|
| `UserConnects`, `ThreadReconnects` | `Client.joinAndConnect`, the thread of `Client.onDisconnected`, `channelConnected` |
| `OnConnect` | the result of `connect`: `getMyUserId`, or the rejection that closes the channel |
| `OnGetMyUserId` | a new `UsersModule`, whose constructor connects `participantsSO` |
| `OnSharedObjectClear` | `onSharedObjectClear` of `UsersModule` (writes the query) and of `ChatModule` (clears the private messages) |
| `OnQueryParticipants` | the roster: fills the map, counts, posts a runnable per user, creates the `ChatModule` |
| `OnParticipantJoined`, `OnParticipantLeft`, `OnParticipantStatusChange`, `OnKickUserCallback` | `UsersModule.onSharedObjectSend` and the listener methods of `Client` it calls |
| `OnPrivateChatMessage` | `ChatModule.onPrivateChatMessage` after `Client.showNotification` |
| `RunPosted` | the bodies of the runnables of `Client` |
| `ChatLookupFails` | the listener of an open chat, called in the same handler between the one of `Client` and the removal of the participant: it looks up the chat whose view is displayed |
| `OpenMenu`, `RaiseHand`, `LowerHand`, `KickUser`, `SendPrivate`, `Quit` | the commands of `Client` and `PrivateChat` |
| `OpenChat`, `SwipeChat`, `CloseChat`, `RemoveChat` | `PrivateChat`: which chats are open (`chats`) and whose view is on the screen (`displayed`); a chat that is removed leaves its view where it is, so the displayed view may have none |
| `Close`, `GiveUp`, `JoinFails`, `KickedQuits` | `channelDisconnected`, and the ways the reconnection thread ends: without a network, in the dialog that cannot be made on a thread without a `Looper` and ends the application, and in `quit` |

The server is external and modelled from what the client relies on. Each
request is answered in the order it was written, over the same ordered channel
that carries the broadcasts; the answer to `getParticipants` is a snapshot taken
when it is sent; a broadcast goes to a client whose connect of `participantsSO`
was handled; a user id is never used a second time, except this client's own.

Simplifications, all in the direction of fewer client states than the code may
have: there is one connection at a time (a reconnection from the menu while
the thread is inside `joinAndConnect` is in `Reconnection`); the activity is
launched from the login page, which has loaded the list of meetings; messages
that Netty still delivers after `channel.close()` are not handled; `raiseHand`
stands for the three statuses of a user; when a view without a chat is closed
while one chat is open, `closeChat` finishes `PrivateChat` and leaves that chat in
the static map, which is left out, as are a rotation of the chat screen and
whether it is in the background (a dialog that is then not shown); a chat is not
removed from the set of listeners while the I/O thread is in its loop over them;
the copy of the status inside a
`Contact` is not modelled, only whether the contact exists; a status change in a
runnable that was already posted is the only one that looks a contact up.

### VoiceConference and the code

The same two threads as in `MeetingSession`, and the voice bridge as an external
server. `Listener` objects are shared: `objects` holds them by reference, the
map `listeners` of the module and the runnables in `ui` refer to them, and a
runnable reads the object when it runs, not when it was posted. `list` is
`ListenerAdapter.listListener`, whose entries are copies; a lookup finds the
first entry with an id (`GetUserById`). The context menu keeps a position
(`menu`), and `ChooseFromMenu` looks the entry there up; the history fields
`who` and `shifted` say for whom it was opened and whether the list moved since.

| action | code |
|---|---|
| `CreateListenersModule`, `OnSharedObjectClear` | the constructor connects `meetMeUsersSO`; the clear writes `getMeetMeUsers` and asks whether the room is muted |
| `OnGetCurrentUsers` | clears the map, announces every caller in the order of a `HashMap` |
| `OnUserJoin`, `OnUserLeft`, `OnAttribute`, `OnRoomMuted` | `onSharedObjectSend`, with the listener methods of `Client`; a leave hands its listener to the activity before it is tested for null |
| `RunPosted` | `RunClear`, `RunAdd`, `RunRemove`, `RunStatus`: the runnables of `Client` and the adapter |
| `OpenMenu`, `ChooseFromMenu`, `MuteRoom` | the commands of a moderator |

The voice bridge changes only while the client listens: what happens between
two connections is in the list the next one receives.

### CommandTransactions and the code

`writeCommandExpectingResult` access by access on every thread that sends:
`ReadId` and `Increment` are the two halves of `transactionId++`, `StartPut` and
`EndPut` bracket the `put` into a plain `HashMap`, `Write` is the write to the
channel. Puts that overlap are torn: any entries may be lost (`torn`), and a
lookup during a put may answer null (`Lookup`); that a torn `HashMap` may also
loop for ever is left out. The server answers in any order, or not at all.
`HandleResult` is the lookup by which `MainRtmpConnection` and the modules decide
whose answer it is; the table keeps its entries. `matched` records for what
command each answer was taken, `overlapped` whether two threads were ever inside
together.

### Reconnection and the code

One activity, its UI thread, the threads of `onDisconnected`, and the I/O thread
of each connection. `pc` says where each thread is. They share, without a lock,
the current `JoinService` (`service`, with its `joinedMeeting` in `joined`), the
current connection (`main`) and the fields of the activity.

| steps | code |
|---|---|
| `JoinRequest`, `Parse`, `Check`, `Dial`, `Open`, `Await` | `joinAndConnect`: the meeting is looked up and `joinedMeeting` made empty, filled from the answer, tested; `connectBigBlueButton` reads the service again and assigns `mainConnection`; `connect` makes the future; the caller waits for it |
| `Fail` | `JoinFailDialog`: on a reconnection thread it ends the application |
| `Established`, `ChannelConnected`, `Drop`, `Disconnected`, `Kick` | the I/O thread of a connection, `onConnected`, `onDisconnected` (the dialog is posted before the thread is started), `onKickUserCallback` |
| `Reconnect` | the thread, if the user was not kicked: `joinAndConnect` or no network |
| `StartQuit`, `Disconnect`, `Replace` | `quit()`: remove the listener, close the current connection, a new `JoinService`; once from the menu or the thread of a kicked user, once more in `onDestroy` |
| `OpenMenu`, `ChooseReconnect`, `CancelDialog`, `RunPosted` | the menu that offers to reconnect, the back key, the runnables (`Show`, `ShowConnected`, `Reconnected`, `NoNetwork` with its loop over `dialogShown`) |

`impatient`, `hurried` and `late` record that Reconnect was chosen while
something was under way, that a quit ran beside a join, and that a connection
was lost before the thread that made it went on. The properties are stated
around these three, and so characterise the faults of section 5 and do not
exclude them: `NoStrayConnection` says that a second or a left-over connection
needs `impatient` or `hurried`, `CrashCauses` which way to die needs which of
them. One needs none: a reconnection that fails to join ends the application, on
a thread that follows a loss. And the dialog does not stay, whatever overlapped
(`ScreenTellsTruth`, `DialogAnswered`); only the icon has exceptions.

Runnables run while the activity is finishing too, until `onDestroy` begins;
after that nothing of the screen is modelled.

### VideoWindows and the code

Three kinds of threads. The I/O thread of the main connection: cameras go on and
off in two messages, flag and name (`StatusOfStream`, `NameOfStream`), a
participant leaves in two steps because the listeners are called before the
entry is removed (`LeaveNotified`, `LeaveRecorded`), and the connection may be
replaced (`Outage`, `ListReceived`). The UI thread: runnables, the `CLOSE_VIDEO`
broadcasts, which nobody receives while a menu is open or the full-screen
activity is starting, the menu by position, windows that are opened, paused,
turned and closed, and `VideoSurface`: `start()` is `Lookup`, `Prepare`,
`Connect`, and `stop()` is `Disconnect`, `Release`, `Remove`, `EndDrawer`, in the
order of the source. The I/O thread of each video connection: a frame arrives,
the thread iterates over the listeners and is inside the drawer there is
(`FrameReceived`, `Enters`, `Leaves`). There is one drawer for all windows.

A camera is switched again only when the messages about its last switch were
handled (`CameraSwitched`): that bounds the messages on their way to two per
camera, and leaves out a switch that follows while the last is still on its way.

A video connection plays the stream it was made for; the RTMP commands before
that are one step, which works or fails. `unaware`, `outlived` and `blind`
record why a window may not know that its camera went off: nobody was there to
receive the broadcast, the main connection was replaced, the window was opened
between the two messages.

## 3. Runs

| run | configuration | checks | shows |
|---|---|---|---|
| `queue` | 3 consumers, 4 frames, limit 3, `malloc` may fail, fair | `TypeOK`, `RefCounts`, `SleepersHaveNothing`, `HeldStoreStays`, `ImplementsLog`, `EveryFrameDelivered` | the counts are exact, nothing is freed early or leaked, no wakeup is lost, the queue implements the log, and the loop of each consumer drains it |
| `session` | two other users, one of them a moderator, one connection, one event | `TypeOK`, `LookupsSafeOnceSynced`, `RosterMirrorsServer`, `ChatsFollowRoster` | whatever happens during the handshake, the roster then differs from the server's by what is on the way, the counters cover it, private chats are open with participants only, and of the lookups without a null check only the three that go by the UI thread can miss |
| `session_reconnect` | one other user, two connections, two events, fair | `RunnablesFindContacts`, `ContactsFollowRoster`, `SessionSyncs`, `KickedLeaves` | runnables of the old connection still in the queue do not harm the new list; a connection gets its roster or ends; a kicked user leaves |
| `session_notify` | one other user, one connection | `PrivateMessageIsTaken`, violated | finding 1 |
| `pipeline` | two drawers in succession, 3 frames of up to 2 bytes, fair | `TypeOK`, `QueuesOutliveUsers`, `FramesLeave`, `OnlySleepersBlock` | the queues outlive their users, frames do not get stuck, and a deletion ends unless one of the two consumers sleeps for ever |
| `pipeline_stop` | one drawer, fair | `StopReturns`, violated | finding 2 |
| `pipeline_bytes` | one drawer | `BytesOutliveDecoding`, violated | finding 3 |
| `memory` | one thread, 2 areas of 4 blocks, frames of 1, 2, 3 and 5 blocks | `TypeOK`, `PoolTidy`, `BuffersOwned`, `BlocksCounted` | buffers never overlap, nothing is leaked or left fragmented, the counter is right, every failure path frees once |
| `voice` | two callers, two connections, one event | `TypeOK`, `RunnablesFindListeners`, `MenuKeepsListener`, `ModuleFollowsConference`, `ScreenShowsConference` | map and screen follow the conference, up to the second entries that section 5 describes, and no runnable or menu misses its listener once the list was handled |
| `commands` | two threads, four commands | `TypeOK`, `MatchWhileSerial`, `ResolvedSharesId` | every answer finds its command as long as the threads do not meet, and after that at worst one with the same id |
| `reconnection` | two reconnection threads, two connections, five services, two losses, fair | `TypeOK`, `NoStrayConnection`, `FailuresNeedOverlap`, `ScreenTellsTruth`, `DialogAnswered` | the user is in the meeting once and then not at all; the activity dies only of a reconnection that fails to join or of a named overlap, and hangs or shows the wrong icon only through one; the dialog does not stay unless a thread waits for ever for an HTTP answer |
| `video` | two users, two connections, two changes, one frame | `TypeOK`, `FramesReachOwnDrawer`, `NothingLeaks`, `WindowsFollowCameras`, `ListenersStable` | frames reach only the drawer of their own window, nothing is left of a closed one, and a window follows its camera unless it cannot have been told |

`PoolTidy` is the conjunction of `BlocksApart`, `NeverTouching` and
`WholeAgain`, `BuffersOwned` of `OneOwner` and `NeverLocked`, and
`RosterMirrorsServer` takes `CountersCoverRoster` with it. `RosterMirrorsServer`
and `ContactsFollowRoster` speak of a list and the queue that is on its way to
it. They say per user what the queue will do: the last message about the user
decides (`ListedAfter`, `RaisedAfter`, `ShownAfter`). That this is what handling
the queue message by message computes is evaluated by TLC in `MCMeetingSession`
(`LastMessageDecides`, `LastRunnableDecides`) for every queue of up to three
messages about two users, from every list.

**Bounds.** `MaxFrames` bounds the frames of a behaviour, `MaxConsumers` is
`QUEUE_MAX_CONSUMERS`. Three consumers are enough for one that holds a store,
one that is behind it and one that comes or leaves; four frames are enough for
two stores in front of the cursors and two behind. The theorems of section 4
hold for any number of both. `MaxSessions` bounds the connections, `MaxEvents`
the status changes, kicks, messages and commands together; joins and leaves
are bounded because ids are not used again. Two other users give a moderator
and a viewer in the same window; one connection loss gives every overlap of
the old and the new list of runnables. `MaxDrawers` and `MaxFrames` bound the
pipeline: the second drawer meets what the first left behind, three frames fill
both queues and the hands of both consumers; with `FrameSize` two a frame gives
two pictures, one, or none and bytes for the next. In `memory` four blocks hold a
piece on either side of a block that is freed, the second area shows pieces
that must not be joined, and a frame of five blocks fits in none. In `voice`
two callers give every order of a list and one that joins or leaves beside one
that stays; the attributes are one the screen shows and one it does not
(`talking` is handled like `muted`); a second connection meets the runnables and
the menu of the first. In `commands` two threads are all the code has, and with
four commands the counter can be rewound and an id given again. `MaxServices`
is five because a behaviour makes at most four new ones, and two reconnection
threads meet each other, the UI thread and one new connection. In `video` two
connections are two windows in succession, of which the second meets the late
frame of the first; one frame is enough for that, as each connection has its own
thread and loop.

**Deadlock.** `queue` checks it; once the mutex leaked, `Broadcast` is still
enabled. The session runs do not check it:
the application really ends (`Quit`, `Crash`, `KickedQuits`) and the bounds run
out. The pipeline runs do not either, because `MaxDrawers` and `MaxFrames` run
out and a lost broadcast really blocks the UI thread (that is `pipeline_stop`),
nor does `memory`, where a write through NULL ends the process, nor `voice`,
`reconnection` and `video`, where the bounds run out and the activity may end,
nor `commands`, where the commands run out.

**Fairness.** `FrameQueue!Fairness`: each consumer runs a loop over
`queue_dequeueCond` and `queue_free` (`Decode::_ThreadDecode`,
`VideoDrawer::renderFrame`), so the scheduler comes back to both, and a signalled
waiter re-acquires `mtx`, which no call holds for long. Nothing is assumed of
producers, registrations or departures. `EveryFrameDelivered` excuses a queue
whose mutex a refused registration has kept: after that, nothing is live.
`MeetingSession!Fairness`: the I/O thread takes the messages it is sent, the UI
thread runs what was posted, a started thread runs, and the server answers
requests. Nothing is assumed of users, of other members, of the network or of
reconnection. `DecodePipeline!Fairness`: each of the four threads takes its next
step when it has one. Only the test of `rendering` is strongly fair: the UI
thread polls it, and a renderer that clears and sets it for ever is seen with
the flag off some time. Nothing is assumed of the network or of the user, and a
waiter wakes only when it was signalled. `Reconnection!FairSpec`: a started thread
goes on, except while it waits for the answer of the web server, for `JoinService`
gives its `HttpClient` no timeout; an attempt to connect ends one way or the other,
because Netty ends it after its default connect timeout, which is external; and
the UI thread takes its runnables. Nothing is assumed of the user, of the server
or of lost connections. `DialogAnswered` therefore excuses a thread that is in the
request for ever (`parse`), and nothing else. `voice`, `commands` and `video` check safety
only, under `Spec`.

## 4. Proofs

### The frame queue

All are for every set of consumers, every limit and every number of frames.

The invariant that is inductive is

    IInv == TypeOK /\ RefCounts /\ NothingLost /\ SleepersHaveNothing /\ Cursors

`RefCounts` alone is not preserved: `Enqueue` gives a new store the count
`consumers`, which is right only if every consumer is at or before it, and
`UnregisterConsumer` decrements the stores from `store_p` on, which are the
ones counted only if none of them is missing (`NothingLost`). `NothingLost` in
turn needs exact counts, because a store is freed when its count is one.
`Cursors` says what neither does: a consumer that is not registered has a NULL
cursor and holds nothing, a consumer that holds has a cursor, and a cursor
never points past the tail.

The argument has three layers. First, lemmas about `Least` and `NextStore`: a
non-empty set of naturals has a least element (from the well-foundedness of the
order), so `Free` moves a cursor to the next linked store, and (`NoHoles`) that
is the very next number if there is one. Second, how the set of readers of a
store, and so its cardinality, changes under each action. Third, one step per
action, one conjunct at a time. The second part of `FrameQueueProofs` then shows that
each step of the queue is the corresponding step of the log or a stutter: the
counts become the statement that the linked stores are exactly the frames
somebody needs (`RetainedIsNeeded`).

| theorem | statement |
|---|---|
| `Invariance` | `Spec => []IInv` |
| `TypeCorrect`, `CountsExact`, `NoLostWakeup` | the three invariants of run `queue` |
| `NoFrameLost` | `Spec => []NothingLost`: from a cursor to the tail every store is linked |
| `HeldBufferStays` | the action property `HeldStoreStays` |
| `QueueImplementsLog` | `Spec => ImplementsLog` |

The assumptions are those of `FrameQueue`: the set of consumers is finite, the
limit is a positive natural, the bound on frames a natural.

### The decode pipeline

For any number of drawers and frames. `QueuesOutliveUsers` says that no thread is
inside a queue when it is destroyed. For the decoder thread it rests on
`running_`, which is set as long as the thread is in its loop, so that `stop`
joins it (`DecoderCovered`). For the render thread it rests on two flags in the
manner of Dekker: the UI thread sets `stopThread` before it reads `rendering`,
the renderer sets `rendering` before it reads `stopThread` (`RendererCovered`).
Both need to know when the drawer exists and has been told to stop (`Lifetime`),
and the types need that a frame in hand is the head of its queue (`InHand`) and
that the bytes are counted (`FramesCounted`): what was decoded, what is still in the
buffer or kept for the next frame, and what the frames that wait can still bring
never exceed what was received, because each call of `decode` that completes a
picture takes a byte at least. `PipelineInvariance` proves
their conjunction, `PipelineTypeCorrect` and `QueuesOutlive` follow.

### The memory pool

For any number of threads, areas, blocks and sizes, except where one thread is
named. The inductive invariant `IInv` says that pieces are apart, that they end
below the last area allocated, that free pieces do not touch, and that the
pieces fill every area without a gap. Each needs the others: joining a block with
its neighbours keeps pieces apart because there is one neighbour on either side,
and there is one because no two free pieces touch; an allocation cuts a piece
into two that do not touch anything because nothing else lies there; a new area
touches no piece because all of them end below it. When nothing is in use, free
pieces that fill an area and do not touch can only be the area itself, which is
`WholeAgain`.

The counter of blocks is a theorem about cardinalities: what an allocation or a
free does to the set of blocks in use adds or removes exactly one.

`BuffersOwned` holds for one decoder thread and is false with two (see section
2), so `OneThreadOwns` assumes that any two decoders are equal, which is what
the client has. Its invariant says where the buffers are at each step of
`decode`: what the thread holds is in use and not enqueued, and after the first
of the two frees of a refused frame the address is of no piece, because nobody
could allocate in between.

| theorem | statement |
|---|---|
| `MemoryInvariance` | `Spec => []IInv` |
| `MemoryTypeCorrect`, `PoolStaysTidy`, `CounterIsRight` | the invariants `TypeOK`, `PoolTidy`, `BlocksCounted` of run `memory` |
| `OneThreadOwns` | `BuffersOwned`, for one decoder thread |

### The numbering of commands

For any number of threads and commands. As long as no two threads have been in
the handler together (`~overlapped`), at most one thread is between its read of
the counter and the end of its put, the ids given out are all different and
below the counter (or are the counter, while it is being incremented), and the
table holds under each id the command that carries it, once that is stored: this strengthening is inductive, and gives `MatchesWhileSerial`.
`ResolvedSharesIds` needs only that an entry, once stored, carries the id it is
stored under, which no overlap can break. `SingleSenderMatches` draws the
conclusion the code may rely on: if the I/O thread is the only one that sends,
threads never overlap and every answer is taken for its command. `TypeCorrect`
includes that the counter never runs ahead of the commands started, also when two
threads increment it together: a thread writes back what it read plus one, and
what it read is at most the number of its command.

### The video windows

For any number of users, windows, changes and frames. The inductive invariant
says what exists at each step of `start()` and `stop()`: whether there is a
connection that is open, a listener, a drawer, and whose; and that a thread is
inside a drawer only for the connection that is open, or was until `Disconnect`.
The heart is `Release`: `releaseExternalResources` returns when the I/O thread of
the connection has ended, and nothing after it can start one, because the
connection is closed. Hence the listener is removed and the drawer deleted when
nobody iterates or draws, a thread that is in the call of a listener included:
that call is inside the loop.

What a window shows is a second invariant, `FInv`, of what the client knows of
each camera. `Sync`: unless a message about it is on its way, the flag and the
name of a stream are those of the server. `News`: a user nobody can be started
for any more (`Lost`: gone, going, or without a stream) while a menu or a window
of that user is there, is one a `CLOSE_VIDEO` broadcast is on its way for, or one
of the exceptions the property names (`Excused`); and a stream that is played is
the one the user publishes, unless the message that it goes off is still to be
handled (`GoesOff`, `Plays`). Each handler that makes a user `Lost` sends the
broadcast or records why nobody will receive it, which is what carries the
invariant over the interleavings of the two threads.

| theorem | statement |
|---|---|
| `WindowsInvariance`, `CamerasInvariance` | the two inductive invariants `IInv` and `FInv` |
| `TypeCorrect`, `FramesStayHome`, `NoLeftovers`, `WindowsFollow` | the invariants `TypeOK`, `FramesReachOwnDrawer`, `NothingLeaks`, `WindowsFollowCameras` of run `video` |
| `IterationUndisturbed` | the action property `ListenersStable` |

### The reconnection

For any number of threads, services, connections and losses. Nothing is locked,
so the proof is about who can be where, and the theorems say which overlap a fault
needs; they do not say that there is none. While Reconnect was not chosen beside
something under way (`~impatient`), there is one token: a thread that is about to
make a connection, or the connection it made (`Token`); the loss of that
connection hands it to the next thread. A thread that holds the token finds the
meeting it asked for (`OwnMeeting`). While no quit ran beside a join (`~hurried`),
nobody joins once the listener is removed (`Leaving`), and what `quit()` closed was
the last connection (`Closing`, `LastOnly`). A connection without a future is
known to the thread that will open it (`Dials`). What the screen will show when
the queue of runnables has run is decided by the last one posted (`Upright`); a
runnable that closes the dialog was posted behind one that shows it
(`ShownFirst`, `ShownAgain`).

| theorem | statement |
|---|---|
| `Invariance` | `Spec => []IInv` |
| `TypeCorrect`, `NoStrays`, `FailuresExplained`, `ScreenIsRight` | the invariants `TypeOK`, `NoStrayConnection`, `FailuresNeedOverlap`, `ScreenTellsTruth` of run `reconnection` |

### The meeting session

For any number of users, connections and events. The assumptions are that the
set of the other users is finite and does not contain the client's own user, and
that the bounds are naturals.

Roster and queue. `Mirror(list, q, k, M, H)` says that a list taken when k
messages of q were sent will, with the messages behind it, be the members `M`
with the flags `H`, and that each of these messages that looks up a user finds
it. The list of a connection that has its roster mirrors the server (`Current`);
before that, the answer to `getParticipants` does, from the place in the queue it
has (`Answered`), and the joins that are handled before it list nobody who is not
in it. So the step that receives the answer establishes what every later step
keeps. `RosterMirrorsServer` and `LookupsSafeOnceSynced` are read off.

The handshake. The answer must be the only one on its way, and must come after
the subscription. `Wire` says that at most one step of the handshake is on its
way, in either direction (`OneHandshake`), and what every message in a queue
tells of the connection (`Fits`): that the client has asked for the shared
object, that the server has subscribed it, that it has let the client in.

Contacts. Along the runnables that are posted, the contact list becomes the list
of participants of this connection, and each runnable for a status change finds
its contact at its place in the queue (`Contacts`). A new connection posts the
runnable that empties the list before anything else, which is why old runnables
do no harm. A user whose chat ends the connection in the handler of its leave is
removed from the screen and not from the list, so that the two agree while a
connection lasts only. For the chats, which this runnable does not close, `FirstConnection`
says that the first connection posts it only when there is none; that is the
restriction of `ChatsFollowRoster`.

At most one chat is displayed, and it is open (`Displays`). Nothing more is known of
the lookup of the displayed chat, which is why `LookupsSafeOnceSynced` names it.

The proof first shows, in one lemma, that each action is one of seven kinds
(the connection or the activity ends, nothing that matters changes, a command,
a runnable, a connect, a step of the server, a message handled), and then that
each kind keeps each part of the invariant.

| theorem | statement |
|---|---|
| `Invariance` | `Spec => []MInv` |
| `TypeCorrect`, `LookupsSafe`, `RosterMirrored`, `ChatsFollow` | the invariants of run `session`: `TypeOK`, `LookupsSafeOnceSynced`, `RosterMirrorsServer`, `ChatsFollowRoster` |
| `RunnablesFind`, `ContactsFollow` | the invariants of run `session_reconnect`: `RunnablesFindContacts`, `ContactsFollowRoster` |

### The voice conference

For any number of callers, connections, changes and commands. The assumptions
are that the ids of callers are a finite set, that the bounds are naturals, and
that `muted` is among the attributes that may change: the command of the menu
that mutes a listener reads it.

The module. A topic is whether a caller is in the conference, one attribute of a
caller, or whether the room is muted. The last message on its way that is about
a topic says what is so, and when there is none, the module knows it
(`Current`). `userJoin` and the list are about several topics at once. For the
list this needs a second fact: the messages before it lead to what it says
(`Snapshot`), because the server sent it after them. So a list that clears a map
that had joins in it puts the same callers back, and the runnables posted for
those are about callers that are still there. As in the session, one step of
the handshake at most is on its way (`Handshake`). `ModuleFollowsConference` is
read off, with the queue empty.

The screen. The entries of the adapter and the runnables behind them are put in
one line (`Timeline`), in which an entry is an addition that was made. A
runnable that adds then leaves the line as it is, and the others drop items from
it: an item of the line before a step and after it is related by an injection
that keeps the order (`Within`), and the invariant is about such lines. Of the
items that no `clear` comes after, those of a caller are as the module knows the
caller (`OnLine`): as many additions as `Entries` says, a second one only for a
caller that joined between the subscription and the list; a removal only of a
caller who left and will never be listed again (`Left`), and after its
additions; and the last change, or the first addition when there is none, shows
what the map says. Everywhere in the line, also before a `clear` of a connection
that was lost, a change comes after an addition of its caller and not after a
removal (`Backed`), so the entry it looks up is there when it runs.
A new connection empties the list before it is told of anybody (`Cleared`).

That a caller does not return under an id it had is what makes this inductive:
nothing is about a caller before the message that it joined, and no list it is in
is behind the message that it left (`Callers`).

`MenuKeepsListener` needs the types only: an entry is taken out of the list by a
removal or a clear, and both are what `shifted` records; additions go to the end
and a change replaces an entry by one of the same listener.

| theorem | statement |
|---|---|
| `TypeCorrect`, `ModuleFollows`, `RunnablesFind`, `MenuKeeps`, `ScreenShows` | the invariants of run `voice`: `TypeOK`, `ModuleFollowsConference`, `RunnablesFindListeners`, `MenuKeepsListener`, `ScreenShowsConference` |

### Only model-checked

- Liveness, which the prover does not reach: `EveryFrameDelivered`,
  `SessionSyncs`, `KickedLeaves`, `FramesLeave`, `OnlySleepersBlock`,
  `DialogAnswered`.
- Recursion over data: that the loop over the list of pieces computes `Merged`
  (`LoopCoalesces`), and that handling a queue message by message is decided by
  the last message (`LastMessageDecides`, `LastRunnableDecides`). Both would need
  induction over sequences, which the installed provers cannot do.

## 5. Findings

Each is a run that TLC ends with a counterexample; `PROJECT.json` quotes the
lines.

1. A private message from a user whose contact the UI thread has not added yet
   raises an exception that closes the session (`Client.java:1012`).
2. The broadcast of `Decode::stop` takes no mutex and can fall between the test of
   the run flag and the wait of the decoder thread: the join does not return, and
   with it the UI thread hangs (`Decode.cpp:211`).
3. A frame is enqueued by the address of a Java array that is released at once,
   while the decoder thread may still have to read it (`DrawerManager.cpp:25`).

Seen while modelling, without a run of their own. The models have each of
these unless it says otherwise; their properties name it as an exception.

The native side:

- a refused `queue_registerConsumer` keeps the mutex of the queue locked
  (`queue.cpp:146`); `queue.h` documents it as an error return like the others.
- `queue_dequeueCond` answers `E_QUEUE_EMPTY` after its wait even though the frame
  that woke it is there (`queue.cpp:470`); `queue.h:99` documents it as waiting
  until a buffer is available. Its callers loop, which hides this.
- `queue_flush` empties the queue for all consumers and leaves their cursors
  dangling (`queue.cpp:528`); `queue.h:128` documents it as concerning one
  consumer. Nobody calls it, and no module has it.
- the render thread tests the drawer pointer before it sets `rendering`
  (`DrawerManager.cpp:33`, `VideoDrawer.h:64`): the drawer can be deleted in
  between.
- the broadcast of `~VideoDrawer` (`VideoDrawer.h:62`) is lost like the one of
  finding 2; the UI thread then polls `rendering` for ever.
- `Decode::stop` skips the join when it reads `running_` false and deletes a
  `Thread` its thread still writes to (`Decode.cpp:212`, `Thread.h:79`).
- with a second decoder thread the double free of a refused frame would free
  somebody else's buffer, or keep the mutex of the pool (`DecodeVideo.cpp:158`).
- the second allocation of `_PrepareFrame` is not tested (`DecodeVideo.cpp:207`).
- `queue_memPercent` is documented as the share of the allocated memory that is in
  use and divides by one area, so that it exceeds one with two; `queue_memInUse` is
  documented as what is allocated and returns what lies in buffers
  (`queue.cpp:907` to `917`, `queue.h:206` to `222`). Not modelled.

The session:

- once the peer of the private chat on the screen has left or was kicked, the next
  leave of a peer with an open chat looks the displayed chat up on the I/O thread,
  gets null, and closes the session (`PrivateChat.java:107`, `114`;
  `ChatLookupFails`).
- sending a private message to a peer whose departure is known to the I/O thread
  but not yet to the UI thread ends the application (`ChatModule.java:198`).
- a private message stored before the clear of the private shared object arrives
  is wiped by it (`ChatModule.java:76`).
- a private chat that is open survives the loss of the connection: if its peer
  left meanwhile it stays open (`ChatsFollowRoster` is checked within one
  connection).
- launched from a link, the client has no list of meetings, and the constructor
  of `UsersModule` (`UsersModule.java:62`) ends in an exception that closes the
  connection. Not modelled beyond the end of the connection.
- the transaction id and its table are used by two threads without a lock
  (`ClientHandler.java:132`): ids can be given twice, also long after the threads
  met, because a stale write rewinds the counter.

The voice conference:

- a caller that leaves between the subscription and the list ends the
  application: the runnable is handed null (`ListenersModule.java:224`).
- a caller that joins in that window is announced twice, and its second entry is
  never taken out (`ListenersModule.java:105`).
- the position a menu was opened at goes stale when an entry before it is
  removed: another caller is muted or thrown out (`Client.java:514`).

Reconnection:

- Reconnect in the menu while a thread is reconnecting makes two connections, and
  only the last is ever closed (`Client.java:664`).
- a quit beside a join leaves a connection in the meeting, or ends the
  application on a service without a meeting or a connection without a future
  (`BigBlueButtonClient.java:156`).
- the runnable that reports a lost network spins on the UI thread for a dialog
  only the UI thread can show (`Client.java:820`); it needs two joins.
- a reconnection that cannot join ends the application instead of showing the
  message that is written for it (`Client.java:834` to `841`): the dialog of
  `joinAndConnect` cannot be made on that thread.
- a join waits for the web server without a timeout (`JoinService.java:132`, `158`):
  the dialog of a reconnection stays as long as it does, and a join on the UI thread
  holds that.
- the icon may say "connected" after a connection lost before its thread went on.

Video windows:

- listeners are told when the flag of a stream changes, not when its name does: a
  window opened between the two messages plays a stream that does not exist, and
  stays.
- `CLOSE_VIDEO` reaches nobody while the full-screen activity starts or a menu is
  open (`Client.java:1078`); the window is then started for a user without a
  stream and the application ends in `IVideoListener.start`. A late one may close
  a window that was opened again.
- windows outlive the main connection: losing it closes none, and the user may
  have no stream, or be gone, when the window is resumed.
- the position of the context menu may be another contact's, or none's, when the
  command is chosen.

## 6. Not modelled, and why

The codecs and container formats of the vendored ffmpeg, the SIP, STUN and zoolu
stacks, generated build files, resources and web pages are third-party code or
no program logic. They are nearly all of the lines of this repository: of the
half million lines the client's own concurrent logic, in `bbb-java`, the
activities of `bbb-android` and `iva`, is a few thousand, and that is what the
modules cover. The share of the whole the map covers is small for that reason,
and modelling a codec would say nothing about this program.

Of the program itself:

- the public chat: one thread appends to a list, and the runnable that clears the
  contacts clears it.
- the login page and the loading of meetings: forms, preferences, and HTTP
  requests made before any of the state modelled here exists.
- `QueueBuffer` and `QueueDiscard`: no code of the client instantiates them.
- the voice call: a thin layer over the vendored SIP stack.
- presenter commands and the streams of presentations: they change no state of
  the client that anything reads back.
- rotation of the meeting and chat screens, a chat screen in the background, layout, sounds,
  notifications, the order of the contacts, and the `size` statistic of a queue.

## 7. Plan

Done: 1 `FrameQueue`, its refinement and proofs; 2 `MeetingSession`;
3 `DecodePipeline` and its safety proof; 4 `FrameMemory` and its proofs;
5 `VoiceConference`; 6 `CommandTransactions` and its proofs; 7 `Reconnection`
and its proofs; 8 `VideoWindows` and its proofs; 9 the proofs of
`MeetingSession`; 10 the proofs of `VoiceConference`.

The inductive invariants of `Reconnection`, `MeetingSession` and of the cameras of
`VideoWindows` were each checked by TLC on the configurations of their runs
before they were proved.

Left, in this order:

- a launch from a link in `MeetingSession`, with the exception that ends it.
- the timestamps of `QueueDiscard` at 32 bits, should the client come to use it.
- the public chat, and the chat screen in the background, as one module of the
  meeting screen.
