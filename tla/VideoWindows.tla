--------------------------- MODULE VideoWindows ---------------------------
(* Watching the camera of another user: the dialog or full-screen activity  *)
(* that shows it (Client, VideoDialog, VideoFullScreen), the surface it      *)
(* starts and stops (VideoSurface), the connection made for the stream       *)
(* (IVideoListener, VideoRtmpConnection), the set of listeners every video   *)
(* connection delivers to (BigBlueButtonClient) and the one native drawer    *)
(* (DrawerManager), while cameras go on and off, users leave and the main    *)
(* connection is replaced. Three kinds of threads meet here: the I/O thread  *)
(* of the main connection, the UI thread, the I/O thread of each connection. *)
EXTENDS Naturals, Sequences, FiniteSets

CONSTANTS Users,            \* the other participants, numbered as they sort
          MaxConnections,   \* bound: video connections made
          MaxChanges,       \* bound: cameras switched, users that leave, outages
          MaxFrames         \* bound: frames received

ASSUME VideoAssumption ==
  /\ Users \subseteq Nat \ {0} /\ IsFiniteSet(Users)
  /\ MaxConnections \in Nat /\ MaxChanges \in Nat /\ MaxFrames \in Nat

Connections == 1..MaxConnections
None == 0
Streams == 0..(MaxChanges + 1)      \* 0 is "", no stream

VARIABLES
  camera,      \* the server: what each user publishes
  due,         \* status messages about each user on their way
  member,      \* UsersModule.participants: "in", "out", or "gone" for good
  hasStream,   \* Status.hasStream of each participant
  streamName,  \* Status.streamName
  leaving,     \* the participant whose departure is being handled
  listed,      \* the contacts of the list
  offered,     \* those whose copied status has a stream
  posted,      \* runnables of the UI thread about contacts
  broadcasts,  \* CLOSE_VIDEO intents on their way
  menu,        \* position the context menu is open for, or None
  window,      \* the dialog or full-screen activity
  step,        \* where the UI thread is in VideoSurface.start() or stop()
  handler,     \* VideoSurface.videoHandler: the connection it made
  showing,     \* VideoSurface.showing
  played,      \* the stream each connection was made for, if any was found
  conn,        \* state of each connection
  listeners,   \* BigBlueButtonClient.videoListeners, by their connections
  drawer,      \* DrawerManager's videoDrawer: the start() that created it
  io,          \* the I/O thread of each video connection
  app,         \* "running", or why it ended
  changes, frames,
  unaware,     \* history: users without a stream when the menu was opened, or
               \* that lost it where no window could be told
  outlived,    \* history: the window is older than the main connection
  blind        \* history: the stream was looked up in the middle of a change

roster == <<camera, due, member, hasStream, streamName, leaving, changes>>
news == <<listed, offered, posted, broadcasts>>
screen == <<menu, window>>
surface == <<step, handler, showing, played>>
video == <<conn, listeners, drawer, io, frames>>
history == <<unaware, outlived, blind>>
vars == <<roster, news, screen, surface, video, history, app>>

NoWindow == [kind |-> "none", user |-> None, resumed |-> FALSE]
Idle == [at |-> "idle", drawer |-> None]

Init ==
  /\ camera \in [Users -> {0, 1}]
  /\ hasStream = [u \in Users |-> camera[u] # 0]
  /\ streamName = camera
  /\ due = [u \in Users |-> {}]
  /\ member = [u \in Users |-> "in"] /\ leaving = None
  /\ listed = Users /\ offered = {u \in Users : hasStream[u]}
  /\ posted = <<>> /\ broadcasts = <<>>
  /\ menu = None /\ window = NoWindow
  /\ step = "idle" /\ handler = None /\ showing = FALSE
  /\ played = [c \in Connections |-> <<>>]
  /\ conn = [c \in Connections |-> "none"]
  /\ listeners = {} /\ drawer = None
  /\ io = [c \in Connections |-> Idle]
  /\ app = "running" /\ changes = 0 /\ frames = 0
  /\ unaware = {} /\ outlived = FALSE /\ blind = FALSE

-----------------------------------------------------------------------------
(* The cameras, and the I/O thread of the main connection *)

Change == changes < MaxChanges /\ changes' = changes + 1
Post(op, u) == posted' = Append(posted, [op |-> op, who |-> u])
MainOnly == UNCHANGED <<listed, offered, screen, surface, video, app>>

\* The server tells the flag and the name of a stream in a message each.  (A bound
\* on the environment: a camera is not switched again while these are on the way.
\* Broadcasts and runnables of several switches may wait for the UI thread.)
CameraSwitched(u) ==
  /\ Change
  /\ member[u] = "in" /\ due[u] = {} /\ leaving # u
  /\ camera' = [camera EXCEPT ![u] = IF @ = 0 THEN changes + 2 ELSE 0]
  /\ due' = [due EXCEPT ![u] = {"hasStream", "streamName"}]
  /\ UNCHANGED <<member, hasStream, streamName, leaving, posted, broadcasts,
                 history>>
  /\ MainOnly

\* Without the broadcast.
ForgetClose(u) == broadcasts

TellClose(u) == Append(broadcasts, u)

StatusOfStream(u) ==
  /\ member[u] = "in" /\ leaving = None /\ "hasStream" \in due[u]
  /\ due' = [due EXCEPT ![u] = @ \ {"hasStream"}]
  /\ hasStream' = [hasStream EXCEPT ![u] = camera[u] # 0]
  /\ broadcasts' = IF camera[u] = 0 THEN TellClose(u) ELSE broadcasts
  /\ Post("status", u)
  /\ UNCHANGED <<camera, member, streamName, leaving, changes, history>>
  /\ MainOnly

\* No listener is told of a name.
NameOfStream(u) ==
  /\ member[u] = "in" /\ leaving = None /\ "streamName" \in due[u]
  /\ due' = [due EXCEPT ![u] = @ \ {"streamName"}]
  /\ streamName' = [streamName EXCEPT ![u] = camera[u]]
  /\ UNCHANGED <<camera, member, hasStream, leaving, changes, posted, broadcasts,
                 history>>
  /\ MainOnly

\* A participant leaves: the listeners are called ...
LeaveNotified(u) ==
  /\ Change
  /\ member[u] = "in" /\ leaving = None
  /\ leaving' = u
  /\ camera' = [camera EXCEPT ![u] = 0]
  /\ due' = [due EXCEPT ![u] = {}]
  /\ broadcasts' = IF hasStream[u] THEN TellClose(u) ELSE broadcasts
  /\ Post("remove", u)
  /\ UNCHANGED <<member, hasStream, streamName, history>> /\ MainOnly

\* ... before the entry is taken out of the map.
LeaveRecorded(u) ==
  /\ leaving = u /\ u # None
  /\ leaving' = None
  /\ member' = [member EXCEPT ![u] = "gone"]
  /\ UNCHANGED <<camera, due, hasStream, streamName, changes, posted, broadcasts,
                 history>>
  /\ MainOnly

\* The main connection is replaced: a new UsersModule without participants ...
Outage ==
  /\ Change
  /\ leaving = None /\ \E u \in Users : member[u] = "in"
  /\ member' = [u \in Users |-> IF member[u] = "in" THEN "out" ELSE member[u]]
  /\ due' = [u \in Users |-> {}]
  /\ Post("clear", None)
  /\ outlived' = (outlived \/ menu # None \/ window # NoWindow)
  /\ UNCHANGED <<camera, hasStream, streamName, leaving, broadcasts, unaware,
                 blind>>
  /\ MainOnly

\* ... until the list arrives, as it is by then.
ListReceived ==
  /\ \E u \in Users : member[u] = "out"
  /\ \E stay \in SUBSET {u \in Users : member[u] = "out"}, on \in SUBSET Users :
       LET now(u) == IF u \in stay
                     THEN IF u \in on THEN MaxChanges + 1 ELSE 0 ELSE camera[u]
       IN /\ on \subseteq stay
          /\ member' = [u \in Users |-> IF u \in stay THEN "in" ELSE
                                        IF member[u] = "out" THEN "gone"
                                        ELSE member[u]]
          /\ camera' = [u \in Users |-> now(u)]
          /\ hasStream' = [u \in Users |-> IF u \in stay THEN u \in on
                                           ELSE hasStream[u]]
          /\ streamName' = [u \in Users |-> IF u \in stay THEN now(u)
                                            ELSE streamName[u]]
          /\ posted' = Append(posted, [op |-> "join", who |-> stay])
  /\ UNCHANGED <<due, leaving, changes, broadcasts, history>> /\ MainOnly

-----------------------------------------------------------------------------
(* The UI thread: what it is told *)

UiFree == app = "running" /\ step = "idle"
Crash(why) == app' = why /\ UNCHANGED <<screen, surface, conn, listeners, drawer>>

RunPosted ==
  /\ UiFree /\ posted # <<>>
  /\ posted' = Tail(posted)
  /\ LET t == Head(posted) IN
       \/ /\ t.op = "status"
          /\ offered' = IF hasStream[t.who] THEN offered \cup ({t.who} \cap listed)
                        ELSE offered \ {t.who}
          /\ app' = IF t.who \in listed THEN app ELSE "noContact"
          /\ UNCHANGED listed
       \/ /\ t.op = "remove"
          /\ listed' = listed \ {t.who} /\ offered' = offered \ {t.who}
          /\ UNCHANGED app
       \/ /\ t.op = "clear"
          /\ listed' = {} /\ offered' = {} /\ UNCHANGED app
       \/ /\ t.op = "join"
          /\ listed' = listed \cup t.who
          /\ offered' = offered \cup {u \in t.who : hasStream[u]}
          /\ UNCHANGED app
  /\ UNCHANGED <<roster, broadcasts, screen, surface, video, history>>

\* Hidden, but not forgotten.
Hidden == [window EXCEPT !.kind = "none", !.resumed = FALSE]

Closed == NoWindow

\* The screen after stop(): at once when the surface is not showing.
StopThen(w) ==
  /\ window' = w
  /\ step' = IF showing THEN "disconnect" ELSE "idle"

\* A dialog, or a full-screen activity with its receiver, of that user closes;
\* nobody tells a menu, or an activity whose receiver is not registered yet.
CloseBroadcast ==
  /\ UiFree /\ broadcasts # <<>>
  /\ broadcasts' = Tail(broadcasts)
  /\ IF window.kind \in {"dialog", "full"} /\ window.user = Head(broadcasts)
     THEN StopThen(Closed)
     ELSE UNCHANGED <<window, step>>
  /\ unaware' = IF menu # None \/ window.kind = "starting"
                THEN unaware \cup {Head(broadcasts)} ELSE unaware
  /\ UNCHANGED <<roster, listed, offered, posted, menu, handler, showing, played,
                 video, app, outlived, blind>>

-----------------------------------------------------------------------------
(* The UI thread: what the user does *)

Position(u) == Cardinality({v \in listed : v <= u})
UserOnly == UNCHANGED <<roster, news, handler, showing, played, video>>

OpenMenu(u) ==
  /\ UiFree /\ menu = None /\ window = NoWindow
  /\ u \in offered
  /\ menu' = Position(u)
  /\ unaware' = {v \in Users : member[v] # "in" \/ ~hasStream[v] \/ leaving = v}
  /\ outlived' = FALSE /\ blind' = FALSE
  /\ UNCHANGED <<window, step, app>> /\ UserOnly

Dismiss ==
  /\ UiFree /\ menu # None
  /\ menu' = None
  /\ UNCHANGED <<window, step, app, history>> /\ UserOnly

\* "Show video": the contact that is at the position by now.
Choose ==
  /\ UiFree /\ menu # None
  /\ \/ \E u \in listed :
          /\ Position(u) = menu
          /\ \E kind \in {"dialog", "starting"} :
               window' = [kind |-> kind, user |-> u, resumed |-> kind = "dialog"]
          /\ step' = IF window'.kind = "dialog" THEN "lookup" ELSE "idle"
          /\ menu' = None /\ UNCHANGED app
     \/ /\ menu > Cardinality(listed)
        /\ app' = "noContact" /\ UNCHANGED <<window, step, menu>>
  /\ UNCHANGED history /\ UserOnly

\* VideoFullScreen.onCreate() and onResume().
FullScreenStarts ==
  /\ UiFree /\ window.kind = "starting"
  /\ window' = [window EXCEPT !.kind = "full", !.resumed = TRUE]
  /\ step' = "lookup"
  /\ UNCHANGED <<menu, app, history>> /\ UserOnly

Pause ==
  /\ UiFree /\ window.resumed
  /\ StopThen([window EXCEPT !.resumed = FALSE])
  /\ UNCHANGED <<menu, app, history>> /\ UserOnly

Resume ==
  /\ UiFree /\ window.kind \in {"dialog", "full"} /\ ~window.resumed
  /\ window' = [window EXCEPT !.resumed = TRUE]
  /\ step' = "lookup"
  /\ UNCHANGED <<menu, app, history>> /\ UserOnly

CloseWindow ==
  /\ UiFree /\ window.resumed
  /\ StopThen(Closed)
  /\ UNCHANGED <<menu, app, history>> /\ UserOnly

\* Turned to landscape, the dialog becomes a full-screen activity.
Rotate ==
  /\ UiFree /\ window.kind = "dialog" /\ window.resumed
  /\ StopThen([window EXCEPT !.kind = "starting", !.resumed = FALSE])
  /\ UNCHANGED <<menu, app, history>> /\ UserOnly

-----------------------------------------------------------------------------
(* VideoSurface.start() and stop(), on the UI thread *)

Next1 == Cardinality({c \in Connections : conn[c] # "none"}) + 1
Watched == window.user

\* new VideoHandler(): the stream of the participant, if it has one.
Lookup ==
  /\ app = "running" /\ step = "lookup" /\ Next1 \in Connections
  /\ handler' = Next1
  /\ played' = [played EXCEPT ![Next1] =
                  IF member[Watched] = "in" /\ hasStream[Watched]
                  THEN <<streamName[Watched]>> ELSE <<>>]
  /\ conn' = [conn EXCEPT ![Next1] = "new"]
  /\ blind' = (due[Watched] # {} \/ leaving = Watched)
  /\ step' = "prepare"
  /\ UNCHANGED <<roster, news, screen, showing, listeners, drawer, io, frames,
                 unaware, outlived, app>>

\* initDrawer() keeps a drawer that exists; addVideoListener().
Prepare ==
  /\ app = "running" /\ step = "prepare"
  /\ drawer' = IF drawer = None THEN handler ELSE drawer
  /\ listeners' = listeners \cup {handler}
  /\ step' = "connect"
  /\ UNCHANGED <<roster, news, screen, handler, showing, played, conn, io, frames,
                 history, app>>

\* Without a stream there is no connection to start; nobody looks at the answer
\* of a connection that fails.
Connect ==
  /\ app = "running" /\ step = "connect"
  /\ \/ /\ played[handler] = <<>>
        /\ Crash("noStream")
     \/ /\ played[handler] # <<>>
        /\ \E s \in {"open", "closed"} : conn' = [conn EXCEPT ![handler] = s]
        /\ showing' = TRUE /\ step' = "idle"
        /\ UNCHANGED <<screen, handler, played, listeners, drawer, app>>
  /\ UNCHANGED <<roster, news, io, frames, history>>

\* close(), which does not wait ...
Disconnect ==
  /\ app = "running" /\ step = "disconnect"
  /\ conn' = [conn EXCEPT ![handler] = "closed"]
  /\ step' = "release"
  /\ UNCHANGED <<roster, news, screen, handler, showing, played, listeners,
                 drawer, io, frames, history, app>>

\* ... nor would the rest.
NotAwaited == TRUE

\* releaseExternalResources(): the thread of the connection has ended.
ThreadEnded == io[handler] = Idle

Release ==
  /\ app = "running" /\ step = "release" /\ ThreadEnded
  /\ step' = "remove"
  /\ UNCHANGED <<roster, news, screen, handler, showing, played, video, history,
                 app>>

\* The listener stays in the set.
KeepListener == listeners

WithoutListener == listeners \ {handler}

\* removeVideoListener(), whose second stop() finds everything closed.
Remove ==
  /\ app = "running" /\ step = "remove"
  /\ listeners' = WithoutListener
  /\ step' = "end"
  /\ UNCHANGED <<roster, news, screen, handler, showing, played, conn, drawer, io,
                 frames, history, app>>

EndDrawer ==
  /\ app = "running" /\ step = "end"
  /\ drawer' = None /\ showing' = FALSE
  /\ step' = "idle"
  /\ UNCHANGED <<roster, news, screen, handler, played, conn, listeners, io,
                 frames, history, app>>

-----------------------------------------------------------------------------
(* The I/O thread of each video connection *)

IoOnly == UNCHANGED <<roster, news, screen, surface, listeners, drawer, history, app>>

\* A frame, and the iterator over the listeners.
FrameReceived(c) ==
  /\ conn[c] = "open" /\ io[c] = Idle
  /\ frames < MaxFrames /\ frames' = frames + 1
  /\ io' = [io EXCEPT ![c].at = "iterating"]
  /\ UNCHANGED conn /\ IoOnly

\* onVideo() of the listeners: enqueueFrame() enters the drawer there is.
Enters(c) ==
  /\ io[c].at = "iterating"
  /\ io' = [io EXCEPT ![c] = IF listeners # {} /\ drawer # None
                             THEN [at |-> "enqueueing", drawer |-> drawer]
                             ELSE Idle]
  /\ UNCHANGED <<conn, frames>> /\ IoOnly

Leaves(c) ==
  /\ io[c].at = "enqueueing"
  /\ io' = [io EXCEPT ![c] = Idle]
  /\ UNCHANGED <<conn, frames>> /\ IoOnly

\* The server closes it, or answers that there is no such stream.
ServerCloses(c) ==
  /\ conn[c] = "open"
  /\ conn' = [conn EXCEPT ![c] = "closed"]
  /\ UNCHANGED <<io, frames>> /\ IoOnly

-----------------------------------------------------------------------------
Main ==
  \/ \E u \in Users : \/ CameraSwitched(u) \/ StatusOfStream(u) \/ NameOfStream(u)
                      \/ LeaveNotified(u) \/ LeaveRecorded(u)
  \/ Outage \/ ListReceived

Ui ==
  \/ RunPosted \/ CloseBroadcast
  \/ \E u \in Users : OpenMenu(u)
  \/ Dismiss \/ Choose \/ FullScreenStarts \/ Pause \/ Resume \/ CloseWindow \/ Rotate
  \/ Lookup \/ Prepare \/ Connect \/ Disconnect \/ Release \/ Remove \/ EndDrawer

Io == \E c \in Connections : FrameReceived(c) \/ Enters(c) \/ Leaves(c) \/ ServerCloses(c)

Next == app = "running" /\ (Main \/ Ui \/ Io)

Spec == Init /\ [][Next]_vars

-----------------------------------------------------------------------------
(* Every variable keeps its type.                                           *)
TypeOK ==
  /\ camera \in [Users -> Streams] /\ due \in [Users -> SUBSET {"hasStream", "streamName"}]
  /\ member \in [Users -> {"in", "out", "gone"}]
  /\ hasStream \in [Users -> BOOLEAN] /\ streamName \in [Users -> Streams]
  /\ leaving \in Users \cup {None}
  /\ listed \subseteq Users /\ offered \subseteq listed
  /\ menu \in 0..Cardinality(Users)
  /\ window.kind \in {"none", "starting", "dialog", "full"}
  /\ window.user \in Users \cup {None} /\ (window.kind = "none" => window = NoWindow)
  /\ step \in {"idle", "lookup", "prepare", "connect", "disconnect", "release",
               "remove", "end"}
  /\ handler \in Connections \cup {None} /\ showing \in BOOLEAN
  /\ conn \in [Connections -> {"none", "new", "open", "closed"}]
  /\ listeners \subseteq Connections /\ drawer \in Connections \cup {None}
  /\ io \in [Connections -> [at : {"idle", "iterating", "enqueueing"},
                             drawer : Connections \cup {None}]]
  /\ app \in {"running", "noStream", "noContact"}
  /\ unaware \subseteq Users /\ outlived \in BOOLEAN /\ blind \in BOOLEAN

(* The I/O thread of a connection is only ever inside the drawer that was   *)
(* created for that connection, and never inside one that was deleted.      *)
(* DrawerManager takes no lock: this rests on the order of stop() alone.    *)
FramesReachOwnDrawer ==
  \A c \in Connections : io[c].at = "enqueueing" => io[c].drawer = c /\ drawer = c

(* The UI thread never changes the set of listeners while an I/O thread is  *)
(* in its loop over it (a LinkedHashSet without a lock), the calls of the   *)
(* listeners in that loop included.                                         *)
ListenersStable ==
  [][listeners' # listeners => \A c \in Connections : io[c] = Idle]_vars

(* Between two calls of the surface there is a listener, a drawer and an    *)
(* open connection only for the window that is showing, however windows     *)
(* were paused, turned, closed by the user or closed by a broadcast.        *)
NothingLeaks ==
  UiFree =>
    /\ showing <=> window.resumed
    /\ listeners = IF showing THEN {handler} ELSE {}
    /\ drawer = IF showing THEN handler ELSE None
    /\ \A c \in Connections : conn[c] = "open" => showing /\ c = handler

\* The application ends in VideoSurface.start() only for a user that lost its
\* stream in a way the window cannot have been told: the broadcast is on its way,
\* a menu was already open or opened late, the receiver of the full-screen
\* activity was not registered yet, or the window is older than the connection.
CrashesOnlyUnawares ==
  app = "noStream" =>
    \/ outlived \/ Watched \in unaware
    \/ \E i \in 1..Len(broadcasts) : broadcasts[i] = Watched

\* Once all news has been handled, a window that shows a user plays the stream
\* that user publishes, unless it outlived the main connection or was opened in
\* the middle of a change.
NoDeadWindow ==
  /\ UiFree /\ window.resumed /\ ~outlived /\ ~blind
  /\ broadcasts = <<>> /\ due[Watched] = {} /\ leaving = None
  => /\ camera[Watched] # 0
     /\ played[handler] = <<camera[Watched]>>

(* A window follows the camera it was opened for: it does not stay on a     *)
(* stream that is gone, and is not started again for a user without one,    *)
(* while the broadcasts reach it. A lost or late broadcast would do both.   *)
WindowsFollowCameras == CrashesOnlyUnawares /\ NoDeadWindow
=============================================================================
