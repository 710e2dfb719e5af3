------------------------- MODULE VideoWindowsProofs -------------------------
(***************************************************************************)
(* What the order of VideoSurface.start() and stop() guarantees, for any   *)
(* number of users, connections, changes and frames.                       *)
(*                                                                         *)
(* DrawerManager and the set of listeners have no lock. That no frame      *)
(* reaches a deleted drawer and no iteration meets a change of the set     *)
(* follows from where the UI thread is: after each of its steps IInv says  *)
(* which listener and drawer exist, which connection may be open and which *)
(* I/O thread may be busy.                                                 *)
(*                                                                         *)
(* That a window follows its camera is FInv: a user whose stream is lost is *)
(* always one a broadcast is on its way about, or one that could not be    *)
(* told; and what is played is the camera until the news of its end comes. *)
(***************************************************************************)
EXTENDS VideoWindows, FiniteSetTheorems, TLAPS

Steps == {"idle", "lookup", "prepare", "connect", "disconnect", "release",
          "remove", "end"}
Starting == {"lookup", "prepare", "connect"}
Stopping == {"disconnect", "release", "remove", "end"}

\* All that matters of a window here.
IsWindow(w) ==
  /\ {"kind", "resumed"} \subseteq DOMAIN w /\ w.resumed \in BOOLEAN
  /\ w.kind = "starting" => ~w.resumed

Typed ==
  /\ IsWindow(window)
  /\ step \in Steps /\ handler \in Connections \cup {None} /\ showing \in BOOLEAN
  /\ listeners \subseteq Connections /\ drawer \in Connections \cup {None}
  /\ conn \in [Connections -> {"none", "new", "open", "closed"}]
  /\ io \in [Connections -> [at : {"idle", "iterating", "enqueueing"},
                             drawer : Connections \cup {None}]]

\* What there is when nothing is shown, and when the surface's handler is.
Nothing == listeners = {} /\ drawer = None
OwnOnly == handler \in Connections /\ listeners = {handler} /\ drawer = handler

NoneOpen == \A c \in Connections : conn[c] # "open"
AllIdle == \A c \in Connections : io[c] = Idle
OthersQuiet ==
  \A c \in Connections : conn[c] = "open" \/ io[c] # Idle => c = handler

\* The surface shows for a resumed window, except while it is on its way there.
Shown ==
  /\ step = "idle" => (showing <=> window.resumed)
  /\ step \in Starting => ~showing /\ window.resumed
  /\ step \in Stopping => showing /\ ~window.resumed

\* Where the UI thread is, and what there is then.
Held ==
  /\ ~showing => NoneOpen /\ AllIdle
  /\ ~showing /\ step # "connect" => Nothing
  /\ step = "prepare" => handler \in Connections
  /\ step = "connect" => OwnOnly
  /\ showing => OthersQuiet
  /\ showing /\ step # "end" => OwnOnly
  /\ step = "end" => listeners = {}
  /\ step \in {"release", "remove", "end"} => NoneOpen
  /\ step \in {"remove", "end"} => AllIdle

\* An idle thread is in no drawer, and a busy one in its own.
InOwn ==
  \A c \in Connections :
    /\ io[c].at = "idle" => io[c] = Idle
    /\ io[c].at = "enqueueing" => io[c].drawer = c

\* A context menu is open only while there is no window.
MenuAlone == menu # None => window = NoWindow

IInv == Typed /\ Shown /\ Held /\ InOwn /\ MenuAlone

\* What the steps of the main connection, and most of the screen, leave alone.
still == <<menu, window, step, handler, showing, listeners, drawer, conn, io>>

-----------------------------------------------------------------------------
LEMMA InitIInv == Init => IInv
<1> SUFFICES ASSUME Init PROVE IInv
  OBVIOUS
<1>1. Typed
  BY DEF Init, Typed, IsWindow, NoWindow, Idle, Steps
<1>2. Shown /\ MenuAlone
  BY DEF Init, Shown, MenuAlone, NoWindow, Starting, Stopping
<1>3. Held
  BY DEF Init, Held, Nothing, NoneOpen, AllIdle
<1>4. InOwn
  BY DEF Init, InOwn, Idle
<1>5. QED
  BY <1>1, <1>2, <1>3, <1>4 DEF IInv

LEMMA StillKeepsIInv == IInv /\ UNCHANGED still => IInv'
BY DEF still, IInv, IsWindow, Typed, MenuAlone, Shown, Held, InOwn, Nothing, OwnOnly, NoneOpen, AllIdle,
       OthersQuiet

\* The I/O thread of the main connection touches neither window nor surface.
LEMMA MainIsStill == Main => UNCHANGED still
<1>1. ASSUME NEW u \in Users, CameraSwitched(u) PROVE UNCHANGED still
  BY <1>1 DEF CameraSwitched, MainOnly, screen, surface, video, still
<1>2. ASSUME NEW u \in Users, StatusOfStream(u) PROVE UNCHANGED still
  BY <1>2 DEF StatusOfStream, MainOnly, screen, surface, video, still
<1>3. ASSUME NEW u \in Users, NameOfStream(u) PROVE UNCHANGED still
  BY <1>3 DEF NameOfStream, MainOnly, screen, surface, video, still
<1>4. ASSUME NEW u \in Users, LeaveNotified(u) PROVE UNCHANGED still
  BY <1>4 DEF LeaveNotified, MainOnly, screen, surface, video, still
<1>5. ASSUME NEW u \in Users, LeaveRecorded(u) PROVE UNCHANGED still
  BY <1>5 DEF LeaveRecorded, MainOnly, screen, surface, video, still
<1>6. Outage => UNCHANGED still
  BY DEF Outage, MainOnly, screen, surface, video, still
<1>7. ListReceived => UNCHANGED still
  BY DEF ListReceived, MainOnly, screen, surface, video, still
<1>8. QED
  BY <1>1, <1>2, <1>3, <1>4, <1>5, <1>6, <1>7 DEF Main

\* Opening a window asks the surface to start; it is not showing before.
LEMMA OpeningKeepsIInv ==
  ASSUME IInv, UiFree, ~window.resumed, menu' = None,
         IsWindow(window'),
         \/ window'.resumed /\ step' = "lookup"
         \/ ~window'.resumed /\ step' = "idle",
         UNCHANGED <<handler, showing, video>>
  PROVE  IInv'
BY DEF IInv, UiFree, Typed, MenuAlone, IsWindow, Shown, Held, InOwn, Nothing, OwnOnly, NoneOpen, AllIdle,
       OthersQuiet, Steps, Starting, Stopping, video

\* Leaving a window asks it to stop, if it is showing.
LEMMA StoppingKeepsIInv ==
  ASSUME IInv, UiFree, menu' = None,
         IsWindow(window'), ~window'.resumed,
         step' = IF showing THEN "disconnect" ELSE "idle",
         UNCHANGED <<handler, showing, video>>
  PROVE  IInv'
BY DEF IInv, UiFree, Typed, MenuAlone, IsWindow, Shown, Held, InOwn, Nothing, OwnOnly, NoneOpen,
       AllIdle, OthersQuiet, Steps, Starting, Stopping, video

LEMMA NoWindowIsWindow ==
  /\ IsWindow(Closed)
  /\ ~Closed.resumed
BY DEF Closed, NoWindow, IsWindow

-----------------------------------------------------------------------------
LEMMA StepIInv == IInv /\ [Next]_vars => IInv'
<1> SUFFICES ASSUME IInv, [Next]_vars PROVE IInv'
  OBVIOUS
<1> USE DEF UserOnly
<1>0. CASE UNCHANGED vars
  BY <1>0, StillKeepsIInv DEF vars, screen, surface, video, still
<1>1. CASE Main
  BY <1>1, MainIsStill, StillKeepsIInv
<1>2. CASE RunPosted
  BY <1>2, StillKeepsIInv DEF RunPosted, screen, surface, video, still
<1>3. CASE CloseBroadcast
  <2>1. CASE window.kind \in {"dialog", "full"} /\ window.user = Head(broadcasts)
    BY <1>3, <2>1, StoppingKeepsIInv, NoWindowIsWindow
       DEF CloseBroadcast, StopThen, IInv, MenuAlone, NoWindow
  <2>2. CASE ~(window.kind \in {"dialog", "full"} /\ window.user = Head(broadcasts))
    BY <1>3, <2>2, StillKeepsIInv DEF CloseBroadcast, video, still
  <2>3. QED BY <2>1, <2>2
<1>4. ASSUME NEW u \in Users, OpenMenu(u) PROVE IInv'
  BY <1>4 DEF OpenMenu, video, IInv, IsWindow, Typed, MenuAlone, Shown, Held, InOwn,
              Nothing, OwnOnly, NoneOpen, AllIdle, OthersQuiet
<1>5. CASE Dismiss
  BY <1>5 DEF Dismiss, video, IInv, IsWindow, Typed, MenuAlone, Shown, Held, InOwn,
              Nothing, OwnOnly, NoneOpen, AllIdle, OthersQuiet
<1>6. CASE Choose
  <2>1. ASSUME NEW u \in listed, NEW kind \in {"dialog", "starting"}, menu' = None,
               window' = [kind |-> kind, user |-> u, resumed |-> kind = "dialog"],
               step' = IF window'.kind = "dialog" THEN "lookup" ELSE "idle"
        PROVE  IInv'
    <3>1. ~window.resumed
      BY <1>6 DEF Choose, IInv, MenuAlone, NoWindow
    <3>2. /\ IsWindow(window')
          /\ \/ window'.resumed /\ step' = "lookup"
             \/ ~window'.resumed /\ step' = "idle"
      BY <2>1 DEF IsWindow
    <3>3. QED
      BY <1>6, <2>1, <3>1, <3>2, OpeningKeepsIInv DEF Choose
  <2>2. QED
    BY <1>6, <2>1, StillKeepsIInv DEF Choose, video, still
<1>7. CASE FullScreenStarts
  BY <1>7, OpeningKeepsIInv DEF FullScreenStarts, IInv, Typed, IsWindow, MenuAlone, NoWindow
<1>8. CASE Pause
  BY <1>8, StoppingKeepsIInv DEF Pause, StopThen, IInv, Typed, IsWindow, MenuAlone, NoWindow
<1>9. CASE Resume
  BY <1>9, OpeningKeepsIInv DEF Resume, IInv, Typed, IsWindow, MenuAlone, NoWindow
<1>10. CASE CloseWindow
  BY <1>10, StoppingKeepsIInv, NoWindowIsWindow DEF CloseWindow, StopThen, IInv, MenuAlone, NoWindow
<1>11. CASE Rotate
  BY <1>11, StoppingKeepsIInv DEF Rotate, StopThen, IInv, Typed, IsWindow, MenuAlone, NoWindow
<1> USE DEF IInv, Typed, MenuAlone, Shown, Held, InOwn, Nothing, OwnOnly, NoneOpen, AllIdle,
            OthersQuiet, Steps, Starting, Stopping, None, Idle
<1>12. CASE Lookup
  BY <1>12 DEF Lookup, screen
<1>13. CASE Prepare
  BY <1>13 DEF Prepare, screen
<1>14. CASE Connect
  <2>1. CASE played[handler] = <<>>
    BY <1>14, <2>1, StillKeepsIInv DEF Connect, Crash, screen, surface, still
  <2>2. CASE played[handler] # <<>>
    <3>1. PICK s \in {"open", "closed"} : conn' = [conn EXCEPT ![handler] = s]
      BY <1>14, <2>2 DEF Connect
    <3>2. /\ step = "connect" /\ step' = "idle" /\ showing' = TRUE
          /\ UNCHANGED <<menu, window, handler, listeners, drawer, io>>
      BY <1>14, <2>2 DEF Connect, screen
    <3>3. QED BY <3>1, <3>2
  <2>3. QED BY <2>1, <2>2
<1>15. CASE Disconnect
  BY <1>15 DEF Disconnect, screen
<1>16. CASE Release
  BY <1>16 DEF Release, ThreadEnded, screen, video
<1>17. CASE Remove
  BY <1>17 DEF Remove, WithoutListener, screen
<1>18. CASE EndDrawer
  BY <1>18 DEF EndDrawer, screen
<1>19. ASSUME NEW c \in Connections, FrameReceived(c) PROVE IInv'
  BY <1>19 DEF FrameReceived, IoOnly, screen, surface
<1>20. ASSUME NEW c \in Connections, Enters(c) PROVE IInv'
  BY <1>20 DEF Enters, IoOnly, screen, surface
<1>21. ASSUME NEW c \in Connections, Leaves(c) PROVE IInv'
  BY <1>21 DEF Leaves, IoOnly, screen, surface
<1>22. ASSUME NEW c \in Connections, ServerCloses(c) PROVE IInv'
  BY <1>22 DEF ServerCloses, IoOnly, screen, surface
<1>23. QED
  BY <1>0, <1>1, <1>2, <1>3, <1>4, <1>5, <1>6, <1>7, <1>8, <1>9, <1>10, <1>11,
     <1>12, <1>13, <1>14, <1>15, <1>16, <1>17, <1>18, <1>19, <1>20, <1>21, <1>22
     DEF Next, Ui, Io

(* The inductive invariant of the windows, the surface and the connections. *)
THEOREM WindowsInvariance == Spec => []IInv
BY InitIInv, StepIInv, PTL DEF Spec

-----------------------------------------------------------------------------
LEMMA ImpliesFrames == IInv => FramesReachOwnDrawer
<1> SUFFICES ASSUME IInv, NEW c \in Connections, io[c].at = "enqueueing"
             PROVE  io[c].drawer = c /\ drawer = c
  BY DEF FramesReachOwnDrawer
<1>1. io[c] # Idle
  BY DEF Idle
<1>2. showing /\ step \notin {"remove", "end"} /\ c = handler
  BY <1>1 DEF IInv, Typed, Held, AllIdle, OthersQuiet
<1>3. QED
  BY <1>2 DEF IInv, Held, InOwn, OwnOnly

LEMMA ImpliesNothingLeaks == IInv => NothingLeaks
BY DEF IInv, Typed, Shown, Held, Nothing, OwnOnly, NoneOpen, OthersQuiet, NothingLeaks,
       UiFree

\* Only two steps change the set, both when every I/O thread is idle.
LEMMA OnlyTwoChangeListeners ==
  ASSUME IInv, [Next]_vars, listeners' # listeners
  PROVE  Prepare \/ Remove
<1>1. Main => UNCHANGED listeners
  BY MainIsStill DEF still
<1>2. Io => UNCHANGED listeners
  BY DEF Io, FrameReceived, Enters, Leaves, ServerCloses, IoOnly
<1>3. /\ RunPosted \/ CloseBroadcast \/ (\E u \in Users : OpenMenu(u)) \/ Dismiss
         \/ Choose \/ FullScreenStarts \/ Pause \/ Resume \/ CloseWindow \/ Rotate
         => UNCHANGED listeners
      /\ Lookup \/ Disconnect \/ Release \/ EndDrawer => UNCHANGED listeners
  BY DEF RunPosted, CloseBroadcast, OpenMenu, Dismiss, Choose, FullScreenStarts, Pause,
         Resume, CloseWindow, Rotate, Lookup, Disconnect, Release, EndDrawer, UserOnly,
         video
<1>4. Connect => UNCHANGED listeners
  BY DEF Connect, Crash
<1>5. QED
  BY <1>1, <1>2, <1>3, <1>4 DEF Next, Ui, vars, video

LEMMA StepListenersStable ==
  ASSUME IInv, [Next]_vars
  PROVE  listeners' # listeners => \A c \in Connections : io[c] = Idle
<1> SUFFICES ASSUME listeners' # listeners, NEW c \in Connections
             PROVE  io[c] = Idle
  OBVIOUS
<1>1. Prepare => AllIdle
  BY DEF Prepare, IInv, Shown, Held, Starting
<1>2. Remove => AllIdle
  BY DEF Remove, IInv, Held
<1>3. io[c] = Idle
  BY <1>1, <1>2, OnlyTwoChangeListeners DEF AllIdle
<1>4. QED BY <1>3

-----------------------------------------------------------------------------
(* A frame only ever enters the drawer made for its connection, and that    *)
(* drawer is not deleted while the I/O thread is inside.                    *)
THEOREM FramesStayHome == Spec => []FramesReachOwnDrawer
BY WindowsInvariance, ImpliesFrames, PTL

(* Between two calls of the surface nothing of a closed window is left.     *)
THEOREM NoLeftovers == Spec => []NothingLeaks
BY WindowsInvariance, ImpliesNothingLeaks, PTL

(* The set of listeners does not change while an I/O thread is in its loop  *)
(* over it, the calls of the listeners included.                            *)
THEOREM IterationUndisturbed == Spec => ListenersStable
<1>1. IInv /\ [Next]_vars
      => [listeners' # listeners => \A c \in Connections : io[c] = Idle]_vars
  BY StepListenersStable
<1>2. QED
  BY <1>1, WindowsInvariance, PTL DEF Spec, ListenersStable
-----------------------------------------------------------------------------
(* The rest of the types.                                                   *)

Runnables == [op : {"status", "remove", "clear"}, who : Users \cup {None}]
             \cup [op : {"join"}, who : SUBSET Users]

RosterTyped ==
  /\ camera \in [Users -> Streams]
  /\ due \in [Users -> SUBSET {"hasStream", "streamName"}]
  /\ member \in [Users -> {"in", "out", "gone"}]
  /\ hasStream \in [Users -> BOOLEAN] /\ streamName \in [Users -> Streams]
  /\ leaving \in Users \cup {None} /\ changes \in 0..MaxChanges

NewsTyped ==
  /\ listed \subseteq Users /\ offered \subseteq listed
  /\ posted \in Seq(Runnables) /\ broadcasts \in Seq(Users)

ScreenTyped ==
  /\ menu \in 0..Cardinality(Users)
  /\ window \in [kind : {"none", "starting", "dialog", "full"},
                 user : Users \cup {None}, resumed : BOOLEAN]
  /\ window.kind = "none" => window = NoWindow
  /\ window.kind # "none" => window.user \in Users

RestTyped ==
  /\ played \in [Connections -> Seq(Streams)]
  /\ unaware \subseteq Users /\ outlived \in BOOLEAN /\ blind \in BOOLEAN
  /\ app \in {"running", "noStream", "noContact"}

\* Without a message on its way the client knows the camera of a participant.
Sync ==
  \A u \in Users : member[u] = "in" /\ leaving # u =>
    /\ "hasStream" \notin due[u] => (hasStream[u] <=> camera[u] # 0)
    /\ "streamName" \notin due[u] => streamName[u] = camera[u]

\* The messages about one user: the list of participants and the cameras.
LEMMA OthersKeepRoster ==
  /\ Ui => UNCHANGED roster
  /\ Io => UNCHANGED <<roster, news, screen, surface, history, app>>
<1>1. (RunPosted \/ CloseBroadcast \/ (\E u \in Users : OpenMenu(u)) \/ Dismiss \/ Choose)
        => UNCHANGED roster
  BY DEF RunPosted, CloseBroadcast, OpenMenu, Dismiss, Choose, UserOnly
<1>2. (FullScreenStarts \/ Pause \/ Resume \/ CloseWindow \/ Rotate) => UNCHANGED roster
  BY DEF FullScreenStarts, Pause, Resume, CloseWindow, Rotate, UserOnly
<1>3. (Lookup \/ Prepare \/ Connect \/ Disconnect \/ Release \/ Remove \/ EndDrawer)
        => UNCHANGED roster
  BY DEF Lookup, Prepare, Connect, Disconnect, Release, Remove, EndDrawer
<1>4. Io => UNCHANGED <<roster, news, screen, surface, history, app>>
  BY DEF Io, FrameReceived, Enters, Leaves, ServerCloses, IoOnly
<1> QED
  BY <1>1, <1>2, <1>3, <1>4 DEF Ui

LEMMA ListKeepsRoster ==
  ASSUME RosterTyped, Sync, ListReceived
  PROVE  RosterTyped' /\ Sync'
<1>1. MaxChanges \in Nat
  BY VideoAssumption
<1>2. PICK stay \in SUBSET {u \in Users : member[u] = "out"}, on \in SUBSET Users :
        LET now(u) == IF u \in stay
                      THEN IF u \in on THEN MaxChanges + 1 ELSE 0 ELSE camera[u]
        IN /\ on \subseteq stay
           /\ member' = [u \in Users |-> IF u \in stay THEN "in" ELSE
                                         IF member[u] = "out" THEN "gone"
                                         ELSE member[u]]
           /\ camera' = [u \in Users |-> now(u)]
           /\ hasStream' = [u \in Users |-> IF u \in stay THEN u \in on ELSE hasStream[u]]
           /\ streamName' = [u \in Users |-> IF u \in stay THEN now(u) ELSE streamName[u]]
  BY DEF ListReceived
<1>3. UNCHANGED <<due, leaving, changes>>
  BY DEF ListReceived
<1>4. /\ camera' \in [Users -> Streams] /\ streamName' \in [Users -> Streams]
      /\ member' \in [Users -> {"in", "out", "gone"}]
  BY <1>1, <1>2 DEF RosterTyped, Streams
<1>5. hasStream' \in [Users -> BOOLEAN]
  <2>1. hasStream' = [u \in Users |-> IF u \in stay THEN u \in on ELSE hasStream[u]]
    BY <1>2
  <2>2. ASSUME NEW u \in Users
        PROVE  (IF u \in stay THEN u \in on ELSE hasStream[u]) \in BOOLEAN
    <3>1. hasStream[u] \in BOOLEAN
      BY DEF RosterTyped
    <3>2. (u \in on) \in BOOLEAN
      OBVIOUS
    <3> QED
      BY <3>1, <3>2, Zenon
  <2> QED
    BY <2>1, <2>2
<1>6. ASSUME NEW u \in Users, member'[u] = "in", leaving' # u
      PROVE  /\ "hasStream" \notin due'[u] => (hasStream'[u] <=> camera'[u] # 0)
             /\ "streamName" \notin due'[u] => streamName'[u] = camera'[u]
  <2>1. CASE u \in stay
    <3>1. camera'[u] = IF u \in on THEN MaxChanges + 1 ELSE 0
      BY <1>2, <2>1
    <3>2. streamName'[u] = IF u \in on THEN MaxChanges + 1 ELSE 0
      BY <1>2, <2>1
    <3>3. hasStream'[u] <=> u \in on
      BY <1>2, <2>1
    <3>4. MaxChanges + 1 # 0
      BY <1>1
    <3> QED
      BY <3>1, <3>2, <3>3, <3>4
  <2>2. CASE u \notin stay
    BY <1>2, <1>3, <1>6, <2>2 DEF Sync
  <2> QED
    BY <2>1, <2>2
<1> QED
  BY <1>3, <1>4, <1>5, <1>6 DEF RosterTyped, Sync

LEMMA RosterKept ==
  ASSUME RosterTyped, Sync, [Next]_vars
  PROVE  RosterTyped' /\ Sync'
<1>0. MaxChanges \in Nat /\ Users \subseteq Nat \ {0}
  BY VideoAssumption
<1>1. CASE UNCHANGED roster
  BY <1>1 DEF roster, RosterTyped, Sync
<1>2. ASSUME NEW u \in Users, CameraSwitched(u) PROVE RosterTyped' /\ Sync'
  <2>1. changes' \in 0..MaxChanges /\ changes + 2 \in Streams /\ 0 \in Streams
        /\ changes + 2 # 0
    BY <1>0, <1>2 DEF CameraSwitched, Change, RosterTyped, Streams
  <2>2. RosterTyped'
    BY <1>2, <2>1 DEF CameraSwitched, RosterTyped
  <2>3. Sync'
    BY <1>2 DEF CameraSwitched, RosterTyped, Sync
  <2> QED
    BY <2>2, <2>3
<1>3. ASSUME NEW u \in Users, StatusOfStream(u) PROVE RosterTyped' /\ Sync'
  <2>1. RosterTyped'
    BY <1>3 DEF StatusOfStream, RosterTyped
  <2>2. Sync'
    BY <1>3 DEF StatusOfStream, RosterTyped, Sync
  <2> QED
    BY <2>1, <2>2
<1>4. ASSUME NEW u \in Users, NameOfStream(u) PROVE RosterTyped' /\ Sync'
  <2>1. RosterTyped'
    BY <1>4 DEF NameOfStream, RosterTyped
  <2>2. Sync'
    BY <1>4 DEF NameOfStream, RosterTyped, Sync
  <2> QED
    BY <2>1, <2>2
<1>5. ASSUME NEW u \in Users, LeaveNotified(u) PROVE RosterTyped' /\ Sync'
  <2>1. changes' \in 0..MaxChanges /\ 0 \in Streams
    BY <1>0, <1>5 DEF LeaveNotified, Change, RosterTyped, Streams
  <2>2. RosterTyped'
    BY <1>5, <2>1 DEF LeaveNotified, RosterTyped
  <2>3. ASSUME NEW v \in Users, v # u
        PROVE  /\ member'[v] = member[v] /\ due'[v] = due[v] /\ camera'[v] = camera[v]
               /\ leaving # v /\ hasStream' = hasStream /\ streamName' = streamName
    BY <1>0, <1>5, <2>3 DEF LeaveNotified, RosterTyped, None
  <2>4. leaving' = u
    BY <1>5 DEF LeaveNotified
  <2>5. Sync'
    BY <2>3, <2>4 DEF Sync
  <2> QED
    BY <2>2, <2>5
<1>6. ASSUME NEW u \in Users, LeaveRecorded(u) PROVE RosterTyped' /\ Sync'
  <2>1. RosterTyped'
    BY <1>6 DEF LeaveRecorded, RosterTyped
  <2>2. Sync'
    BY <1>6 DEF LeaveRecorded, RosterTyped, Sync
  <2> QED
    BY <2>1, <2>2
<1>7. CASE Outage
  <2>1. changes' \in 0..MaxChanges
    BY <1>0, <1>7 DEF Outage, Change, RosterTyped
  <2>2. RosterTyped'
    BY <1>7, <2>1 DEF Outage, RosterTyped
  <2>3. \A u \in Users : member'[u] # "in"
    BY <1>7 DEF Outage, RosterTyped
  <2> QED
    BY <2>2, <2>3 DEF Sync
<1>8. CASE ListReceived
  BY <1>8, ListKeepsRoster
<1>9. CASE Main
  BY <1>2, <1>3, <1>4, <1>5, <1>6, <1>7, <1>8, <1>9 DEF Main
<1> QED
  BY <1>1, <1>9, OthersKeepRoster DEF Next, vars

-----------------------------------------------------------------------------
\* Runnables and broadcasts, and the list they keep.
LEMMA MainNews ==
  ASSUME RosterTyped, NewsTyped, Main
  PROVE  /\ posted' \in Seq(Runnables)
         /\ broadcasts' = broadcasts \/ \E u \in Users : broadcasts' = Append(broadcasts, u)
         /\ UNCHANGED <<listed, offered, menu, window, surface, app, unaware, blind>>
         /\ outlived => outlived'
<1> DEFINE Goal ==
         /\ posted' \in Seq(Runnables)
         /\ broadcasts' = broadcasts \/ \E u \in Users : broadcasts' = Append(broadcasts, u)
         /\ UNCHANGED <<listed, offered, menu, window, surface, app, unaware, blind>>
         /\ outlived => outlived'
<1>0. posted \in Seq(Runnables)
  BY DEF NewsTyped
<1>1. ASSUME NEW u \in Users, NEW op \in {"status", "remove"}, Post(op, u)
      PROVE  posted' \in Seq(Runnables)
  <2>1. [op |-> op, who |-> u] \in Runnables
    BY DEF Runnables
  <2> QED
    BY <1>0, <1>1, <2>1 DEF Post
<1>2. ASSUME NEW u \in Users, CameraSwitched(u) PROVE Goal
  BY <1>0, <1>2 DEF CameraSwitched, MainOnly, screen, history
<1>3. ASSUME NEW u \in Users, StatusOfStream(u) PROVE Goal
  BY <1>1, <1>3 DEF StatusOfStream, TellClose, MainOnly, screen, history
<1>4. ASSUME NEW u \in Users, NameOfStream(u) PROVE Goal
  BY <1>0, <1>4 DEF NameOfStream, MainOnly, screen, history
<1>5. ASSUME NEW u \in Users, LeaveNotified(u) PROVE Goal
  BY <1>1, <1>5 DEF LeaveNotified, TellClose, MainOnly, screen, history
<1>6. ASSUME NEW u \in Users, LeaveRecorded(u) PROVE Goal
  BY <1>0, <1>6 DEF LeaveRecorded, MainOnly, screen, history
<1>7. CASE Outage
  <2>1. [op |-> "clear", who |-> None] \in Runnables
    BY DEF Runnables
  <2>2. posted' \in Seq(Runnables)
    BY <1>0, <1>7, <2>1 DEF Outage, Post
  <2> QED
    BY <1>7, <2>2 DEF Outage, MainOnly, screen
<1>8. CASE ListReceived
  <2>1. PICK stay \in SUBSET Users : posted' = Append(posted, [op |-> "join", who |-> stay])
    BY <1>8 DEF ListReceived
  <2>2. [op |-> "join", who |-> stay] \in Runnables
    BY DEF Runnables
  <2>3. posted' \in Seq(Runnables)
    BY <1>0, <2>1, <2>2
  <2> QED
    BY <1>8, <2>3 DEF ListReceived, MainOnly, screen, history
<1> QED
  BY <1>2, <1>3, <1>4, <1>5, <1>6, <1>7, <1>8 DEF Main

\* What the steps on the UI thread do to the news.
LEMMA UiNews ==
  ASSUME Ui
  PROVE  RunPosted \/ CloseBroadcast \/ UNCHANGED news
<1>1. ((\E u \in Users : OpenMenu(u)) \/ Dismiss \/ Choose \/ FullScreenStarts \/ Pause
         \/ Resume \/ CloseWindow \/ Rotate) => UNCHANGED news
  BY DEF OpenMenu, Dismiss, Choose, FullScreenStarts, Pause, Resume, CloseWindow, Rotate,
         UserOnly
<1>2. (Lookup \/ Prepare \/ Connect \/ Disconnect \/ Release \/ Remove \/ EndDrawer)
        => UNCHANGED news
  BY DEF Lookup, Prepare, Connect, Disconnect, Release, Remove, EndDrawer
<1> QED
  BY <1>1, <1>2 DEF Ui

LEMMA NewsKept ==
  ASSUME RosterTyped, NewsTyped, [Next]_vars
  PROVE  NewsTyped'
<1>1. CASE UNCHANGED news
  BY <1>1 DEF news, NewsTyped
<1>2. CASE Main
  <2>1. broadcasts' \in Seq(Users)
    BY <1>2, MainNews DEF NewsTyped
  <2> QED
    BY <1>2, <2>1, MainNews DEF NewsTyped
<1>3. CASE CloseBroadcast
  BY <1>3 DEF CloseBroadcast, NewsTyped
<1>4. CASE RunPosted
  <2>1. posted # <<>> /\ posted' = Tail(posted) /\ UNCHANGED broadcasts
    BY <1>4 DEF RunPosted
  <2>2. posted' \in Seq(Runnables) /\ Head(posted) \in Runnables
    BY <2>1 DEF NewsTyped
  <2> DEFINE t == Head(posted)
  <2>3. CASE t.op = "status"
    <3>1. /\ UNCHANGED listed
          /\ \/ offered' = offered \cup ({t.who} \cap listed)
             \/ offered' = offered \ {t.who}
      BY <1>4, <2>3 DEF RunPosted
    <3> QED
      BY <2>1, <2>2, <3>1 DEF NewsTyped
  <2>4. CASE t.op = "remove"
    BY <1>4, <2>1, <2>2, <2>4 DEF RunPosted, NewsTyped
  <2>5. CASE t.op = "clear"
    BY <1>4, <2>1, <2>2, <2>5 DEF RunPosted, NewsTyped
  <2>6. CASE t.op = "join"
    <3>1. t.who \subseteq Users
      BY <2>2, <2>6 DEF Runnables
    <3>2. listed' = listed \cup t.who /\ offered' = offered \cup {u \in t.who : hasStream[u]}
      BY <1>4, <2>6 DEF RunPosted
    <3> HIDE DEF t
    <3> QED
      BY <2>1, <2>2, <3>1, <3>2 DEF NewsTyped
  <2> QED
    BY <1>4, <2>3, <2>4, <2>5, <2>6 DEF RunPosted
<1> QED
  BY <1>1, <1>2, <1>3, <1>4, UiNews, OthersKeepRoster DEF Next, vars

-----------------------------------------------------------------------------
\* The menu and the window.
LEMMA PositionBounded ==
  ASSUME NewsTyped, NEW u
  PROVE  Position(u) \in 0..Cardinality(Users)
<1>1. {v \in listed : v <= u} \in SUBSET Users
  BY DEF NewsTyped
<1>2. IsFiniteSet(Users)
  BY VideoAssumption
<1>3. /\ IsFiniteSet({v \in listed : v <= u})
      /\ Cardinality({v \in listed : v <= u}) <= Cardinality(Users)
  BY <1>1, <1>2, FS_Subset
<1>4. Cardinality({v \in listed : v <= u}) \in Nat /\ Cardinality(Users) \in Nat
  BY <1>2, <1>3, FS_CardinalityType
<1> QED
  BY <1>3, <1>4 DEF Position

LEMMA NoWindowTyped ==
  /\ NoWindow \in [kind : {"none", "starting", "dialog", "full"},
                   user : Users \cup {None}, resumed : BOOLEAN]
  /\ NoWindow.kind = "none"
BY DEF NoWindow

LEMMA ScreenKept ==
  ASSUME NewsTyped, ScreenTyped, MenuAlone, [Next]_vars, RosterTyped
  PROVE  ScreenTyped'
<1>0. None \notin Users /\ 0 \in 0..Cardinality(Users)
  <2>1. Cardinality(Users) \in Nat
    BY VideoAssumption, FS_CardinalityType
  <2> QED
    BY <2>1, VideoAssumption DEF None
<1>1. CASE UNCHANGED screen
  BY <1>1 DEF screen, ScreenTyped
<1>2. CASE Main
  BY <1>2, MainNews DEF ScreenTyped
<1>3. CASE CloseBroadcast
  <2>1. menu' = menu /\ (window' = NoWindow \/ window' = window)
    BY <1>3 DEF CloseBroadcast, StopThen, Closed
  <2> QED
    BY <2>1, NoWindowTyped DEF ScreenTyped
<1>4. ASSUME NEW u \in Users, OpenMenu(u) PROVE ScreenTyped'
  <2>1. menu' = Position(u) /\ window' = window
    BY <1>4 DEF OpenMenu
  <2> QED
    BY <2>1, PositionBounded DEF ScreenTyped
<1>5. CASE Dismiss
  BY <1>0, <1>5 DEF Dismiss, ScreenTyped, None
<1>6. CASE Choose
  <2>1. CASE window' = window /\ menu' = menu
    BY <2>1 DEF ScreenTyped
  <2>2. ASSUME NEW u \in listed, NEW kind \in {"dialog", "starting"}, menu' = None,
               window' = [kind |-> kind, user |-> u, resumed |-> kind = "dialog"]
        PROVE  ScreenTyped'
    <3>1. u \in Users
      BY DEF NewsTyped
    <3> QED
      BY <1>0, <2>2, <3>1 DEF ScreenTyped, None
  <2> QED
    BY <1>6, <2>1, <2>2 DEF Choose
<1>7. CASE FullScreenStarts \/ Resume \/ Pause
  <2>1. window' \in {[window EXCEPT !.kind = "full", !.resumed = TRUE],
                     [window EXCEPT !.resumed = TRUE], [window EXCEPT !.resumed = FALSE]}
        /\ menu' = menu /\ window.kind # "none"
    BY <1>7 DEF FullScreenStarts, Resume, Pause, StopThen, ScreenTyped, NoWindow
  <2> QED
    BY <2>1 DEF ScreenTyped
<1>8. CASE CloseWindow
  BY <1>8 DEF CloseWindow, StopThen, Closed, ScreenTyped, NoWindow
<1>9. CASE Rotate
  BY <1>9 DEF Rotate, StopThen, ScreenTyped
<1>10. (RunPosted \/ Lookup \/ Prepare \/ Disconnect \/ Release \/ Remove \/ EndDrawer \/ Connect)
         => UNCHANGED screen
  BY DEF RunPosted, Lookup, Prepare, Disconnect, Release, Remove, EndDrawer, Connect, Crash
<1> QED
  BY <1>1, <1>2, <1>3, <1>4, <1>5, <1>6, <1>7, <1>8, <1>9, <1>10, OthersKeepRoster DEF Next, Ui, vars

\* The streams that were found, the history, and how it ends.
LEMMA RestKept ==
  ASSUME IInv, RosterTyped, NewsTyped, ScreenTyped, RestTyped, [Next]_vars
  PROVE  RestTyped'
<1>1. CASE UNCHANGED <<surface, history, app>>
  BY <1>1 DEF surface, history, RestTyped
<1>2. CASE Main
  <2>1. UNCHANGED <<surface, app, unaware, blind>>
    BY <1>2, MainNews
  <2>2. outlived' \in BOOLEAN
    BY <1>2 DEF Main, CameraSwitched, StatusOfStream, NameOfStream, LeaveNotified,
                LeaveRecorded, Outage, ListReceived, history, RestTyped
  <2> QED
    BY <2>1, <2>2 DEF surface, RestTyped
<1>3. CASE RunPosted
  BY <1>3 DEF RunPosted, surface, history, RestTyped
<1>4. CASE CloseBroadcast
  BY <1>4 DEF CloseBroadcast, RestTyped, NewsTyped
<1>5. ASSUME NEW u \in Users, OpenMenu(u) PROVE RestTyped'
  BY <1>5 DEF OpenMenu, UserOnly, RestTyped
<1>6. CASE Choose
  BY <1>6 DEF Choose, UserOnly, history, RestTyped
<1>7. CASE Dismiss \/ FullScreenStarts \/ Pause \/ Resume \/ CloseWindow \/ Rotate
  BY <1>7 DEF Dismiss, FullScreenStarts, Pause, Resume, CloseWindow, Rotate, UserOnly, history,
              RestTyped
<1>8. CASE Lookup
  <2>1. Watched \in Users
    BY <1>8 DEF Lookup, IInv, Shown, Starting, ScreenTyped, NoWindow, Watched
  <2>2. \A s \in Streams : <<s>> \in Seq(Streams)
    OBVIOUS
  <2>3. played' \in [Connections -> Seq(Streams)]
    BY <1>8, <2>1, <2>2 DEF Lookup, RestTyped, RosterTyped
  <2>4. blind' \in BOOLEAN
    BY <1>8 DEF Lookup
  <2> QED
    BY <1>8, <2>3, <2>4 DEF Lookup, RestTyped
<1>9. CASE Connect
  BY <1>9 DEF Connect, Crash, surface, history, RestTyped
<1>10. CASE Prepare \/ Disconnect \/ Release \/ Remove \/ EndDrawer
  BY <1>10 DEF Prepare, Disconnect, Release, Remove, EndDrawer, history, RestTyped
<1> QED
  BY <1>1, <1>2, <1>3, <1>4, <1>5, <1>6, <1>7, <1>8, <1>9, <1>10, OthersKeepRoster DEF Next, Ui, vars

-----------------------------------------------------------------------------
(* Windows and cameras. A user is told of if a broadcast about it is on its *)
(* way, and excused if the property says so.                                *)

Told(u) == \E i \in 1..Len(broadcasts) : broadcasts[i] = u
Excused(u) == outlived \/ u \in unaware \/ Told(u)

\* Nobody can be started for this user, or soon not any more.
Lost(u) == member[u] # "in" \/ ~hasStream[u] \/ leaving = u

MenuExcused == menu # None => \A u \in Users : Lost(u) => Excused(u)
WindowExcused == window # NoWindow /\ Lost(Watched) => Excused(Watched)

\* A stream that was not found.
LoadedExcused ==
  /\ step \in {"prepare", "connect"} /\ played[handler] = <<>> => Excused(Watched)
  /\ app = "noStream" => Excused(Watched)

ShowsStream == step = "idle" /\ window.resumed => played[handler] # <<>>

\* The camera of the user was switched off, and the broadcast will follow; or
\* it is the one that is played.
GoesOff(u) == "hasStream" \in due[u] /\ camera[u] = 0
Plays(u) == due[u] = {} /\ camera[u] # 0 /\ played[handler] = <<camera[u]>>

Follows ==
  /\ window.resumed /\ step \in {"prepare", "connect", "idle"}
  /\ ~outlived /\ ~blind /\ played[handler] # <<>>
  => \/ Told(Watched)
     \/ (~Lost(Watched) /\ (GoesOff(Watched) \/ Plays(Watched)))

Types == RosterTyped /\ NewsTyped /\ ScreenTyped /\ RestTyped
News == MenuExcused /\ WindowExcused /\ LoadedExcused /\ ShowsStream /\ Follows

\* What a broadcast that is sent, and one that is received, does to Told.
LEMMA SentIsTold ==
  ASSUME broadcasts \in Seq(Users), NEW u \in Users, broadcasts' = Append(broadcasts, u)
  PROVE  Told(u)' /\ \A v : Told(v) => Told(v)'
<1>1. /\ Len(broadcasts') = Len(broadcasts) + 1 /\ Len(broadcasts) \in Nat
      /\ broadcasts'[Len(broadcasts) + 1] = u
      /\ \A i \in 1..Len(broadcasts) : broadcasts'[i] = broadcasts[i]
  OBVIOUS
<1> QED
  BY <1>1 DEF Told

LEMMA ReceivedIsTold ==
  ASSUME broadcasts \in Seq(Users), broadcasts # <<>>, broadcasts' = Tail(broadcasts)
  PROVE  \A v : Told(v) => v = Head(broadcasts) \/ Told(v)'
<1> SUFFICES ASSUME NEW v, NEW i \in 1..Len(broadcasts), broadcasts[i] = v,
                    v # Head(broadcasts)
             PROVE  Told(v)'
  BY DEF Told
<1>1. i # 1 /\ Len(broadcasts) \in Nat
  OBVIOUS
<1>2. i - 1 \in 1..Len(broadcasts') /\ broadcasts'[i - 1] = broadcasts[i]
  BY <1>1
<1> QED
  BY <1>2 DEF Told

\* The I/O thread takes no broadcast back, and excuses nobody less.
LEMMA MainTells ==
  ASSUME Types, Main
  PROVE  /\ \A v : Told(v) => Told(v)'
         /\ \A v : Excused(v) => Excused(v)'
<1>1. \A v : Told(v) => Told(v)'
  <2>1. CASE broadcasts' = broadcasts
    BY <2>1 DEF Told
  <2>2. ASSUME NEW u \in Users, broadcasts' = Append(broadcasts, u)
        PROVE  \A v : Told(v) => Told(v)'
    BY <2>2, SentIsTold DEF Types, NewsTyped
  <2> QED
    BY <2>1, <2>2, MainNews DEF Types
<1>2. unaware' = unaware /\ (outlived => outlived')
  BY MainNews DEF Types
<1> QED
  BY <1>1, <1>2 DEF Excused

\* A user that is lost is told of, if it was not lost before.
LEMMA LostIsTold ==
  ASSUME Types, Main, menu # None \/ window # NoWindow, NEW u \in Users, Lost(u)'
  PROVE  Lost(u) \/ Told(u)' \/ outlived'
<1>0. None \notin Users /\ broadcasts \in Seq(Users)
  BY VideoAssumption DEF None, Types, NewsTyped
<1>1. ASSUME NEW v \in Users, CameraSwitched(v) PROVE Lost(u)
  BY <1>1 DEF CameraSwitched, Lost
<1>2. ASSUME NEW v \in Users, StatusOfStream(v) PROVE Lost(u) \/ Told(u)'
  <2>1. CASE u # v
    BY <1>2, <2>1 DEF StatusOfStream, Lost, Types, RosterTyped
  <2>2. CASE u = v /\ camera[u] = 0
    BY <1>0, <1>2, <2>2, SentIsTold DEF StatusOfStream, TellClose
  <2>3. CASE u = v /\ camera[u] # 0
    <3>1. hasStream'[u] /\ member'[u] = "in" /\ leaving' = None
      BY <1>2, <2>3 DEF StatusOfStream, Types, RosterTyped
    <3> QED
      BY <1>0, <3>1 DEF Lost
  <2> QED
    BY <2>1, <2>2, <2>3
<1>3. ASSUME NEW v \in Users, NameOfStream(v) PROVE Lost(u)
  BY <1>3 DEF NameOfStream, Lost
<1>4. ASSUME NEW v \in Users, LeaveNotified(v) PROVE Lost(u) \/ Told(u)'
  <2>1. CASE u # v
    BY <1>4, <2>1 DEF LeaveNotified, Lost
  <2>2. CASE u = v /\ hasStream[u]
    BY <1>0, <1>4, <2>2, SentIsTold DEF LeaveNotified, TellClose
  <2> QED
    BY <2>1, <2>2 DEF Lost
<1>5. ASSUME NEW v \in Users, LeaveRecorded(v) PROVE Lost(u)
  BY <1>0, <1>5 DEF LeaveRecorded, Lost, Types, RosterTyped
<1>6. CASE Outage
  BY <1>6 DEF Outage
<1>7. CASE ListReceived
  <2>1. member[u] = "in" => (hasStream'[u] <=> hasStream[u]) /\ member'[u] = "in"
    <3>1. PICK stay \in SUBSET {w \in Users : member[w] = "out"}, on \in SUBSET Users :
            /\ member' = [w \in Users |-> IF w \in stay THEN "in" ELSE
                                          IF member[w] = "out" THEN "gone" ELSE member[w]]
            /\ hasStream' = [w \in Users |-> IF w \in stay THEN w \in on ELSE hasStream[w]]
      BY <1>7 DEF ListReceived
    <3>2. CASE member[u] = "in"
      <4>1. u \notin stay
        BY <3>2
      <4>2. member'[u] = "in"
        BY <3>1, <3>2, <4>1
      <4>3. hasStream'[u] <=> hasStream[u]
        BY <3>1, <4>1
      <4> QED
        BY <4>2, <4>3
    <3> QED
      BY <3>2
  <2>2. leaving' = leaving
    BY <1>7 DEF ListReceived
  <2> QED
    BY <2>1, <2>2 DEF Lost
<1> QED
  BY <1>1, <1>2, <1>3, <1>4, <1>5, <1>6, <1>7 DEF Main

\* What is played is the camera, until it goes off, until that is told.
LEMMA FollowsOn ==
  ASSUME Types, Main, ~outlived', NEW u \in Users, window # NoWindow,
         ~Lost(u), GoesOff(u) \/ Plays(u), played' = played, handler' = handler
  PROVE  Told(u)' \/ (~Lost(u)' /\ (GoesOff(u)' \/ Plays(u)'))
<1>1. CASE Lost(u)'
  BY <1>1, LostIsTold
<1>2. CASE ~Lost(u)'
  <2>0. broadcasts \in Seq(Users) /\ member[u] = "in" /\ leaving # u
    BY DEF Types, NewsTyped, Lost
  <2>1. ASSUME NEW v \in Users, CameraSwitched(v) PROVE GoesOff(u)' \/ Plays(u)'
    <3>1. CASE v = u
      <4>1. due[u] = {} /\ camera[u] # 0
        BY <2>1, <3>1 DEF CameraSwitched, GoesOff, Plays
      <4> QED
        BY <2>1, <3>1, <4>1 DEF CameraSwitched, GoesOff, Types, RosterTyped
    <3>2. CASE v # u
      <4>1. camera'[u] = camera[u] /\ due'[u] = due[u]
        BY <2>1, <3>2 DEF CameraSwitched, Types, RosterTyped
      <4> QED
        BY <4>1 DEF GoesOff, Plays
    <3> QED
      BY <3>1, <3>2
  <2>2. ASSUME NEW v \in Users, StatusOfStream(v) PROVE Told(u)' \/ GoesOff(u)' \/ Plays(u)'
    <3>1. CASE v = u
      <4>1. camera[u] = 0
        BY <2>2, <3>1 DEF StatusOfStream, GoesOff, Plays
      <4> QED
        BY <2>0, <2>2, <3>1, <4>1, SentIsTold DEF StatusOfStream, TellClose
    <3>2. CASE v # u
      <4>1. camera'[u] = camera[u] /\ due'[u] = due[u]
        BY <2>2, <3>2 DEF StatusOfStream, Types, RosterTyped
      <4> QED
        BY <4>1 DEF GoesOff, Plays
    <3> QED
      BY <3>1, <3>2
  <2>3. ASSUME NEW v \in Users, NameOfStream(v) PROVE GoesOff(u)' \/ Plays(u)'
    <3>1. /\ camera'[u] = camera[u] /\ "streamName" \in due[v]
          /\ "hasStream" \in due[u] => "hasStream" \in due'[u]
          /\ v # u => due'[u] = due[u]
      BY <2>3 DEF NameOfStream, Types, RosterTyped
    <3> QED
      BY <3>1 DEF GoesOff, Plays
  <2>4. ASSUME NEW v \in Users, LeaveNotified(v) PROVE GoesOff(u)' \/ Plays(u)'
    <3>1. v # u
      BY <1>2, <2>4 DEF LeaveNotified, Lost
    <3>2. camera'[u] = camera[u] /\ due'[u] = due[u]
      BY <2>4, <3>1 DEF LeaveNotified, Types, RosterTyped
    <3> QED
      BY <3>2 DEF GoesOff, Plays
  <2>5. ASSUME NEW v \in Users, LeaveRecorded(v) PROVE GoesOff(u)' \/ Plays(u)'
    BY <2>5 DEF LeaveRecorded, GoesOff, Plays
  <2>6. ~Outage
    BY DEF Outage
  <2>7. CASE ListReceived
    <3>1. due'[u] = due[u]
      BY <2>7 DEF ListReceived
    <3>2. camera'[u] = camera[u]
      <4>1. PICK stay \in SUBSET {w \in Users : member[w] = "out"}, on \in SUBSET Users :
              LET now(w) == IF w \in stay
                            THEN IF w \in on THEN MaxChanges + 1 ELSE 0 ELSE camera[w]
              IN camera' = [w \in Users |-> now(w)]
        BY <2>7 DEF ListReceived
      <4>2. u \notin stay
        BY <2>0
      <4> QED
        BY <4>1, <4>2
    <3>3. GoesOff(u)' \/ Plays(u)'
      BY <3>1, <3>2 DEF GoesOff, Plays
    <3> QED
      BY <1>2, <3>3
  <2> QED
    BY <1>2, <2>1, <2>2, <2>3, <2>4, <2>5, <2>6, <2>7 DEF Main
<1> QED
  BY <1>1, <1>2

\* The runnables and the I/O threads of the videos see and show none of it.
LEMMA OtherKeepsNews ==
  ASSUME News, UNCHANGED <<roster, broadcasts, screen, surface, history>>, app' # "noStream" \/ app' = app
  PROVE  News'
<1>1. \A u : /\ Lost(u)' <=> Lost(u)
             /\ Told(u)' <=> Told(u)
             /\ Excused(u)' <=> Excused(u)
             /\ GoesOff(u)' <=> GoesOff(u)
             /\ Plays(u)' <=> Plays(u)
  BY DEF roster, history, surface, Lost, Told, Excused, GoesOff, Plays
<1>2. /\ Watched' = Watched /\ UNCHANGED <<menu, window, step, handler, played, outlived, blind>>
  BY DEF screen, surface, history, Watched
<1>3. MenuExcused' /\ WindowExcused'
  BY <1>1, <1>2 DEF News, MenuExcused, WindowExcused
<1>4. LoadedExcused' /\ ShowsStream'
  BY <1>1, <1>2 DEF News, LoadedExcused, ShowsStream
<1>5. Follows'
  BY <1>1, <1>2 DEF News, Follows
<1> QED
  BY <1>3, <1>4, <1>5 DEF News

LEMMA WatchesSomebody ==
  ASSUME IInv, Types, window # NoWindow
  PROVE  Watched \in Users
BY DEF Types, ScreenTyped, Watched

\* While the surface starts there is a window.
LEMMA StartingHasWindow ==
  ASSUME IInv, step \in Starting \/ window.resumed
  PROVE  window # NoWindow /\ window.resumed
BY DEF IInv, Shown, NoWindow

LEMMA MainKeepsNews ==
  ASSUME IInv, Types, News, Main, app = "running"
  PROVE  News'
<1>1. /\ UNCHANGED <<menu, window, step, handler, played, app, blind>>
      /\ Watched' = Watched /\ (outlived => outlived')
  BY MainNews DEF Types, surface, Watched
<1>2. \A v : Excused(v) => Excused(v)'
  BY MainTells
<1>3. \A v : Told(v) => Told(v)'
  BY MainTells
<1>4. ASSUME menu # None \/ window # NoWindow, NEW u \in Users, Lost(u)', Lost(u) => Excused(u)
      PROVE  Excused(u)'
  <2>1. Lost(u) \/ Told(u)' \/ outlived'
    BY <1>4, LostIsTold
  <2> QED
    BY <1>2, <1>4, <2>1 DEF Excused
<1>5. MenuExcused'
  BY <1>1, <1>4 DEF News, MenuExcused
<1>6. WindowExcused'
  BY <1>1, <1>4, WatchesSomebody DEF News, WindowExcused
<1>7. LoadedExcused' /\ ShowsStream'
  BY <1>1, <1>2 DEF News, LoadedExcused, ShowsStream
<1>8. Follows'
  <2> SUFFICES ASSUME window.resumed, step \in {"prepare", "connect", "idle"},
                      ~outlived', ~blind, played[handler] # <<>>
               PROVE  Told(Watched)' \/ (~Lost(Watched)' /\ (GoesOff(Watched)' \/ Plays(Watched)'))
    BY <1>1 DEF Follows
  <2>1. window # NoWindow
    BY StartingHasWindow
  <2>2. Watched \in Users
    BY <2>1, WatchesSomebody
  <2>3. Told(Watched) \/ (~Lost(Watched) /\ (GoesOff(Watched) \/ Plays(Watched)))
    BY <1>1 DEF News, Follows
  <2> HIDE DEF Watched
  <2>4. CASE Told(Watched)
    BY <1>1, <1>3, <2>4
  <2>5. CASE ~Lost(Watched) /\ (GoesOff(Watched) \/ Plays(Watched))
    BY <1>1, <2>1, <2>2, <2>5, FollowsOn
  <2> QED
    BY <2>3, <2>4, <2>5
<1> QED
  BY <1>5, <1>6, <1>7, <1>8 DEF News

\* What is said of a user, when nobody speaks of the users.
LEMMA NothingNew ==
  ASSUME UNCHANGED <<roster, broadcasts, history>>
  PROVE  /\ \A u : Lost(u)' <=> Lost(u)
         /\ \A u : Excused(u)' <=> Excused(u)
         /\ \A u : Told(u)' <=> Told(u)
         /\ \A u : GoesOff(u)' <=> GoesOff(u)
         /\ handler' = handler /\ played' = played => \A u : Plays(u)' <=> Plays(u)
BY DEF roster, history, Lost, Excused, Told, GoesOff, Plays

\* Steps that neither look a stream up nor bring a window to rest.
LEMMA SameUserKeepsNews ==
  ASSUME News, UNCHANGED <<roster, broadcasts, history, handler, played>>, app' = "running",
         menu' = menu \/ menu' = None,
         window' = NoWindow \/ (window # NoWindow /\ window'.user = window.user),
         step' \notin {"prepare", "connect"}, ~(step' = "idle" /\ window'.resumed)
  PROVE  News'
<1>1. MenuExcused'
  BY NothingNew DEF News, MenuExcused
<1>2. WindowExcused'
  BY NothingNew DEF News, WindowExcused, Watched
<1>3. LoadedExcused' /\ ShowsStream' /\ Follows'
  BY DEF LoadedExcused, ShowsStream, Follows
<1> QED
  BY <1>1, <1>2, <1>3 DEF News

LEMMA BroadcastKeepsNews ==
  ASSUME IInv, Types, News, CloseBroadcast
  PROVE  News'
<1> DEFINE h == Head(broadcasts)
<1>1. /\ step = "idle" /\ app' = "running" /\ broadcasts # <<>> /\ broadcasts' = Tail(broadcasts)
      /\ UNCHANGED <<roster, menu, handler, played, outlived, blind>>
      /\ unaware' = IF menu # None \/ window.kind = "starting" THEN unaware \cup {h}
                    ELSE unaware
  BY DEF CloseBroadcast, UiFree
<1>2. \A u : Told(u) => u = h \/ Told(u)'
  BY <1>1, ReceivedIsTold DEF Types, NewsTyped
<1>3. \A u : Lost(u)' <=> Lost(u)
  BY <1>1 DEF roster, Lost
<1>4. CASE window.kind \in {"dialog", "full"} /\ window.user = h
  <2>1. window' = NoWindow /\ step' \in {"idle", "disconnect"}
    BY <1>4 DEF CloseBroadcast, StopThen, Closed
  <2>2. menu' = None
    BY <1>1, <1>4 DEF IInv, MenuAlone, NoWindow
  <2>3. ~window'.resumed
    BY <2>1 DEF NoWindow
  <2> QED
    BY <1>1, <2>1, <2>2, <2>3
       DEF News, MenuExcused, WindowExcused, LoadedExcused, ShowsStream, Follows
<1>5. CASE ~(window.kind \in {"dialog", "full"} /\ window.user = h)
  <2>1. window' = window /\ step' = "idle" /\ Watched' = Watched
    BY <1>1, <1>5 DEF CloseBroadcast, Watched
  <2>2. ASSUME NEW u, Excused(u), menu # None \/ window.kind = "starting" \/ u # h
        PROVE  Excused(u)'
    BY <1>1, <1>2, <2>2 DEF Excused
  <2>3. MenuExcused'
    BY <1>1, <1>3, <2>2 DEF News, MenuExcused
  <2>4. ASSUME window # NoWindow, Watched = h PROVE window.kind = "starting"
    BY <1>5, <2>4 DEF Types, ScreenTyped, Watched
  <2>5. WindowExcused'
    BY <1>3, <2>1, <2>2, <2>4 DEF News, WindowExcused
  <2>6. LoadedExcused' /\ ShowsStream'
    BY <1>1, <2>1 DEF News, LoadedExcused, ShowsStream
  <2>7. ASSUME window.resumed PROVE Watched # h
    <3>1. window # NoWindow /\ window.kind # "starting"
      BY <2>7, StartingHasWindow DEF IInv, Typed, IsWindow
    <3> QED
      BY <2>4, <3>1
  <2>8. \A u : /\ GoesOff(u)' <=> GoesOff(u)
               /\ Plays(u)' <=> Plays(u)
    BY <1>1 DEF roster, GoesOff, Plays
  <2>9. Follows'
    BY <1>1, <1>2, <1>3, <2>1, <2>7, <2>8 DEF News, Follows
  <2> QED
    BY <2>3, <2>5, <2>6, <2>9 DEF News
<1> QED
  BY <1>4, <1>5

LEMMA LookupKeepsNews ==
  ASSUME IInv, Types, Sync, News, Lookup
  PROVE  News'
<1>1. /\ app' = "running" /\ step' = "prepare" /\ handler' = Next1 /\ Next1 \in Connections
      /\ UNCHANGED <<roster, news, menu, window, unaware, outlived>> /\ Watched' = Watched
      /\ blind' = (due[Watched] # {} \/ leaving = Watched)
      /\ step = "lookup"
  BY DEF Lookup, screen, Watched
<1>2. window # NoWindow /\ Watched \in Users
  BY <1>1, StartingHasWindow, WatchesSomebody DEF Starting
<1>3. played'[handler'] = IF member[Watched] = "in" /\ hasStream[Watched]
                          THEN <<streamName[Watched]>> ELSE <<>>
  BY <1>1 DEF Lookup, Types, RestTyped
<1>4. /\ \A u : Lost(u)' <=> Lost(u)
      /\ \A u : Excused(u)' <=> Excused(u)
      /\ UNCHANGED <<camera, due>>
  BY <1>1 DEF roster, news, Lost, Excused, Told
<1>5. MenuExcused' /\ WindowExcused'
  BY <1>1, <1>4 DEF News, MenuExcused, WindowExcused
<1>6. LoadedExcused'
  <2>1. ASSUME played'[handler'] = <<>> PROVE Lost(Watched)
    BY <1>3, <2>1 DEF Lost
  <2>2. Lost(Watched) => Excused(Watched)
    BY <1>2 DEF News, WindowExcused
  <2> QED
    BY <1>1, <1>4, <2>1, <2>2 DEF LoadedExcused
<1>7. ShowsStream'
  BY <1>1 DEF ShowsStream
<1>8. Follows'
  <2> SUFFICES ASSUME ~blind', played'[handler'] # <<>>
               PROVE  ~Lost(Watched) /\ Plays(Watched)'
    BY <1>1, <1>4 DEF Follows
  <2>1. due[Watched] = {} /\ leaving # Watched
    BY <1>1
  <2>2. member[Watched] = "in" /\ hasStream[Watched]
    BY <1>3
  <2>3. camera[Watched] # 0 /\ streamName[Watched] = camera[Watched]
    BY <1>2, <2>1, <2>2 DEF Sync
  <2>4. played'[handler'] = <<camera[Watched]>>
    BY <1>3, <2>2, <2>3
  <2>5. Plays(Watched)'
    BY <1>1, <1>4, <2>1, <2>3, <2>4 DEF Plays
  <2> QED
    BY <2>1, <2>2, <2>5 DEF Lost
<1> QED
  BY <1>5, <1>6, <1>7, <1>8 DEF News

LEMMA UiKeepsNews ==
  ASSUME IInv, Types, Sync, News, Ui, app = "running"
  PROVE  News'
<1> USE DEF UserOnly
<1>1. CASE RunPosted
  BY <1>1, OtherKeepsNews DEF RunPosted
<1>2. CASE CloseBroadcast
  BY <1>2, BroadcastKeepsNews
<1>3. ASSUME NEW u \in Users, OpenMenu(u) PROVE News'
  <2>1. /\ window' = NoWindow /\ step' = "idle" /\ app' = "running" /\ UNCHANGED <<roster, news>>
        /\ unaware' = {v \in Users : Lost(v)}
    BY <1>3 DEF OpenMenu, UiFree, Lost
  <2>2. MenuExcused'
    BY <2>1 DEF MenuExcused, roster, Lost, Excused
  <2>3. ~window'.resumed
    BY <2>1 DEF NoWindow
  <2> QED
    BY <2>1, <2>2, <2>3 DEF News, WindowExcused, LoadedExcused, ShowsStream, Follows
<1>4. CASE Dismiss
  <2>1. window = NoWindow /\ ~window.resumed
    BY <1>4 DEF Dismiss, IInv, MenuAlone, NoWindow
  <2> QED
    BY <1>4, <2>1, SameUserKeepsNews DEF Dismiss, UiFree, news
<1>5. CASE Choose
  <2>1. CASE app' = "noContact" /\ UNCHANGED <<window, step, menu>>
    BY <1>5, <2>1, OtherKeepsNews DEF Choose, news, screen, surface
  <2>2. ASSUME NEW u \in listed, NEW kind \in {"dialog", "starting"}, menu' = None,
               window' = [kind |-> kind, user |-> u, resumed |-> kind = "dialog"],
               step' = IF window'.kind = "dialog" THEN "lookup" ELSE "idle", app' = app
        PROVE  News'
    <3>1. /\ Watched' = u /\ step' \in {"lookup", "idle"}
          /\ ~(step' = "idle" /\ window'.resumed) /\ u \in Users /\ menu # None
      BY <1>5, <2>2 DEF Choose, Watched, Types, NewsTyped
    <3>2. UNCHANGED <<roster, broadcasts, history>>
      BY <1>5 DEF Choose, news
    <3>3. Lost(u)' => Excused(u)'
      BY <3>1, <3>2, NothingNew DEF News, MenuExcused
    <3>4. WindowExcused'
      BY <3>1, <3>3 DEF WindowExcused
    <3>5. MenuExcused'
      BY <2>2 DEF MenuExcused
    <3>6. LoadedExcused' /\ ShowsStream' /\ Follows'
      BY <2>2, <3>1 DEF LoadedExcused, ShowsStream, Follows
    <3> QED
      BY <3>4, <3>5, <3>6 DEF News
  <2> QED
    BY <1>5, <2>1, <2>2 DEF Choose
<1>6. CASE FullScreenStarts \/ Resume
  <2>1. window # NoWindow /\ window'.user = window.user
    <3>1. window.kind # "none"
      BY <1>6 DEF FullScreenStarts, Resume
    <3>2. \/ window' = [window EXCEPT !.kind = "full", !.resumed = TRUE]
          \/ window' = [window EXCEPT !.resumed = TRUE]
      BY <1>6 DEF FullScreenStarts, Resume
    <3>3. window \in [kind : {"none", "starting", "dialog", "full"},
                     user : Users \cup {None}, resumed : BOOLEAN]
      BY DEF Types, ScreenTyped
    <3>4. window'.user = window.user
      BY <3>2, <3>3
    <3> QED
      BY <3>1, <3>4, NoWindowTyped
  <2> QED
    BY <1>6, <2>1, SameUserKeepsNews DEF FullScreenStarts, Resume, UiFree, news
<1>7. CASE Pause \/ Rotate
  <2>1. window # NoWindow /\ window'.user = window.user /\ ~window'.resumed
    <3>1. window # NoWindow
      BY <1>7, StartingHasWindow DEF Pause, Rotate
    <3>2. \/ window' = [window EXCEPT !.resumed = FALSE]
          \/ window' = [window EXCEPT !.kind = "starting", !.resumed = FALSE]
      BY <1>7 DEF Pause, Rotate, StopThen
    <3>3. window \in [kind : {"none", "starting", "dialog", "full"},
                     user : Users \cup {None}, resumed : BOOLEAN]
      BY DEF Types, ScreenTyped
    <3>4. window'.user = window.user /\ ~window'.resumed
      BY <3>2, <3>3
    <3> QED
      BY <3>1, <3>4
  <2> QED
    BY <1>7, <2>1, SameUserKeepsNews DEF Pause, Rotate, StopThen, UiFree, news
<1>8. CASE CloseWindow
  <2>1. window' = NoWindow /\ ~window'.resumed
    BY <1>8 DEF CloseWindow, StopThen, Closed, NoWindow
  <2> QED
    BY <1>8, <2>1, SameUserKeepsNews DEF CloseWindow, StopThen, UiFree, news
<1>9. CASE Lookup
  BY <1>9, LookupKeepsNews
<1>10. CASE Prepare
  <2>1. /\ step = "prepare" /\ step' = "connect" /\ app' = app
        /\ UNCHANGED <<roster, news, menu, window, handler, played, history, blind, outlived>>
        /\ Watched' = Watched
    BY <1>10 DEF Prepare, screen, history, Watched
  <2>2. UNCHANGED broadcasts
    BY <2>1 DEF news
  <2>3. MenuExcused' /\ WindowExcused'
    BY <2>1, <2>2, NothingNew DEF News, MenuExcused, WindowExcused
  <2>4. LoadedExcused' /\ ShowsStream'
    BY <2>1, <2>2, NothingNew DEF News, LoadedExcused, ShowsStream
  <2>5. Follows'
    BY <2>1, <2>2, NothingNew DEF News, Follows
  <2> QED
    BY <2>3, <2>4, <2>5 DEF News
<1>11. CASE Connect
  <2>1. /\ step = "connect" /\ UNCHANGED <<roster, news, menu, window, handler, played, history>>
        /\ Watched' = Watched
    BY <1>11 DEF Connect, Crash, screen, surface, Watched
  <2>2. UNCHANGED <<broadcasts, outlived, blind>>
    BY <2>1 DEF news, history
  <2>3. MenuExcused' /\ WindowExcused'
    BY <2>1, <2>2, NothingNew DEF News, MenuExcused, WindowExcused
  <2>4. CASE played[handler] = <<>>
    <3>1. step' = step
      BY <1>11, <2>4 DEF Connect, Crash, surface
    <3>2. Excused(Watched)
      BY <2>1, <2>4 DEF News, LoadedExcused
    <3>3. LoadedExcused' /\ ShowsStream' /\ Follows'
      BY <2>1, <2>2, <2>4, <3>1, <3>2, NothingNew DEF LoadedExcused, ShowsStream, Follows
    <3> QED
      BY <2>3, <3>3 DEF News
  <2>5. CASE played[handler] # <<>>
    <3>1. step' = "idle" /\ app' = "running"
      BY <1>11, <2>5 DEF Connect
    <3>2. LoadedExcused' /\ ShowsStream'
      BY <2>1, <2>5, <3>1 DEF LoadedExcused, ShowsStream
    <3>3. Follows'
      BY <2>1, <2>2, <3>1, NothingNew DEF News, Follows
    <3> QED
      BY <2>3, <3>2, <3>3 DEF News
  <2> QED
    BY <2>4, <2>5
<1>12. CASE Disconnect \/ Release \/ Remove \/ EndDrawer
  <2>1. /\ step' \in {"release", "remove", "end", "idle"} /\ app' = "running" /\ ~window.resumed
        /\ UNCHANGED <<roster, broadcasts, history, handler, played, menu, window>>
    BY <1>12 DEF Disconnect, Release, Remove, EndDrawer, news, screen, IInv, Shown, Stopping
  <2> QED
    BY <2>1, SameUserKeepsNews
<1> QED
  BY <1>1, <1>2, <1>3, <1>4, <1>5, <1>6, <1>7, <1>8, <1>9, <1>10, <1>11, <1>12 DEF Ui

-----------------------------------------------------------------------------
FInv == Types /\ Sync /\ News

LEMMA InitFInv == Init => FInv
<1> SUFFICES ASSUME Init PROVE FInv
  OBVIOUS
<1>0. MaxChanges \in Nat /\ Cardinality(Users) \in Nat
  BY VideoAssumption, FS_CardinalityType
<1>1. {0, 1} \subseteq Streams
  BY <1>0 DEF Streams
<1>2. RosterTyped
  <2>1. camera \in [Users -> Streams] /\ streamName \in [Users -> Streams]
    BY <1>1 DEF Init
  <2>2. hasStream \in [Users -> BOOLEAN]
    BY DEF Init
  <2> QED
    BY <1>0, <2>1, <2>2 DEF Init, RosterTyped
<1>3. NewsTyped
  BY DEF Init, NewsTyped
<1>4. ScreenTyped
  BY <1>0, NoWindowTyped DEF Init, ScreenTyped, None
<1>5. RestTyped
  <2>1. <<>> \in Seq(Streams)
    OBVIOUS
  <2>2. played \in [Connections -> Seq(Streams)]
    BY <2>1 DEF Init
  <2> QED
    BY <2>2 DEF Init, RestTyped
<1>6. Sync
  <2>1. camera \in [Users -> {0, 1}] /\ streamName = camera
        /\ \A u \in Users : hasStream[u] <=> camera[u] # 0
    BY DEF Init
  <2> QED
    BY <2>1 DEF Sync
<1>7. News
  BY DEF Init, News, MenuExcused, WindowExcused, LoadedExcused, ShowsStream, Follows, NoWindow
<1> QED
  BY <1>2, <1>3, <1>4, <1>5, <1>6, <1>7 DEF FInv, Types

LEMMA StepFInv == IInv /\ FInv /\ [Next]_vars => FInv'
<1> SUFFICES ASSUME IInv, FInv, [Next]_vars PROVE FInv'
  OBVIOUS
<1>1. Types' /\ Sync'
  BY RosterKept, NewsKept, ScreenKept, RestKept DEF FInv, Types, IInv
<1>2. News'
  <2>1. CASE UNCHANGED vars
    BY <2>1, OtherKeepsNews DEF vars, news, FInv
  <2>2. CASE Main /\ app = "running"
    BY <2>2, MainKeepsNews DEF FInv
  <2>3. CASE Ui /\ app = "running"
    BY <2>3, UiKeepsNews DEF FInv
  <2>4. CASE Io
    BY <2>4, OthersKeepRoster, OtherKeepsNews DEF FInv, news
  <2> QED
    BY <2>1, <2>2, <2>3, <2>4 DEF Next
<1> QED
  BY <1>1, <1>2 DEF FInv

(* The inductive invariant of the cameras: what the client knows of a       *)
(* camera, and which broadcast is still on its way when a window is wrong.  *)
THEOREM CamerasInvariance == Spec => []FInv
BY WindowsInvariance, InitFInv, StepFInv, PTL DEF Spec

(* Every variable keeps its type.                                           *)
THEOREM TypeCorrect == Spec => []TypeOK
<1>1. IInv /\ FInv => TypeOK
  BY DEF IInv, FInv, Typed, Steps, Types, RosterTyped, NewsTyped, ScreenTyped, RestTyped, TypeOK
<1> QED
  BY <1>1, WindowsInvariance, CamerasInvariance, PTL

(* A window follows the camera it was opened for while the broadcasts can   *)
(* reach it: otherwise the application ends, or plays a stream that is gone,*)
(* only for a user it cannot have been told of.                             *)
THEOREM WindowsFollow == Spec => []WindowsFollowCameras
<1>1. FInv => CrashesOnlyUnawares
  BY DEF FInv, News, LoadedExcused, Excused, Told, CrashesOnlyUnawares
<1>2. IInv /\ FInv => NoDeadWindow
  <2> SUFFICES ASSUME IInv, FInv, UiFree, window.resumed, ~outlived, ~blind,
                      broadcasts = <<>>, due[Watched] = {}
               PROVE  camera[Watched] # 0 /\ played[handler] = <<camera[Watched]>>
    BY DEF NoDeadWindow
  <2>1. ~Told(Watched)
    BY DEF Told
  <2>2. step = "idle" /\ played[handler] # <<>>
    BY DEF FInv, News, ShowsStream, UiFree
  <2>3. GoesOff(Watched) \/ Plays(Watched)
    BY <2>1, <2>2 DEF FInv, News, Follows
  <2> QED
    BY <2>3 DEF GoesOff, Plays
<1> QED
  BY <1>1, <1>2, WindowsInvariance, CamerasInvariance, PTL DEF WindowsFollowCameras
=============================================================================
