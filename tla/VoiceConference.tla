--------------------------- MODULE VoiceConference ---------------------------
(***************************************************************************)
(* The list of the voice conference: ListenersModule, which follows the    *)
(* shared object meetMeUsersSO on the I/O thread, and the ListenerAdapter  *)
(* of the activity, which the runnables posted by Client fill on the UI    *)
(* thread.                                                                 *)
(*                                                                         *)
(* A connection subscribes, is told to clear, and only then asks for the   *)
(* list.  Whatever the server broadcasts between the subscription and the  *)
(* answer reaches a module that has no list yet.  The two threads share    *)
(* the Listener objects: a runnable keeps a reference, and reads the       *)
(* object when it runs.                                                    *)
(*                                                                         *)
(* The server is external: ordered channels, ids of voices never used      *)
(* twice.                                                                  *)
(***************************************************************************)
EXTENDS Integers, Sequences, FiniteSets, SequencesExt

CONSTANTS
  Voices,       \* ids the voice bridge gives its callers
  Attributes,   \* of "talking", "muted", "locked", those that may change
  MaxSessions,  \* bound on the number of connections
  MaxEvents     \* bound on changes and commands

\* The item of the menu that mutes a listener reads whether it is muted.
ASSUME AttributesAssumption ==
  Attributes \subseteq {"talking", "muted", "locked"} /\ "muted" \in Attributes
ASSUME VoicesAssumption == IsFiniteSet(Voices) /\ MaxSessions \in Nat /\ MaxEvents \in Nat

VARIABLES
  voices,       \* server: the callers in the conference
  called,       \* server: the callers that have been in it
  status,       \* server: the attributes of every caller
  allMuted,     \* server: the room is muted
  subscribed,   \* server: this connection has connected to meetMeUsersSO
  toServer,     \* the connection, one ordered channel each way
  toClient,
  conn,         \* "closed", "joining" (no module of its own yet) or "listening"
  sessions,     \* connections made so far
  received,     \* this connection's module was given the list it asked for
  doubled,      \* listeners it knew before, and was given again in the list
  objects,      \* the Listener objects, by reference
  listeners,    \* ListenersModule.listeners: references by user id
  roomMuted,    \* ListenersModule.roomMuted
  ui,           \* runnables posted to the UI thread
  list,         \* ListenerAdapter.listListener: copies of listeners
  menu,         \* the open context menu: its position, whom it was opened for
  app,          \* "running" or "crashed"
  faults,       \* uncaught exceptions: where, and in what circumstances
  events        \* number of events so far

server == <<voices, called, status, allMuted, subscribed>>
wire == <<toServer, toClient>>
module == <<received, doubled, objects, listeners, roomMuted>>
screen == <<ui, list, menu>>
activity == <<app, faults>>
vars == <<server, wire, conn, sessions, module, screen, activity, events>>

NoMenu == [pos |-> 0, who |-> "nobody", shifted |-> FALSE]
NoList == [u \in {} |-> 0]
Quiet == [a \in Attributes |-> FALSE]
NullListener == 0     \* the reference null

\* What connect() and onSharedObjectClear() write, and what a new module
\* knows.
QueryFirst == <<"getMeetMeUsers", "connectSO">>
QueryUsersOnly == <<"getMeetMeUsers">>
OldListeners == listeners
SubscribeRequests == <<"connectSO">>
ClearRequests == <<"getMeetMeUsers", "isRoomMuted">>
NewListeners == NoList

\* The changes the activity is told of.
OnlyTalking(a) == a = "talking"
Shown(a) == a # "locked"

\* ListenerAdapter: a new entry goes to the end, the first one with the id
\* is found (0 when there is none).
InFront(s, entry) == <<entry>> \o s
AddSection(s, entry) == Append(s, entry)
Positions(u) == {i \in DOMAIN list : list[i].who = u}
GetUserById(u) == IF Positions(u) = {} THEN 0
                  ELSE CHOOSE i \in Positions(u) : \A j \in Positions(u) : i <= j

WithoutListener(u) == [v \in DOMAIN listeners \ {u} |-> listeners[v]]
TaskOfNext(op, ref, attr) == [op |-> op, ref |-> ref + 1, attr |-> attr, listed |-> received]
Task(op, ref, attr) == [op |-> op, ref |-> ref, attr |-> attr, listed |-> received]

Event == events < MaxEvents /\ events' = events + 1
-----------------------------------------------------------------------------
Init ==
  /\ voices \in SUBSET Voices
  /\ called = voices
  /\ status = [u \in Voices |-> Quiet]
  /\ allMuted = FALSE
  /\ subscribed = FALSE
  /\ toServer = <<>> /\ toClient = <<>>
  /\ conn = "closed" /\ sessions = 0
  /\ received = FALSE /\ doubled = {}
  /\ objects = <<>> /\ listeners = NoList /\ roomMuted = FALSE
  /\ ui = <<>> /\ list = <<>> /\ menu = NoMenu
  /\ app = "running" /\ faults = {} /\ events = 0

Running == app = "running"

\* The channel is closed: the server forgets the subscription.
Hangup ==
  /\ conn' = "closed"
  /\ toServer' = <<>> /\ toClient' = <<>>
  /\ subscribed' = FALSE
  /\ UNCHANGED <<voices, called, status, allMuted, sessions>>

\* An exception nobody catches on the UI thread.
Crash(fault) ==
  /\ faults' = faults \cup {fault}
  /\ app' = "crashed"
  /\ Hangup
  /\ UNCHANGED <<module, list, menu>>

-----------------------------------------------------------------------------
(* The server, external.  It changes while this connection has a module: a *)
(* change between two connections is like one whose broadcast was lost     *)
(* with the first.                                                         *)
Observed == Running /\ conn = "listening"
Broadcast(m) == toClient' = IF subscribed THEN Append(toClient, m) ELSE toClient
ClientUnchanged == UNCHANGED <<conn, sessions, module, screen, activity>>

VoiceJoins(u) ==
  /\ Observed
  /\ u \notin called
  /\ called' = called \cup {u} /\ voices' = voices \cup {u}
  /\ Broadcast([type |-> "userJoin", who |-> u, status |-> status[u]])
  /\ UNCHANGED <<status, allMuted, subscribed, toServer, events>> /\ ClientUnchanged

Leave(u) ==
  /\ voices' = voices \ {u}
  /\ Broadcast([type |-> "userLeft", who |-> u])
  /\ UNCHANGED <<called, status, allMuted, subscribed>>

VoiceLeaves(u) ==
  /\ Observed
  /\ u \in voices
  /\ Leave(u)
  /\ UNCHANGED <<toServer, events>> /\ ClientUnchanged

SetAttribute(u, a, v) ==
  /\ status' = [status EXCEPT ![u][a] = v]
  /\ Broadcast([type |-> "attribute", who |-> u, attr |-> a, value |-> v])
  /\ UNCHANGED <<voices, called, allMuted, subscribed>>

VoiceChanges(u, a) ==
  /\ Observed /\ Event
  /\ u \in voices
  /\ SetAttribute(u, a, ~status[u][a])
  /\ UNCHANGED toServer /\ ClientUnchanged

SetRoomMuted(v) ==
  /\ allMuted' = v
  /\ Broadcast([type |-> "muteStateCallback", value |-> v])
  /\ UNCHANGED <<voices, called, status, subscribed>>

ModeratorMutesRoom ==
  /\ Observed /\ Event
  /\ SetRoomMuted(~allMuted)
  /\ UNCHANGED toServer /\ ClientUnchanged

\* The requests of this client, answered in the order they were written.
Answer(m) ==
  \/ /\ m = "connectSO"
     /\ subscribed' = TRUE
     /\ toClient' = Append(toClient, [type |-> "clear"])
     /\ UNCHANGED <<voices, called, status, allMuted>>
  \/ /\ m = "getMeetMeUsers"
     /\ toClient' = Append(toClient, [type |-> "users", map |-> [u \in voices |-> status[u]]])
     /\ UNCHANGED server
  \/ /\ m = "isRoomMuted"
     /\ toClient' = Append(toClient, [type |-> "roomMuted", value |-> allMuted])
     /\ UNCHANGED server

Obey(m) ==
  \/ /\ m.type = "muteUnmuteUser"
     /\ IF m.who \in voices THEN SetAttribute(m.who, "muted", m.value)
                            ELSE UNCHANGED <<server, toClient>>
  \/ m.type = "muteAllUsers" /\ SetRoomMuted(m.value)
  \/ /\ m.type = "kickUSer"
     /\ IF m.who \in voices THEN Leave(m.who) ELSE UNCHANGED <<server, toClient>>

ServerAnswers ==
  /\ Running
  /\ toServer # <<>>
  /\ toServer' = Tail(toServer)
  /\ LET m == Head(toServer) IN IF m.type = "query" THEN Answer(m.name) ELSE Obey(m)
  /\ UNCHANGED events /\ ClientUnchanged

-----------------------------------------------------------------------------
Queries(names) == [i \in DOMAIN names |-> [type |-> "query", name |-> names[i]]]
Write(requests) == toServer' = toServer \o requests

\* channelConnected() and onConnected(): the lists of the screen are to be
\* cleared; the module of the previous connection stays in place.
Connect ==
  /\ Running
  /\ conn = "closed" /\ sessions < MaxSessions
  /\ conn' = "joining" /\ sessions' = sessions + 1
  /\ ui' = Append(ui, Task("clear", NullListener, "none"))
  /\ UNCHANGED <<server, wire, module, list, menu, activity, events>>

ConnectionLost ==
  /\ Running
  /\ conn # "closed"
  /\ Hangup
  /\ UNCHANGED <<module, screen, activity, events>>

\* UsersModule.onCommand() has the list of participants: a new module.
CreateListenersModule ==
  /\ Running
  /\ conn = "joining"
  /\ conn' = "listening"
  /\ received' = FALSE /\ doubled' = {} /\ listeners' = NewListeners /\ roomMuted' = FALSE
  /\ Write(Queries(SubscribeRequests))
  /\ UNCHANGED <<server, toClient, sessions, objects, screen, activity, events>>

(* The I/O thread: one message of the connection after the other.          *)
Receive(type) ==
  /\ Running
  /\ toClient # <<>> /\ Head(toClient).type = type
  /\ toClient' = Tail(toClient)
  /\ UNCHANGED <<server, conn, sessions, list, menu, activity, events>>

KeptList == UNCHANGED <<received, doubled>>

OnSharedObjectClear ==
  /\ Receive("clear")
  /\ Write(Queries(ClearRequests))
  /\ UNCHANGED <<objects, listeners, roomMuted, ui>> /\ KeptList

\* The map is cleared, the list of the screen is not; the answer is read in
\* any order, and every listener in it is announced as one that joined.
OnGetCurrentUsers ==
  /\ Receive("users")
  /\ LET map == Head(toClient).map
         found == DOMAIN map
     IN \E order \in SetToSeqs(found) :
          /\ objects' = objects \o [i \in DOMAIN order |->
                                      [who |-> order[i], status |-> map[order[i]]]]
          /\ listeners' = [u \in found |->
               Len(objects) + CHOOSE i \in DOMAIN order : order[i] = u]
          /\ ui' = ui \o [i \in DOMAIN order |-> Task("add", Len(objects) + i, "none")]
          /\ doubled' = DOMAIN listeners \cap found
  /\ received' = TRUE
  /\ UNCHANGED <<toServer, roomMuted>>

OnRoomMuted(type) ==
  /\ Receive(type)
  /\ roomMuted' = Head(toClient).value
  /\ UNCHANGED <<toServer, objects, listeners, ui>> /\ KeptList

OnUserJoin ==
  /\ Receive("userJoin")
  /\ LET m == Head(toClient)
         ref == Len(objects) + 1
     IN /\ objects' = Append(objects, [who |-> m.who, status |-> m.status])
        /\ listeners' = [v \in DOMAIN listeners \cup {m.who} |->
                           IF v = m.who THEN ref ELSE listeners[v]]
        /\ ui' = Append(ui, Task("add", ref, "none"))
  /\ UNCHANGED <<toServer, roomMuted>> /\ KeptList

\* userTalk, userMute and userLockedMute: a listener that is not in the map
\* is logged, and the lock is not shown on the screen.
OnAttribute ==
  /\ Receive("attribute")
  /\ LET m == Head(toClient) IN
       IF m.who \in DOMAIN listeners
       THEN /\ objects' = [objects EXCEPT ![listeners[m.who]].status[m.attr] = m.value]
            /\ ui' = IF Shown(m.attr) THEN Append(ui, Task("status", listeners[m.who], m.attr)) ELSE ui
       ELSE UNCHANGED <<objects, ui>>
  /\ UNCHANGED <<toServer, listeners, roomMuted>> /\ KeptList

\* userLeft: the activity is told before the result of the lookup is tested.
OnUserLeft ==
  /\ Receive("userLeft")
  /\ LET u == Head(toClient).who IN
       IF u \in DOMAIN listeners
       THEN /\ ui' = Append(ui, Task("remove", listeners[u], "none"))
            /\ listeners' = WithoutListener(u)
       ELSE /\ ui' = Append(ui, Task("remove", NullListener, "none"))
            /\ UNCHANGED listeners
  /\ UNCHANGED <<toServer, objects, roomMuted>> /\ KeptList

HandleMessage ==
  \/ OnSharedObjectClear \/ OnGetCurrentUsers \/ OnUserJoin \/ OnUserLeft
  \/ OnAttribute \/ OnRoomMuted("roomMuted") \/ OnRoomMuted("muteStateCallback")

-----------------------------------------------------------------------------
(* The UI thread: the oldest runnable that was posted.                     *)
Fault(site, known) == [site |-> site, known |-> known]
Shift == menu' = IF menu = NoMenu THEN menu ELSE [menu EXCEPT !.shifted = TRUE]

RunClear == list' = <<>> /\ Shift

RunAdd(p) == list' = AddSection(list, objects[p]) /\ UNCHANGED menu

RunRemove(p) ==
  LET i == GetUserById(objects[p].who) IN
    IF i = 0 THEN UNCHANGED <<list, menu>> ELSE list' = RemoveAt(list, i) /\ Shift

RunStatus(p, a) ==
  /\ list' = [list EXCEPT ![GetUserById(objects[p].who)].status[a] = objects[p].status[a]]
  /\ UNCHANGED menu

\* What getUserById() answers to a change of status is used without a test,
\* and so is the listener that left.
RunPosted ==
  /\ Running /\ ui # <<>>
  /\ ui' = Tail(ui)
  /\ UNCHANGED events
  /\ LET task == Head(ui) IN
       CASE task.op = "remove" /\ task.ref = NullListener ->
              Crash(Fault("listenerLeft", ~task.listed))
         [] task.op = "status" /\ GetUserById(objects[task.ref].who) = 0 ->
              Crash(Fault("listenerStatus", FALSE))
         [] OTHER ->
              /\ UNCHANGED <<server, wire, conn, sessions, module, activity>>
              /\ \/ task.op = "clear" /\ RunClear
                 \/ task.op = "add" /\ RunAdd(task.ref)
                 \/ task.op = "remove" /\ RunRemove(task.ref)
                 \/ task.op = "status" /\ RunStatus(task.ref, task.attr)

(* The commands of a moderator.  The context menu of a listener remembers  *)
(* the position it was opened at, and the item is looked up when a command *)
(* is chosen.                                                              *)
OpenMenu(i) ==
  /\ Running /\ conn # "closed"
  /\ menu = NoMenu /\ Event
  /\ menu' = [pos |-> i, who |-> list[i].who, shifted |-> FALSE]
  /\ UNCHANGED <<server, wire, conn, sessions, module, ui, list, activity>>

\* A request of the module in place: it is lost when its channel is closed.
Send(requests) ==
  IF conn = "listening" THEN Write(requests) ELSE UNCHANGED toServer

MenuRequest(listener) ==
  {[type |-> "muteUnmuteUser", who |-> listener.who, value |-> ~listener.status["muted"]],
   [type |-> "kickUSer", who |-> listener.who]}

ChooseFromMenu ==
  /\ Running /\ menu # NoMenu
  /\ UNCHANGED <<ui, events>>
  /\ IF menu.pos \notin DOMAIN list
     THEN Crash(Fault("listenerMenu", menu.shifted))
     ELSE /\ menu' = NoMenu
          /\ \E request \in MenuRequest(list[menu.pos]) : Send(<<request>>)
          /\ UNCHANGED <<server, toClient, conn, sessions, module, list, activity>>

\* doMuteAllUsers(): the menu may have been prepared before the last change.
MuteRoom(mute) ==
  /\ Running /\ conn = "listening"
  /\ Event
  /\ Send(<<[type |-> "muteAllUsers", value |-> mute],
            [type |-> "query", name |-> "isRoomMuted"]>>)
  /\ UNCHANGED <<server, toClient, conn, sessions, module, screen, activity>>

Server ==
  \/ ServerAnswers \/ ModeratorMutesRoom
  \/ \E u \in Voices : \/ VoiceJoins(u) \/ VoiceLeaves(u)
                       \/ \E a \in Attributes : VoiceChanges(u, a)

User ==
  \/ ChooseFromMenu
  \/ \E i \in DOMAIN list : OpenMenu(i)
  \/ \E mute \in BOOLEAN : MuteRoom(mute)

Next ==
  \/ Server \/ User
  \/ Connect \/ ConnectionLost \/ CreateListenersModule
  \/ HandleMessage \/ RunPosted

Spec == Init /\ [][Next]_vars

-----------------------------------------------------------------------------
Entry == [who : Voices, status : [Attributes -> BOOLEAN]]
Sites == {"listenerLeft", "listenerStatus", "listenerMenu"}

(* Types; in particular every reference the map or a runnable holds is one *)
(* of an object that exists.                                               *)
TypeOK ==
  /\ voices \subseteq called /\ called \subseteq Voices
  /\ status \in [Voices -> [Attributes -> BOOLEAN]]
  /\ {allMuted, subscribed, received, roomMuted} \subseteq BOOLEAN
  /\ conn \in {"closed", "joining", "listening"} /\ sessions \in 0..MaxSessions
  /\ doubled \subseteq Voices
  /\ objects \in Seq(Entry) /\ list \in Seq(Entry)
  /\ DOMAIN listeners \subseteq Voices
  /\ \A u \in DOMAIN listeners : listeners[u] \in DOMAIN objects
  /\ \A i \in DOMAIN ui : /\ ui[i].ref \in DOMAIN objects \cup {NullListener}
                          /\ ui[i].op \in {"add", "status"} => ui[i].ref # NullListener
  /\ app \in {"running", "crashed"}
  /\ faults \subseteq [site : Sites, known : BOOLEAN]
  /\ events \in 0..MaxEvents

\* A listener that leaves is unknown to the module, and a null reference handed
\* to the UI thread, only when the message came between subscription and list.
LeaveSafeOnceListed == \A f \in faults : f.site = "listenerLeft" => f.known

\* The runnables of Client lines 1163 and 1175 use what getUserById() answers
\* without a test: the entry is there.
StatusFindsEntry == \A f \in faults : f.site # "listenerStatus"

(* No runnable about a listener ends the application once the list of      *)
(* listeners was handled, also when the connection is replaced while it    *)
(* waits, although none of them tests what it was handed or finds.         *)
RunnablesFindListeners == LeaveSafeOnceListed /\ StatusFindsEntry

(* The position a context menu was opened at names the same listener when  *)
(* a command is chosen (Client lines 512-522), unless an entry was taken   *)
(* out meanwhile: announcing listeners never moves another one.            *)
MenuKeepsListener ==
  /\ menu # NoMenu /\ ~menu.shifted
       => menu.pos \in DOMAIN list /\ list[menu.pos].who = menu.who
  /\ \A f \in faults : f.site = "listenerMenu" => f.known

\* Everything sent was handled, and what was posted has run.
Settled ==
  /\ Running /\ conn = "listening" /\ received
  /\ toServer = <<>> /\ toClient = <<>> /\ ui = <<>>

(* The map of the module is the conference, with the state of every caller,*)
(* whatever came between the subscription and the list; and the button     *)
(* that mutes the room knows whether it is muted.                          *)
ModuleFollowsConference ==
  Settled =>
    /\ DOMAIN listeners = voices
    /\ \A u \in voices : objects[listeners[u]] = [who |-> u, status |-> status[u]]
    /\ roomMuted = allMuted

\* The screen has one entry for every caller, and one too many, which is never
\* taken out, for exactly the callers that joined between the subscription and
\* the list: onGetCurrentUsers() announces them again.
ScreenCountsVoices ==
  Settled =>
    \A u \in Voices : Cardinality(Positions(u)) =
      (IF u \in voices THEN 1 ELSE 0) + (IF u \in doubled THEN 1 ELSE 0)

\* The first entry of a caller, the one every lookup finds, shows whether the
\* caller talks and is muted.
FirstEntryCurrent ==
  Settled =>
    \A u \in voices, a \in Attributes \ {"locked"} :
      list[GetUserById(u)].status[a] = status[u][a]

(* Once the UI thread has caught up, the screen shows the conference: the   *)
(* callers there are, with what they do now, and nothing but the known      *)
(* second entries beside them.                                              *)
ScreenShowsConference == ScreenCountsVoices /\ FirstEntryCurrent
=============================================================================
