--------------------------- MODULE MeetingSession ---------------------------
(***************************************************************************)
(* A meeting session of the client: the RTMP command connection            *)
(* (MainRtmpConnection), the list of participants (UsersModule), private   *)
(* chat (ChatModule) and the Android activity that shows them (Client,     *)
(* ContactAdapter, PrivateChat).                                           *)
(*                                                                         *)
(* Two threads of the client meet here.  The I/O thread handles one        *)
(* message of the connection after the other and posts runnables           *)
(* (runOnUiThread); the UI thread runs them in order, and the commands of  *)
(* the user between them.  An exception on the I/O thread closes the       *)
(* channel (exceptionCaught); one on the UI thread ends the application.   *)
(*                                                                         *)
(* The server is external.  It is modelled by what the client relies on:   *)
(* it answers the requests in order, it broadcasts over the same ordered   *)
(* connection what changes after a shared object was connected, and user   *)
(* ids are never used twice.                                               *)
(***************************************************************************)
EXTENDS Integers, Sequences, FiniteSets

CONSTANTS
  Me,           \* the user id the server gives this client
  Others,       \* user ids of everybody else
  Moderators,   \* users whose role is MODERATOR
  MaxSessions,  \* bound on the number of connections
  MaxEvents     \* bound on status changes, messages, kicks and commands

Users == Others \cup {Me}

ASSUME UsersAssumption == IsFiniteSet(Others) /\ Me \notin Others
ASSUME ModeratorsAssumption == Moderators \subseteq Users
ASSUME LimitsAssumption == MaxSessions \in Nat /\ MaxEvents \in Nat

VARIABLES
  members,      \* server: the users in the meeting
  handRaised,   \* server: the raiseHand status of every user
  arrived,      \* server: the others that have been in the meeting
  subscribed,   \* server: shared objects this connection has connected to
  toServer,     \* the connection, one ordered channel each way
  toClient,
  conn,         \* "open" or "closed"
  sessions,     \* connections made so far
  sharedObjects,     \* ClientHandler.sharedObjects of this connection
  participants,      \* UsersModule.participants: raiseHand by user id
  moderatorCount,    \* Meeting.moderatorCount
  participantCount,  \* Meeting.participantCount
  privateChats,      \* ChatModule.privateChatMessages: messages by peer
  ui,           \* runnables posted to the UI thread
  contacts,     \* user ids in the ContactAdapter
  chats,        \* PrivateChat.participants: the open private chats
  displayed,    \* {u}: the view of PrivateChat is u's; {}: it has lost its chat
  kicked,       \* Client.kicked
  reconnecting, \* the thread of Client.onDisconnected() has not finished
  app,          \* "running", "finished" or "crashed"
  exceptions,   \* where NullPointerExceptions were thrown, and when
  events        \* number of events so far

server == <<members, handRaised, arrived, subscribed>>
wire == <<toServer, toClient>>
connection == <<conn, sessions, sharedObjects>>
roster == <<participants, moderatorCount, participantCount>>
screen == <<ui, contacts, chats, displayed>>
activity == <<kicked, reconnecting, app, exceptions>>
vars == <<server, wire, connection, roster, privateChats, screen, activity, events>>

NoModule == <<>>       \* the ChatModule has not been created
NoMessages == [u \in Others |-> 0]
Nobody == [u \in {} |-> FALSE]

\* The participants result was handled: the other modules exist.
Synced == "privateSO" \in sharedObjects

(* Faulty variants of the operators below, which the properties must tell  *)
(* from the code.                                                          *)
QueryFirst(so) == IF so = "participantsSO"
                  THEN <<[type |-> "getParticipants"], [type |-> "connectSO", so |-> so]>>
                  ELSE <<[type |-> "connectSO", so |-> so]>>
NoRequest(so) == <<>>
RefreshContacts(u) == [op |-> "clear", who |-> u]
NeverKicked == FALSE
KeepEntry(u) == participants
CountOutOfOtherRole(u) ==
  /\ moderatorCount' = IF u \in Moderators THEN moderatorCount ELSE moderatorCount - 1
  /\ participantCount' = IF u \in Moderators THEN participantCount - 1 ELSE participantCount

\* What is written when a shared object is connected, and when it is cleared.
RequestsToConnect(so) == <<[type |-> "connectSO", so |-> so]>>
RequestsOnClear(so) ==
  IF so = "participantsSO" THEN <<[type |-> "getParticipants"]>> ELSE <<>>

\* Runnables of Client.onParticipantLeft, onParticipantJoined and
\* onParticipantStatusChange.
TaskLeft(u) == [op |-> "remove", who |-> u]
TaskJoined(u) == [op |-> "add", who |-> u]
TaskStatus(u) == [op |-> "status", who |-> u]

IsModerator(u) == u \in Moderators
WithoutEntry(u) == [v \in DOMAIN participants \ {u} |-> participants[v]]
MustQuit == kicked

Event == events < MaxEvents /\ events' = events + 1
-----------------------------------------------------------------------------
Init ==
  /\ members \in SUBSET Others
  /\ arrived = members
  /\ handRaised = [u \in Users |-> FALSE]
  /\ subscribed = {}
  /\ toServer = <<>> /\ toClient = <<>>
  /\ conn = "closed" /\ sessions = 0 /\ sharedObjects = {}
  /\ participants = Nobody /\ moderatorCount = 0 /\ participantCount = 0
  /\ privateChats = NoModule
  /\ ui = <<>> /\ contacts = {} /\ chats = {} /\ displayed = {}
  /\ kicked = FALSE /\ reconnecting = FALSE
  /\ app = "running" /\ exceptions = {}
  /\ events = 0

(* The end of a connection, on both sides.                                 *)
Hangup ==
  /\ conn' = "closed"
  /\ toServer' = <<>> /\ toClient' = <<>>
  /\ members' = members \ {Me}
  /\ subscribed' = {}
  /\ UNCHANGED <<handRaised, arrived, sessions, sharedObjects>>

\* channelDisconnected(): Client.onDisconnected() starts its thread.
Close == Hangup /\ reconnecting' = TRUE

Threw(site) == exceptions' = exceptions \cup {[site |-> site, synced |-> Synced]}

\* An exception nobody catches on the UI thread.
Crash(site) ==
  /\ Threw(site)
  /\ app' = "crashed"
  /\ Hangup
  /\ UNCHANGED <<roster, privateChats, screen, kicked, reconnecting>>

-----------------------------------------------------------------------------
(* The server, external.                                                   *)
Broadcast(m) ==
  toClient' = IF "participantsSO" \in subscribed THEN Append(toClient, m) ELSE toClient

ServerUnchanged == UNCHANGED <<connection, roster, privateChats, screen, activity>>

UserJoins(u) ==
  /\ u \notin arrived
  /\ arrived' = arrived \cup {u}
  /\ members' = members \cup {u}
  /\ Broadcast([type |-> "participantJoined", who |-> u, raised |-> handRaised[u]])
  /\ UNCHANGED <<handRaised, subscribed, toServer, events>> /\ ServerUnchanged

UserLeaves(u) ==
  /\ u \in members
  /\ members' = members \ {u}
  /\ Broadcast([type |-> "participantLeft", who |-> u])
  /\ UNCHANGED <<handRaised, arrived, subscribed, toServer, events>> /\ ServerUnchanged

SetStatus(u, v) ==
  /\ handRaised' = [handRaised EXCEPT ![u] = v]
  /\ Broadcast([type |-> "participantStatusChange", who |-> u, raised |-> v])

\* Somebody in the meeting changes a status, kicks a user, or writes to us.
StatusChanges(u) ==
  /\ Event
  /\ u \in members
  /\ SetStatus(u, ~handRaised[u])
  /\ UNCHANGED <<members, arrived, subscribed, toServer>> /\ ServerUnchanged

ModeratorKicks(u) ==
  /\ Event
  /\ u \in members
  /\ members \cap Moderators \cap Others # {}
  /\ Broadcast([type |-> "kickUserCallback", who |-> u])
  /\ UNCHANGED <<server, toServer>> /\ ServerUnchanged

PeerWrites(u) ==
  /\ Event
  /\ u \in members
  /\ "privateSO" \in subscribed
  /\ toClient' = Append(toClient, [type |-> "messageReceived", who |-> u])
  /\ UNCHANGED <<server, toServer>> /\ ServerUnchanged

\* The requests of this client, answered in the order they were written.
AnswerConnect ==
  \/ /\ members' = members \cup {Me}
     /\ handRaised' = [handRaised EXCEPT ![Me] = FALSE]
     /\ toClient' = Append(toClient, [type |-> "connectSuccess"])
     /\ UNCHANGED <<arrived, subscribed>>
  \/ /\ toClient' = Append(toClient, [type |-> "connectRejected"])
     /\ UNCHANGED server

Answer(m) ==
  \/ m.type = "connect" /\ AnswerConnect
  \/ /\ m.type = "getMyUserId"
     /\ toClient' = Append(toClient, [type |-> "myUserId"])
     /\ UNCHANGED server
  \/ /\ m.type = "connectSO"
     /\ subscribed' = subscribed \cup {m.so}
     /\ toClient' = Append(toClient, [type |-> "clear", so |-> m.so])
     /\ UNCHANGED <<members, handRaised, arrived>>
  \/ /\ m.type = "getParticipants"
     /\ toClient' = Append(toClient, [type |-> "participants",
                                      map |-> [u \in members |-> handRaised[u]]])
     /\ UNCHANGED server
  \/ /\ m.type = "setParticipantStatus"
     /\ IF m.who \in members THEN SetStatus(m.who, m.raised)
                             ELSE UNCHANGED <<handRaised, toClient>>
     /\ UNCHANGED <<members, arrived, subscribed>>
  \/ /\ m.type = "kickUser"
     /\ Broadcast([type |-> "kickUserCallback", who |-> m.who])
     /\ UNCHANGED server
  \/ m.type = "privateMessage" /\ UNCHANGED <<server, toClient>>

ServerAnswers ==
  /\ toServer # <<>>
  /\ toServer' = Tail(toServer)
  /\ Answer(Head(toServer))
  /\ UNCHANGED events /\ ServerUnchanged

-----------------------------------------------------------------------------
(* connectBigBlueButton() and channelConnected(): a new handler, with no   *)
(* shared object; the modules of the previous connection stay in place.    *)
Connect ==
  /\ app = "running" /\ conn = "closed"
  /\ sessions < MaxSessions
  /\ conn' = "open"
  /\ sessions' = sessions + 1
  /\ sharedObjects' = {}
  /\ toServer' = <<[type |-> "connect"]>>
  /\ ui' = Append(ui, [op |-> "clear"])
  /\ UNCHANGED <<server, toClient, roster, privateChats, contacts, chats,
                 displayed, kicked, app, exceptions, events>>

\* joinAndConnect() when the activity starts or from MENU_RECONNECT, and in
\* the thread of onDisconnected().
UserConnects == Connect /\ UNCHANGED reconnecting
ThreadReconnects == reconnecting /\ ~MustQuit /\ Connect /\ reconnecting' = FALSE

ConnectionLost ==
  /\ conn = "open"
  /\ Close
  /\ UNCHANGED <<roster, privateChats, screen, kicked, app, exceptions, events>>

\* The thread of onDisconnected(): no network, a join that fails (the dialog
\* that says so cannot be made on this thread), or kicked.
GiveUp ==
  /\ app = "running" /\ reconnecting /\ ~MustQuit
  /\ reconnecting' = FALSE
  /\ UNCHANGED <<server, wire, connection, roster, privateChats, screen,
                 kicked, app, exceptions, events>>

JoinFails ==
  /\ app = "running" /\ reconnecting /\ ~MustQuit
  /\ app' = "crashed" /\ reconnecting' = FALSE
  /\ Hangup
  /\ UNCHANGED <<roster, privateChats, screen, kicked, exceptions, events>>

KickedQuits ==
  /\ app = "running" /\ reconnecting /\ MustQuit
  /\ app' = "finished" /\ reconnecting' = FALSE
  /\ Hangup
  /\ UNCHANGED <<roster, privateChats, screen, kicked, exceptions, events>>

-----------------------------------------------------------------------------
(* The I/O thread: messageReceived() on the first message of the channel.  *)
Receive(type) ==
  /\ app = "running" /\ conn = "open"
  /\ toClient # <<>> /\ Head(toClient).type = type
  /\ UNCHANGED events

Took == toClient' = Tail(toClient) /\ UNCHANGED <<server, conn, sessions>>
Write(requests) == toServer' = toServer \o requests

\* An exception of a handler: exceptionCaught() closes the channel.
FailWith(site) ==
  /\ Threw(site) /\ Close
  /\ UNCHANGED <<roster, privateChats, screen, kicked, app>>

OnConnect ==
  \/ /\ Receive("connectSuccess")
     /\ Took /\ Write(<<[type |-> "getMyUserId"]>>)
     /\ UNCHANGED <<sharedObjects, roster, privateChats, screen, activity>>
  \/ /\ Receive("connectRejected")
     /\ Close
     /\ UNCHANGED <<roster, privateChats, screen, kicked, app, exceptions>>

\* A new UsersModule, which connects participantsSO and resets the counters.
OnGetMyUserId ==
  /\ Receive("myUserId")
  /\ Took /\ Write(RequestsToConnect("participantsSO"))
  /\ sharedObjects' = sharedObjects \cup {"participantsSO"}
  /\ participants' = Nobody /\ moderatorCount' = 0 /\ participantCount' = 0
  /\ UNCHANGED <<privateChats, screen, activity>>

OnSharedObjectClear ==
  /\ Receive("clear")
  /\ Took /\ Write(RequestsOnClear(Head(toClient).so))
  /\ privateChats' = IF Head(toClient).so = "privateSO" THEN NoMessages ELSE privateChats
  /\ UNCHANGED <<sharedObjects, roster, screen, activity>>

\* The users in S are counted by role.
CountIn(S) ==
  /\ moderatorCount' = moderatorCount + Cardinality({u \in S : IsModerator(u)})
  /\ participantCount' = participantCount + Cardinality({u \in S : ~IsModerator(u)})
CountOut(u) ==
  /\ moderatorCount' = IF IsModerator(u) THEN moderatorCount - 1 ELSE moderatorCount
  /\ participantCount' = IF IsModerator(u) THEN participantCount ELSE participantCount - 1

\* The result of getParticipants: the map is read in any order, and the
\* ChatModule is created.
OnQueryParticipants ==
  /\ Receive("participants")
  /\ Took /\ Write(RequestsToConnect("privateSO"))
  /\ LET map == Head(toClient).map
         found == DOMAIN map
     IN /\ participants' = map
        /\ CountIn(found)
        /\ \E order \in [1..Cardinality(found) -> found] :
             /\ found = {order[i] : i \in DOMAIN order}
             /\ ui' = ui \o [i \in DOMAIN order |-> TaskJoined(order[i])]
  /\ sharedObjects' = sharedObjects \cup {"privateSO"}
  /\ privateChats' = NoMessages
  /\ UNCHANGED <<contacts, chats, displayed, activity>>

OnParticipantJoined ==
  /\ Receive("participantJoined")
  /\ Took
  /\ LET u == Head(toClient).who IN
       /\ ui' = Append(ui, TaskJoined(u))
       /\ participants' = [v \in DOMAIN participants \cup {u} |->
                             IF v = u THEN Head(toClient).raised ELSE participants[v]]
       /\ CountIn({u})
  /\ UNCHANGED <<toServer, sharedObjects, privateChats, contacts, chats, displayed,
                 activity>>

\* The listener of u's private chat looks up the chat whose view is displayed.
\* It comes after the Client, which has posted its runnable, and before the
\* UsersModule removes u.
ChatLookupFails(u) ==
  /\ Threw("chatLeft") /\ Close
  /\ ui' = Append(ui, TaskLeft(u))
  /\ UNCHANGED <<roster, privateChats, contacts, chats, displayed, kicked, app>>

\* (When another chat is displayed, the listener posts a second removal of u's
\* chat behind the Client's, which changes nothing more.)
OnParticipantLeft ==
  /\ Receive("participantLeft")
  /\ LET u == Head(toClient).who IN
       \/ u \notin DOMAIN participants /\ FailWith("participantLeft")
       \/ u \in DOMAIN participants /\ u \in chats /\ displayed = {} /\ ChatLookupFails(u)
       \/ /\ u \in DOMAIN participants /\ (u \in chats => displayed # {})
          /\ Took
          /\ ui' = Append(ui, TaskLeft(u))
          /\ CountOut(u)
          /\ participants' = WithoutEntry(u)
          /\ UNCHANGED <<toServer, sharedObjects, privateChats, contacts, chats,
                         displayed, activity>>

OnParticipantStatusChange ==
  /\ Receive("participantStatusChange")
  /\ LET u == Head(toClient).who IN
       IF u \in DOMAIN participants
       THEN /\ Took
            /\ participants' = [participants EXCEPT ![u] = Head(toClient).raised]
            /\ ui' = Append(ui, TaskStatus(u))
            /\ UNCHANGED <<toServer, sharedObjects, privateChats, moderatorCount,
                           participantCount, contacts, chats, displayed, activity>>
       ELSE FailWith("participantStatusChange")

OnKickUserCallback ==
  /\ Receive("kickUserCallback")
  /\ IF Head(toClient).who = Me
     THEN /\ kicked' = TRUE /\ Close
          /\ UNCHANGED <<roster, privateChats, screen, app, exceptions>>
     ELSE /\ Took
          /\ UNCHANGED <<toServer, sharedObjects, roster, privateChats, screen, activity>>

(* Client.showNotification() looks the sender up in the list of the UI     *)
(* thread before the ChatModule stores the message.                        *)
OnPrivateChatMessage ==
  /\ Receive("messageReceived")
  /\ LET u == Head(toClient).who IN
       IF u \in DOMAIN participants /\ u \in contacts
       THEN /\ Took
            /\ privateChats' = [privateChats EXCEPT ![u] = @ + 1]
            /\ UNCHANGED <<toServer, sharedObjects, roster, screen, activity>>
       ELSE FailWith("privateMessage")

HandleMessage ==
  \/ OnConnect \/ OnGetMyUserId \/ OnSharedObjectClear \/ OnQueryParticipants
  \/ OnParticipantJoined \/ OnParticipantLeft \/ OnParticipantStatusChange
  \/ OnKickUserCallback \/ OnPrivateChatMessage

-----------------------------------------------------------------------------
\* PrivateChat.removeParticipant(): a view that was displayed stays, without
\* a chat.
RemoveChat(u) == chats' = chats \ {u} /\ displayed' = displayed \ {u}

(* The UI thread: the oldest runnable that was posted.  The one of a       *)
(* status change uses what getUserById() answers without a null check.     *)
RunPosted ==
  /\ app = "running" /\ ui # <<>>
  /\ UNCHANGED events
  /\ LET task == Head(ui) IN
       IF task.op = "status" /\ task.who \notin contacts
       THEN Crash("contactStatus")
       ELSE /\ ui' = Tail(ui)
            /\ UNCHANGED <<server, wire, connection, roster, privateChats, activity>>
            /\ \/ /\ task.op = "clear"
                  /\ contacts' = {} /\ UNCHANGED <<chats, displayed>>
               \/ /\ task.op = "add"
                  /\ contacts' = contacts \cup {task.who} /\ UNCHANGED <<chats, displayed>>
               \/ /\ task.op = "remove"
                  /\ contacts' = contacts \ {task.who} /\ RemoveChat(task.who)
               \/ /\ task.op = "status"
                  /\ UNCHANGED <<contacts, chats, displayed>>

(* The commands of the user.                                               *)
Command == app = "running" /\ Event
Send(requests) ==
  /\ IF conn = "open" THEN Write(requests) ELSE UNCHANGED toServer
  /\ UNCHANGED <<server, toClient, connection, roster, ui, contacts, activity>>

\* onPrepareOptionsMenu() and MENU_RAISE_HAND look this client's user up.
OpenMenu ==
  /\ Command
  /\ conn = "open" /\ Me \notin DOMAIN participants
  /\ Crash("menu")

RaiseHand ==
  /\ Command
  /\ conn = "open" /\ Me \in DOMAIN participants
  /\ Send(<<[type |-> "setParticipantStatus", who |-> Me, raised |-> ~participants[Me]]>>)
  /\ UNCHANGED <<privateChats, chats, displayed>>

LowerHand(u) ==
  /\ Command
  /\ conn = "open" /\ u \in contacts /\ IsModerator(Me)
  /\ Send(<<[type |-> "setParticipantStatus", who |-> u, raised |-> FALSE]>>)
  /\ UNCHANGED <<privateChats, chats, displayed>>

KickUser(u) ==
  /\ Command
  /\ conn = "open" /\ u \in contacts /\ IsModerator(Me)
  /\ IF Me \in DOMAIN participants
     THEN /\ Send(<<[type |-> "kickUser", who |-> u]>>)
          /\ RemoveChat(u) /\ UNCHANGED privateChats
     ELSE Crash("kickUser")

\* PrivateChat.displayView(); for a chat that is not open, createParticipant()
\* reads the messages of the ChatModule.
OpenChat(u) ==
  /\ app = "running" /\ UNCHANGED events
  /\ u \in contacts
  /\ IF u \notin chats /\ privateChats = NoModule
     THEN Crash("openChat")
     ELSE /\ chats' = chats \cup {u} /\ displayed' = {u}
          /\ UNCHANGED <<server, wire, connection, roster, privateChats, ui, contacts, activity>>

\* A swipe, and the other views of closeChat(), pass by those without a chat.
DisplayOther(open) == \E v \in open \ displayed : displayed' = {v}

SwipeChat ==
  /\ app = "running"
  /\ Cardinality(chats) > 1 /\ DisplayOther(chats)
  /\ UNCHANGED <<server, wire, connection, roster, privateChats, ui, contacts, chats,
                 activity, events>>

\* closeChat(), from MENU_CLOSE or from the dialog that says the peer has left.
\* (With one chat open and a view without one it finishes PrivateChat and
\* leaves that chat in the static map: left out.)
CloseChat ==
  /\ app = "running"
  /\ chats' = chats \ displayed
  /\ IF Cardinality(chats) > 1
     THEN DisplayOther(chats)
     ELSE chats = displayed /\ displayed' = {}
  /\ UNCHANGED <<server, wire, connection, roster, privateChats, ui, contacts, activity,
                 events>>

\* ChatModule.sendPrivateChatMessage(): written first, then stored under the
\* peer, which has to be a participant.
SendPrivate(u) ==
  /\ Command
  /\ u \in chats
  /\ IF u \in DOMAIN participants
     THEN /\ Send(<<[type |-> "privateMessage", who |-> u]>>)
          /\ privateChats' = [privateChats EXCEPT ![u] = @ + 1]
          /\ UNCHANGED <<chats, displayed>>
     ELSE Crash("sendPrivate")

\* MENU_QUIT: the listener is removed, so nothing reconnects.
Quit ==
  /\ app = "running"
  /\ app' = "finished"
  /\ Hangup
  /\ UNCHANGED <<roster, privateChats, screen, kicked, reconnecting, exceptions, events>>

Server ==
  \/ ServerAnswers
  \/ \E u \in Others : UserJoins(u) \/ UserLeaves(u) \/ PeerWrites(u)
  \/ \E u \in Users : StatusChanges(u) \/ ModeratorKicks(u)

User ==
  \/ OpenMenu \/ RaiseHand \/ Quit \/ SwipeChat \/ CloseChat
  \/ \E u \in Users : LowerHand(u)
  \/ \E u \in Others : KickUser(u) \/ OpenChat(u) \/ SendPrivate(u)

Next ==
  \/ Server \/ User
  \/ UserConnects \/ ThreadReconnects \/ ConnectionLost \/ GiveUp \/ JoinFails
  \/ KickedQuits \/ HandleMessage \/ RunPosted

Spec == Init /\ [][Next]_vars

(* The I/O thread takes every message it is sent, the UI thread runs what  *)
(* was posted, a started thread runs, and the server answers.              *)
Fairness ==
  /\ WF_vars(ServerAnswers) /\ WF_vars(HandleMessage)
  /\ WF_vars(RunPosted) /\ WF_vars(GiveUp) /\ WF_vars(KickedQuits)

FairSpec == Spec /\ Fairness

-----------------------------------------------------------------------------
(* Types.                                                                  *)
Statuses == UNION {[S -> BOOLEAN] : S \in SUBSET Users}
SharedObjects == {"participantsSO", "privateSO"}
Sites == {"participantLeft", "participantStatusChange", "privateMessage",
          "contactStatus", "menu", "kickUser", "openChat", "sendPrivate", "chatLeft"}

TypeOK ==
  /\ members \subseteq Users /\ arrived \subseteq Others
  /\ handRaised \in [Users -> BOOLEAN]
  /\ subscribed \subseteq SharedObjects /\ sharedObjects \subseteq SharedObjects
  /\ conn \in {"open", "closed"} /\ sessions \in 0..MaxSessions
  /\ participants \in Statuses
  /\ moderatorCount \in Nat /\ participantCount \in Nat
  /\ privateChats \in [Others -> Nat] \cup {NoModule}
  /\ contacts \subseteq Users /\ chats \subseteq Others
  /\ displayed \subseteq chats /\ \A u, v \in displayed : u = v
  /\ kicked \in BOOLEAN /\ reconnecting \in BOOLEAN
  /\ app \in {"running", "finished", "crashed"}
  /\ exceptions \subseteq [site : Sites, synced : BOOLEAN]
  /\ events \in 0..MaxEvents

(* Once the list of participants was received, no participant that leaves  *)
(* or changes is unknown to UsersModule, and this client's own user is in  *)
(* the list: of all the lookups without a null check three are left that   *)
(* can miss.  They are those that go by what the UI thread has done so     *)
(* far: the sender of a private message may not be in the contact list yet *)
(* (Client:1012), the peer of an open chat may be gone when the user       *)
(* writes (ChatModule:198), and the chat on the screen may have been taken *)
(* away when the peer of another one leaves (PrivateChat:107, 114).        *)
LookupsSafeOnceSynced ==
  \A e \in exceptions :
    e.synced => e.site \in {"privateMessage", "sendPrivate", "chatLeft"}

(* A runnable posted for a status change always finds the contact: it was  *)
(* posted after the one that adds it and before the one that removes it,   *)
(* also when the connection is replaced meanwhile.                         *)
RunnablesFindContacts == \A e \in exceptions : e.site # "contactStatus"

(* The counters of the meeting dialog never fall below the list they are   *)
(* kept beside.  (They may exceed it: the query result counts again whoever*)
(* joined between the connect of participantsSO and that result.)          *)
CountersCoverRoster ==
  /\ moderatorCount >= Cardinality({u \in DOMAIN participants : u \in Moderators})
  /\ participantCount >= Cardinality({u \in DOMAIN participants : u \notin Moderators})

\* What a message does to the entry of a user in the list of participants.
Joins(m, u) == m.type = "participantJoined" /\ m.who = u
Leaves(m, u) == m.type = "participantLeft" /\ m.who = u
SetsHand(m, u) == m.type \in {"participantJoined", "participantStatusChange"} /\ m.who = u

\* Is u in the list, and is v its flag, once the messages were handled that
\* are on their way?  The last message about the user decides.
ListedAfter(list, messages, u) ==
  \/ \E j \in DOMAIN messages :
       /\ Joins(messages[j], u)
       /\ \A l \in DOMAIN messages : l > j => ~Leaves(messages[l], u)
  \/ u \in DOMAIN list /\ \A l \in DOMAIN messages : ~Leaves(messages[l], u)

RaisedAfter(list, messages, u, v) ==
  \/ \E j \in DOMAIN messages :
       /\ SetsHand(messages[j], u) /\ messages[j].raised = v
       /\ \A l \in DOMAIN messages : l > j => ~SetsHand(messages[l], u)
  \/ list[u] = v /\ \A l \in DOMAIN messages : ~SetsHand(messages[l], u)

(* No update is lost between the query and the subscription: once the list *)
(* was received, no other one is on its way, and it differs from the       *)
(* server's only by the messages that are; and the counters of the meeting *)
(* cover it.                                                               *)
RosterMirrorsServer ==
  /\ conn = "open" /\ Synced =>
       /\ \A j \in DOMAIN toClient : toClient[j].type # "participants"
       /\ \A u \in Users :
            /\ ListedAfter(participants, toClient, u) <=> u \in members
            /\ u \in members => RaisedAfter(participants, toClient, u, handRaised[u])
  /\ CountersCoverRoster

\* Is u in the contact list once the runnables that were posted have run?
Hides(task, u) == task.op = "clear" \/ (task.op = "remove" /\ task.who = u)

ShownAfter(shown, tasks, u) ==
  \/ \E j \in DOMAIN tasks :
       /\ tasks[j].op = "add" /\ tasks[j].who = u
       /\ \A l \in DOMAIN tasks : l > j => ~Hides(tasks[l], u)
  \/ u \in shown /\ \A l \in DOMAIN tasks : ~Hides(tasks[l], u)

(* What the contact list shows, once the UI thread has caught up, is the   *)
(* list of participants of this connection: nobody before it has one.  (A  *)
(* user whose chat ended the connection is removed from the first only.)   *)
ContactsFollowRoster ==
  conn = "open" =>
    \A u \in Users :
      ShownAfter(contacts, ui, u)
        <=> "participantsSO" \in sharedObjects /\ u \in DOMAIN participants

(* Every connection gets its list of participants, unless it ends first:   *)
(* the chain connect, getMyUserId, participantsSO, getParticipants is      *)
(* driven to its end by the answers of the server alone.                   *)
SessionSyncs == (conn = "open") ~> (Synced \/ conn = "closed")

(* A kicked user leaves the meeting for good: the reconnection thread      *)
(* quits instead of joining again.                                         *)
KickedLeaves == kicked ~> (app # "running")

(* Client.showNotification() reminds its reader that the list may have no  *)
(* entry for the sender: a private message does not end the session.       *)
PrivateMessageIsTaken == \A e \in exceptions : e.site # "privateMessage"

(* While the first connection lasts, a private chat is open with a          *)
(* participant only, or with one whose removal waits for the UI thread: the *)
(* message sent in between is the one that ends the activity (sendPrivate). *)
(* (Chats survive a reconnection, participants may not.)                    *)
ChatsFollowRoster ==
  sessions <= 1
    => \A u \in chats \ DOMAIN participants :
         \E i \in DOMAIN ui : ui[i] = [op |-> "remove", who |-> u]
=============================================================================
