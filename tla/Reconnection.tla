--------------------------- MODULE Reconnection ---------------------------
(* One Client activity from its first joinAndConnect() to the end of its    *)
(* onDestroy(): joining over HTTP, connecting, losing the connection, the   *)
(* thread each loss starts to join again, the Reconnect item of the menu,   *)
(* being kicked, and quitting at any time (Client.java, BigBlueButtonClient *)
(* and its JoinService, MainRtmpConnection, RtmpConnection).                 *)
(* None of this is locked: the UI thread, the reconnection threads and the  *)
(* I/O threads share the current JoinService, the current connection and    *)
(* the fields of the activity.                                               *)
EXTENDS Naturals, Sequences, FiniteSets

CONSTANTS Ui,              \* the UI thread
          Workers,         \* reconnection threads that may run at a time
          MaxConnections,  \* bound: connections made
          MaxServices,     \* bound: JoinService objects made
          MaxDrops         \* bound: connections lost to the network

ASSUME ReconnectionAssumption ==
  /\ Ui \notin Workers
  /\ MaxConnections \in Nat /\ MaxServices \in Nat \ {0} /\ MaxDrops \in Nat

Threads == {Ui} \cup Workers
Connections == 1..MaxConnections
Services == 1..MaxServices
NoConnection == 0
NoService == 0

VARIABLES
  launch,      \* "application" (from LoginPage) or "browser" (a meeting's link)
  service,     \* BigBlueButtonClient.joinService
  joined,      \* the joinedMeeting of every JoinService
  main,        \* BigBlueButtonClient.mainConnection
  phase,       \* what every connection has become
  made,        \* connections made so far
  listening,   \* the activity is in BigBlueButtonClient.eventListeners
  kicked,      \* Client.kicked
  pc,          \* where each thread is
  joining,     \* the JoinService its join() runs on
  dialled,     \* the connection it waits for
  app,         \* the activity: running, finishing, ended; or the app crashed
  crash,       \* what ended the app
  posted,      \* runnables posted to the UI thread
  dialog,      \* the reconnect dialog is on the screen
  dialogShown, \* Client.dialogShown
  created,     \* showDialog() has run once: dismissDialog() does not throw
  icon,        \* setConnectedIcon()
  offered,     \* the menu is open and has a Reconnect item
  drops,       \* connections lost so far
  impatient,   \* history: Reconnect was chosen while something was under way
  hurried,     \* history: quit() ran beside a join
  late         \* history: a connection was lost before its thread went on

net == <<service, joined, main, phase, made, listening>>
threads == <<pc, joining, dialled>>
screen == <<posted, dialog, dialogShown, created, icon, offered>>
over == <<app, crash>>
history == <<impatient, hurried, late>>
vars == <<launch, net, kicked, threads, over, screen, drops, history>>

\* In joinAndConnect(), or about to be.
Joining == {"lost", "join", "parse", "check", "dial", "open", "await"}
Quitting == {"disconnect", "replace", "destroyDisconnect", "destroyReplace"}
Live == {"created", "connecting", "open", "announced"}

Init ==
  /\ launch \in {"application", "browser"}
  /\ service = 1
  /\ joined = [s \in Services |-> "none"]
  /\ main = NoConnection
  /\ phase = [c \in Connections |-> "none"]
  /\ made = 0
  /\ listening = TRUE
  /\ kicked = FALSE
  /\ pc = [t \in Threads |-> IF t = Ui THEN "join" ELSE "idle"]
  /\ joining = [t \in Threads |-> NoService]
  /\ dialled = [t \in Threads |-> NoConnection]
  /\ app = "running" /\ crash = "none"
  /\ posted = <<>>
  /\ dialog = FALSE /\ dialogShown = FALSE /\ created = FALSE
  /\ icon = "initial"
  /\ offered = FALSE
  /\ drops = 0
  /\ impatient = FALSE /\ hurried = FALSE /\ late = FALSE

Goto(t, where) == pc' = [pc EXCEPT ![t] = where]

\* An exception no one catches ends the process, whichever thread it is on.
Crash(why) == app' = "crashed" /\ crash' = why /\ UNCHANGED <<pc, screen>>

\* joinAndConnect() returns false through a JoinFailDialog.  A reconnection
\* thread has no Looper, so there the dialog's constructor throws.  (On the UI
\* thread the browser's path first reads the error of the current service.)
Fail(t) ==
  \/ /\ t \in Workers
     /\ Crash("joinFailed")
  \/ /\ t = Ui /\ launch = "browser" /\ joined[service] = "none"
     /\ Crash("noMeeting")
  \/ /\ t = Ui /\ (launch = "browser" => joined[service] # "none")
     /\ Goto(t, "idle")
     /\ UNCHANGED <<over, screen>>

-----------------------------------------------------------------------------
(* joinAndConnect(), on any thread *)

\* JoinService.join(): the list of meetings was loaded by LoginPage into the
\* first service only; a meeting that is not found makes join() fail at once.
JoinRequest(t) ==
  /\ pc[t] = "join"
  /\ IF launch = "application" /\ service # 1
     THEN Fail(t) /\ UNCHANGED <<joined, joining>>
     ELSE /\ joined' = [joined EXCEPT ![service] = "fresh"]
          /\ joining' = [joining EXCEPT ![t] = service]
          /\ Goto(t, "parse")
          /\ UNCHANGED <<over, screen>>
  /\ UNCHANGED <<launch, service, main, phase, made, listening, kicked, dialled,
                 drops, history>>

\* The HTTP request ends: the answer fills the service's joinedMeeting, which
\* may by now be the one another thread has made.
Parse(t) ==
  /\ pc[t] = "parse"
  /\ \/ /\ \E answer \in {"success", "failed"} :
              joined' = [joined EXCEPT ![joining[t]] = answer]
        /\ Goto(t, "check")
        /\ UNCHANGED <<over, screen, joining>>
     \/ Fail(t) /\ joining' = [joining EXCEPT ![t] = NoService] /\ UNCHANGED joined
  /\ UNCHANGED <<launch, service, main, phase, made, listening, kicked, dialled,
                 drops, history>>

\* joinedMeeting.getReturncode().equals("SUCCESS").
Check(t) ==
  /\ pc[t] = "check"
  /\ joining' = [joining EXCEPT ![t] = NoService]
  /\ CASE joined[joining[t]] = "fresh"   -> Crash("halfJoined")
       [] joined[joining[t]] = "failed"  -> Fail(t)
       [] joined[joining[t]] = "success" -> /\ Goto(t, "dial")
                                            /\ UNCHANGED <<over, screen>>
  /\ UNCHANGED <<launch, net, kicked, dialled, drops, history>>

\* mainConnection is assigned once.
KeepFirst == main' = IF main = NoConnection THEN made' ELSE main

\* mainConnection = new MainRtmpConnection(...).
Adopt == main' = made'

\* connectBigBlueButton() reads the current service again, for the address and
\* the conference (and the browser's path reads the role before it).
Dial(t) ==
  /\ pc[t] = "dial"
  /\ made < MaxConnections
  /\ CASE joined[service] = "none" -> Crash("noMeeting") /\ UNCHANGED <<net, dialled>>
       [] joined[service] = "fresh" /\ launch = "browser" ->
            Crash("halfJoined") /\ UNCHANGED <<net, dialled>>
       [] OTHER ->
            /\ made' = made + 1
            /\ Adopt
            /\ phase' = [phase EXCEPT ![made'] = "created"]
            /\ dialled' = [dialled EXCEPT ![t] = made']
            /\ Goto(t, "open")
            /\ UNCHANGED <<service, joined, listening, over, screen>>
  /\ UNCHANGED <<launch, kicked, joining, drops, history>>

\* RtmpConnection.connect(): only now has the connection a future.
Open(t) ==
  /\ pc[t] = "open"
  /\ phase' = [phase EXCEPT ![dialled[t]] = "connecting"]
  /\ Goto(t, "await")
  /\ UNCHANGED <<launch, service, joined, main, made, listening, kicked, joining,
                 dialled, over, screen, drops, history>>

\* future.awaitUninterruptibly(), and what the callers of joinAndConnect() do
\* when it returns true.
Await(t) ==
  /\ pc[t] = "await"
  /\ phase[dialled[t]] # "connecting"
  /\ dialled' = [dialled EXCEPT ![t] = NoConnection]
  /\ IF phase[dialled[t]] = "failed"
     THEN Fail(t)
     ELSE /\ Goto(t, "idle")
          /\ posted' = IF t = Ui THEN posted ELSE Append(posted, "reconnected")
          /\ UNCHANGED <<over, dialog, dialogShown, created, icon, offered>>
  /\ UNCHANGED <<launch, net, kicked, joining, drops, history>>

-----------------------------------------------------------------------------
(* The connections, on their I/O threads *)

Established(c) ==
  /\ phase[c] = "connecting"
  /\ \E outcome \in {"open", "failed"} : phase' = [phase EXCEPT ![c] = outcome]
  /\ UNCHANGED <<launch, service, joined, main, made, listening, kicked, threads,
                 over, screen, drops, history>>

Closed(c) == [phase EXCEPT ![c] = "closed"]

\* onDisconnected() without its first runnable.
PostNothing == posted' = posted

PostShow == posted' = Append(posted, "show")

\* channelDisconnected() and onDisconnected(): the dialog is posted before the
\* thread that joins again is started.
Disconnected(c) ==
  /\ phase' = Closed(c)
  /\ IF listening
     THEN /\ PostShow
          /\ \E w \in Workers : pc[w] = "idle" /\ Goto(w, "lost")
     ELSE UNCHANGED <<posted, pc>>
  /\ late' = (late \/ \E t \in Workers : pc[t] = "await" /\ dialled[t] = c)
  /\ UNCHANGED <<launch, service, joined, main, made, listening, kicked, joining,
                 dialled, over, dialog, dialogShown, created, icon, offered,
                 impatient, hurried>>

\* channelConnected(): the connect command carries the fields of the current
\* service's joinedMeeting.  Without them it throws, and exceptionCaught()
\* closes the channel.
ChannelConnected(c) ==
  /\ phase[c] = "open"
  /\ \/ /\ joined[service] = "success"
        /\ phase' = [phase EXCEPT ![c] = "announced"]
        /\ posted' = IF listening THEN Append(posted, "connected") ELSE posted
        /\ UNCHANGED <<launch, service, joined, main, made, listening, kicked,
                       threads, over, dialog, dialogShown, created, icon, offered,
                       history>>
     \/ joined[service] # "success" /\ Disconnected(c)
  /\ UNCHANGED drops

\* The network, or the server, closes a connection.
Drop(c) ==
  /\ phase[c] \in {"open", "announced"}
  /\ drops < MaxDrops
  /\ drops' = drops + 1
  /\ Disconnected(c)

\* onKickUserCallback(): the server closes the connection after it (Drop).
Kick(c) ==
  /\ phase[c] = "announced" /\ listening
  /\ kicked' = TRUE
  /\ UNCHANGED <<launch, net, threads, over, screen, drops, history>>

\* The thread onDisconnected() started.
Reconnect(w) ==
  /\ w \in Workers /\ pc[w] = "lost" /\ ~kicked
  /\ \/ Goto(w, "join") /\ UNCHANGED posted
     \/ Goto(w, "idle") /\ posted' = Append(posted, "noNetwork")
  /\ UNCHANGED <<launch, net, kicked, joining, dialled, over, dialog, dialogShown,
                 created, icon, offered, drops, history>>

-----------------------------------------------------------------------------
(* quit(), from the menu, from a kicked user's thread and from onDestroy() *)

\* removeListener(), then disconnect().
StartQuit(t) ==
  /\ \/ t = Ui /\ pc[t] = "idle" /\ app = "running" /\ Goto(t, "disconnect")
     \/ t = Ui /\ pc[t] = "idle" /\ app = "finishing" /\ Goto(t, "destroyDisconnect")
     \/ t \in Workers /\ pc[t] = "lost" /\ kicked /\ Goto(t, "disconnect")
  /\ listening' = FALSE
  /\ hurried' = (hurried \/ \E u \in Threads \ {t} : pc[u] \in Joining)
  /\ UNCHANGED <<launch, service, joined, main, phase, made, kicked, joining,
                 dialled, over, screen, drops, impatient, late>>

AfterDisconnect(t) ==
  Goto(t, IF pc[t] = "disconnect" THEN "replace" ELSE "destroyReplace")

\* quit() leaves the connection alone.
NoDisconnect(t) ==
  /\ pc[t] \in {"disconnect", "destroyDisconnect"}
  /\ AfterDisconnect(t)
  /\ UNCHANGED <<launch, net, kicked, joining, dialled, over, screen, drops, history>>

\* RtmpConnection.disconnect() closes the channel of the future and waits for
\* it.  No listener is left to start another thread.
Disconnect(t) ==
  /\ pc[t] \in {"disconnect", "destroyDisconnect"}
  /\ IF main # NoConnection /\ phase[main] = "created"
     THEN Crash("noFuture") /\ UNCHANGED phase
     ELSE /\ phase' = IF main = NoConnection THEN phase
                      ELSE [phase EXCEPT ![main] =
                              IF @ \in {"connecting", "failed"} THEN "failed" ELSE "closed"]
          /\ AfterDisconnect(t)
          /\ UNCHANGED <<over, screen>>
  /\ UNCHANGED <<launch, service, joined, main, made, listening, kicked, joining,
                 dialled, drops, history>>

\* joinService = new JoinService(), then finish(), or the end of onDestroy().
Replace(t) ==
  /\ pc[t] \in {"replace", "destroyReplace"}
  /\ service < MaxServices
  /\ service' = service + 1
  /\ IF pc[t] = "replace"
     THEN /\ Goto(t, "idle")
          /\ app' = IF app = "running" THEN "finishing" ELSE app
     ELSE Goto(t, "stopped") /\ app' = "ended"
  /\ UNCHANGED <<launch, joined, main, phase, made, listening, kicked, joining,
                 dialled, crash, screen, drops, history>>

-----------------------------------------------------------------------------
(* The UI thread *)

UiFree == pc[Ui] = "idle" /\ app = "running"

\* isConnected() decides what the menu offers when it opens; the dialog, as
\* long as it is there, takes the keys.
OpenMenu ==
  /\ UiFree /\ ~dialog /\ ~offered
  /\ main # NoConnection => phase[main] # "announced"
  /\ offered' = TRUE
  /\ UNCHANGED <<launch, net, kicked, threads, over, posted, dialog, dialogShown,
                 created, icon, drops, history>>

\* MENU_RECONNECT.
ChooseReconnect ==
  /\ UiFree /\ offered
  /\ offered' = FALSE
  /\ \/ Goto(Ui, "join")
     \/ UNCHANGED pc         \* no network
  /\ impatient' = (impatient \/ (\E w \in Workers : pc[w] # "idle")
                             \/ (\E c \in Connections : phase[c] \in Live))
  /\ hurried' = (hurried \/ \E w \in Workers : pc[w] \in Quitting)
  /\ UNCHANGED <<launch, net, kicked, joining, dialled, over, posted, dialog,
                 dialogShown, created, icon, drops, late>>

\* The back key.
CancelDialog ==
  /\ UiFree /\ dialog
  /\ dialog' = FALSE
  /\ UNCHANGED <<launch, net, kicked, threads, over, posted, dialogShown, created,
                 icon, offered, drops, history>>

\* onDisconnected().
Show ==
  /\ icon' = "reconnecting"
  /\ dialog' = TRUE /\ created' = TRUE /\ dialogShown' = TRUE
  /\ UNCHANGED <<pc, over>>

\* onConnected().
ShowConnected ==
  /\ icon' = "connected"
  /\ UNCHANGED <<dialog, dialogShown, created, pc, over>>

\* The thread has reconnected, without closing the dialog.
KeepDialog ==
  /\ icon' = "connected"
  /\ UNCHANGED <<dialog, dialogShown, created, pc, over>>

\* The thread has reconnected.
Reconnected ==
  /\ icon' = "connected"
  /\ dialog' = FALSE
  /\ IF created THEN UNCHANGED over ELSE app' = "crashed" /\ crash' = "noDialog"
  /\ UNCHANGED <<dialogShown, created, pc>>

\* The thread has found no network: `while(!dialogShown);' comes first.
NoNetwork ==
  /\ icon' = "disconnected"
  /\ IF dialogShown
     THEN dialog' = FALSE /\ dialogShown' = FALSE /\ UNCHANGED pc
     ELSE Goto(Ui, "spinning") /\ UNCHANGED <<dialog, dialogShown>>
  /\ UNCHANGED <<created, over>>

\* A runnable finds the activity as long as onDestroy() has not begun.
RunPosted ==
  /\ pc[Ui] = "idle" /\ app \in {"running", "finishing"} /\ posted # <<>>
  /\ posted' = Tail(posted)
  /\ CASE Head(posted) = "show"        -> Show
       [] Head(posted) = "connected"   -> ShowConnected
       [] Head(posted) = "reconnected" -> Reconnected
       [] Head(posted) = "noNetwork"   -> NoNetwork
  /\ UNCHANGED <<launch, net, kicked, joining, dialled, offered, drops, history>>

-----------------------------------------------------------------------------
\* What the program's threads do by themselves ...
ThreadStep(t) ==
  \/ JoinRequest(t) \/ Parse(t) \/ Check(t) \/ Dial(t) \/ Open(t) \/ Await(t)
  \/ Reconnect(t) \/ Disconnect(t) \/ Replace(t)
  \/ (t \in Workers \/ app = "finishing") /\ StartQuit(t)

ChannelStep(c) == Established(c) \/ ChannelConnected(c)

\* ... and what the user and the network may do.
Environment ==
  \/ app = "running" /\ StartQuit(Ui)
  \/ OpenMenu \/ ChooseReconnect \/ CancelDialog
  \/ \E c \in Connections : Drop(c) \/ Kick(c)

Next ==
  /\ app # "crashed"
  /\ \/ \E t \in Threads : ThreadStep(t)
     \/ \E c \in Connections : ChannelStep(c)
     \/ RunPosted
     \/ Environment

Spec == Init /\ [][Next]_vars

\* Threads run, attempts to connect end, and the UI thread takes its runnables.
\* An HTTP request need not end: JoinService sets no timeout.  Nor need the
\* server announce a connection that is open.
FairSpec ==
  /\ Spec
  /\ \A t \in Threads : WF_vars(app # "crashed" /\ pc[t] # "parse" /\ ThreadStep(t))
  /\ \A c \in Connections : WF_vars(app # "crashed" /\ Established(c))
  /\ WF_vars(app # "crashed" /\ RunPosted)

-----------------------------------------------------------------------------
(* Properties *)

\* Type invariant; connections are made one after the other.
TypeOK ==
  /\ launch \in {"application", "browser"}
  /\ service \in Services
  /\ joined \in [Services -> {"none", "fresh", "failed", "success"}]
  /\ main = made /\ made \in 0..MaxConnections
  /\ phase \in [Connections -> Live \cup {"none", "failed", "closed"}]
  /\ \A c \in Connections : phase[c] = "none" <=> c > made
  /\ listening \in BOOLEAN /\ kicked \in BOOLEAN
  /\ pc \in [Threads -> Joining \cup Quitting \cup {"idle", "stopped", "spinning"}]
  /\ joining \in [Threads -> Services \cup {NoService}]
  /\ dialled \in [Threads -> Connections \cup {NoConnection}]
  /\ app \in {"running", "finishing", "ended", "crashed"}
  /\ crash \in {"none", "joinFailed", "noMeeting", "halfJoined", "noFuture", "noDialog"}
  /\ app = "crashed" <=> crash # "none"
  /\ posted \in Seq({"show", "connected", "reconnected", "noNetwork"})
  /\ dialog \in BOOLEAN /\ dialogShown \in BOOLEAN /\ created \in BOOLEAN
  /\ icon \in {"initial", "connected", "reconnecting", "disconnected"}
  /\ offered \in BOOLEAN
  /\ drops \in 0..MaxDrops
  /\ impatient \in BOOLEAN /\ hurried \in BOOLEAN /\ late \in BOOLEAN

\* The user is in the meeting once: a reconnection never adds a connection to
\* one that is alive, unless Reconnect was chosen while one was being made.
OneConnection ==
  ~impatient => Cardinality({c \in Connections : phase[c] \in Live}) <= 1

\* After onDestroy() no connection stays in the meeting, unless a join ran
\* beside quit() or two connections were made: quit() closes only the last.
QuitLeavesMeeting ==
  app = "ended" /\ ~hurried /\ ~impatient
    => \A c \in Connections : phase[c] \notin Live

(* The user is in the meeting once while the activity lives, and not at all *)
(* after it, except through the two doors the code leaves open: Reconnect   *)
(* chosen twice, and a quit beside a join.                                  *)
NoStrayConnection == OneConnection /\ QuitLeavesMeeting

\* What ends the app.  A reconnection that fails to join needs no overlap,
\* but a connection that was lost: a join on the UI thread never ends it.  The
\* rest need threads that met: a quit beside a join finds or leaves a service
\* without a meeting or a connection without a future, and only two joins at a
\* time read each other's half-made meeting.  The dialog that is dismissed has
\* always been shown.
CrashCauses ==
  /\ crash = "joinFailed" =>
       /\ \E w \in Workers : pc[w] \in Joining \ {"lost"}
       /\ \E c \in Connections : phase[c] = "closed"
  /\ crash \in {"noMeeting", "noFuture"} => hurried
  /\ crash = "halfJoined" => impatient
  /\ crash # "noDialog"

\* The UI thread waits for a dialog that only it can show: never while
\* connections are made one at a time.
SpinsOnlyAfterImpatience == pc[Ui] = "spinning" => impatient

(* The ways to die and to hang, and what each needs: a reconnection thread  *)
(* that fails to join after a loss, a quit beside a join, two joins at a    *)
(* time, or Reconnect chosen while something was under way.                 *)
FailuresNeedOverlap == CrashCauses /\ SpinsOnlyAfterImpatience

Settled ==
  /\ app = "running" /\ posted = <<>>
  /\ \A t \in Threads : pc[t] = "idle"
  /\ \A c \in Connections : phase[c] \in {"none", "failed", "announced", "closed"}

(* When nothing is left to run, the reconnect dialog is gone, however many   *)
(* losses and threads overlapped, and a user who is connected sees it,      *)
(* unless Reconnect was chosen out of turn.  The other way round there is   *)
(* one more door: a connection that is lost before the thread that made it  *)
(* posts "reconnected" leaves an icon that says connected where nothing is. *)
ScreenTellsTruth ==
  Settled =>
    LET connected == \E c \in Connections : phase[c] = "announced"
    IN /\ ~dialog
       /\ ~impatient /\ connected => icon = "connected"
       /\ ~impatient /\ ~late /\ icon = "connected" => connected

(* The reconnect dialog does not stay: it is closed, or the activity ends,  *)
(* or the UI thread is caught in its loop (or a join is at the bound on     *)
(* connections).  Else some thread waits for ever for the answer to an HTTP *)
(* request, which has no timeout: that is the only other way to hang.       *)
DialogAnswered ==
  \/ \E t \in Threads : <>[](pc[t] = "parse")
  \/ dialog ~> \/ ~dialog \/ app # "running" \/ pc[Ui] = "spinning"
               \/ \E t \in Threads : pc[t] = "dial" /\ made = MaxConnections
=============================================================================
