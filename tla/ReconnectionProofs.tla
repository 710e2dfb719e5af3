------------------------- MODULE ReconnectionProofs -------------------------
(***************************************************************************)
(* What the activity guarantees over losses, reconnections and quits, for  *)
(* any number of threads, connections, services and losses.                *)
(*                                                                         *)
(* Nothing is locked, so everything rests on who can be where.  As long as *)
(* Reconnect is not chosen while something is under way, there is one       *)
(* token: a thread that is about to make a connection, or the connection it *)
(* made, or its loss, which hands the token to a new thread.  As long as    *)
(* quit() does not run beside a join, no thread joins once the listener is  *)
(* removed.  And what the screen will show is decided by the last runnable *)
(* that was posted.                                                        *)
(***************************************************************************)
EXTENDS Reconnection, FiniteSetTheorems, TLAPS

Tasks == {"show", "connected", "reconnected", "noNetwork"}
Phases == Live \cup {"none", "failed", "closed"}
Places == Joining \cup Quitting \cup {"idle", "stopped", "spinning"}

\* The type invariant in five parts.
NetType ==
  /\ service \in Services
  /\ joined \in [Services -> {"none", "fresh", "failed", "success"}]
  /\ main = made /\ made \in 0..MaxConnections
  /\ phase \in [Connections -> Phases]
  /\ \A c \in Connections : phase[c] = "none" <=> c > made

ThreadsType ==
  /\ pc \in [Threads -> Places]
  /\ joining \in [Threads -> Services \cup {NoService}]
  /\ dialled \in [Threads -> Connections \cup {NoConnection}]

OverType ==
  /\ app \in {"running", "finishing", "ended", "crashed"}
  /\ crash \in {"none", "joinFailed", "noMeeting", "halfJoined", "noFuture", "noDialog"}
  /\ app = "crashed" <=> crash # "none"

ScreenType ==
  /\ posted \in Seq(Tasks)
  /\ dialog \in BOOLEAN /\ dialogShown \in BOOLEAN /\ created \in BOOLEAN
  /\ icon \in {"initial", "connected", "reconnecting", "disconnected"}
  /\ offered \in BOOLEAN

OtherType ==
  /\ launch \in {"application", "browser"}
  /\ listening \in BOOLEAN /\ kicked \in BOOLEAN
  /\ drops \in 0..MaxDrops
  /\ impatient \in BOOLEAN /\ hurried \in BOOLEAN /\ late \in BOOLEAN

Typed == NetType /\ ThreadsType /\ OverType /\ ScreenType /\ OtherType

Alive == app # "crashed"

\* A thread that has yet to make its connection, and one that has made it.
Bound(t) == pc[t] \in {"lost", "join", "parse", "check", "dial"}
Dialling(t) == pc[t] \in {"open", "await"}
IsLive(c) == phase[c] \in Live

WorkersPlaces ==
  \A w \in Workers :
    pc[w] \notin {"destroyDisconnect", "destroyReplace", "stopped", "spinning"}

\* A connection without a future belongs to the thread that will open it.
Dials ==
  /\ \A t \in Threads : Dialling(t) => dialled[t] \in 1..made
  /\ \A t, u \in Threads : Dialling(t) /\ Dialling(u) /\ dialled[t] = dialled[u] => t = u
  /\ \A t \in Threads : pc[t] = "open" => phase[dialled[t]] = "created"
  /\ \A c \in Connections : phase[c] = "created" => \E t \in Threads : pc[t] = "open" /\ dialled[t] = c

\* A service that is to come has no meeting, and one that is joined has one.
Meetings ==
  /\ \A s \in Services : s > service => joined[s] = "none"
  /\ \A t \in Threads : pc[t] \in {"parse", "check"} =>
       joining[t] \in 1..service /\ joined[joining[t]] # "none"

\* The token.
LastOnly == ~impatient => \A c \in Connections : IsLive(c) => c = made

Token ==
  ~impatient =>
    /\ \A t, u \in Threads : Bound(t) /\ Bound(u) => t = u
    /\ \A t \in Threads, c \in Connections : ~(Bound(t) /\ IsLive(c))

\* The holder of the token finds the meeting it has asked for.
OwnMeeting ==
  ~impatient =>
    /\ \A t \in Threads : pc[t] = "check" => joined[joining[t]] \in {"failed", "success"}
    /\ \A t \in Threads : pc[t] \in {"parse", "check", "dial"} /\ joined[service] = "fresh"
         => pc[t] = "parse" /\ joining[t] = service

\* Once the listener is removed.
Leaving ==
  /\ (\E t \in Threads : pc[t] \in Quitting) \/ app # "running" => ~listening
  /\ ~listening => app # "running" \/ \E t \in Threads : pc[t] \in Quitting
  /\ ~listening /\ ~hurried => \A t \in Threads : pc[t] \notin Joining
  /\ ~hurried => \A t \in Threads : pc[t] \in Joining \ {"lost", "join"} => joined[service] # "none"

Closing ==
  /\ ~hurried /\ ~impatient
  /\ app = "ended" \/ \E t \in Threads : pc[t] \in {"replace", "destroyReplace"}
  => \A c \in Connections : ~IsLive(c)

\* Runnables.  Show comes before what its thread posts: before entry n of the
\* queue the dialog was shown, and not taken back by another loss of network.
ShownBefore(n) == created \/ \E j \in 1..(n - 1) : posted[j] = "show"

ShownSince(n) ==
  \/ dialogShown /\ \A k \in 1..(n - 1) : posted[k] # "noNetwork"
  \/ \E j \in 1..(n - 1) : /\ posted[j] = "show"
                           /\ \A k \in (j + 1)..(n - 1) : posted[k] # "noNetwork"

ShownFirst ==
  /\ \A n \in 1..Len(posted) : posted[n] = "reconnected" => ShownBefore(n)
  /\ (\E w \in Workers : pc[w] # "idle") => ShownBefore(Len(posted) + 1)

ShownAgain ==
  ~impatient =>
    /\ \A n \in 1..Len(posted) : posted[n] = "noNetwork" => ShownSince(n)
    /\ (\E w \in Workers : pc[w] = "lost") => ShownSince(Len(posted) + 1)

\* What the screen shows when the queue has run.
Orderly == listening /\ ~late /\ ~impatient

IconOf(task) ==
  CASE task = "show" -> "reconnecting"
    [] task = "noNetwork" -> "disconnected"
    [] OTHER -> "connected"

LastIcon == IF posted = <<>> THEN icon ELSE IconOf(posted[Len(posted)])

DialogStays ==
  \/ dialog /\ \A k \in 1..Len(posted) : posted[k] = "connected"
  \/ \E j \in 1..Len(posted) : /\ posted[j] = "show"
                               /\ \A k \in (j + 1)..Len(posted) : posted[k] = "connected"

\* A dialog that would stay has a thread at work that will post its end.
DialogHasReason ==
  listening /\ pc[Ui] # "spinning" /\ DialogStays => \E w \in Workers : pc[w] # "idle"

\* Who is connected will see it, late losses or not.
SeenConnected ==
  listening /\ ~impatient /\ (\E c \in Connections : phase[c] = "announced")
    => LastIcon = "connected"

\* Who will see it is connected, or was when the thread that saw it went on.
Upright ==
  Orderly /\ LastIcon = "connected" => \E c \in Connections : phase[c] \in {"open", "announced"}

\* A reconnection thread has a loss behind it.
LossFirst ==
  (\E w \in Workers : pc[w] # "idle") => \E c \in Connections : phase[c] = "closed"

\* A worker that waits holds on to its connection, and to the token if that failed.
Waiting ==
  Orderly =>
    /\ \A w \in Workers : pc[w] = "await" => phase[dialled[w]] # "closed"
    /\ \A w \in Workers : pc[w] = "await" /\ phase[dialled[w]] = "failed" =>
         /\ \A t \in Threads : ~Bound(t)
         /\ \A c \in Connections : ~IsLive(c)
    /\ \A v, w \in Workers : pc[v] # "idle" /\ pc[w] # "idle" => v = w

IInv ==
  /\ Typed /\ CrashCauses /\ SpinsOnlyAfterImpatience /\ LastOnly
  /\ Alive => /\ WorkersPlaces /\ Dials /\ Meetings /\ Token /\ OwnMeeting
              /\ Leaving /\ Closing /\ ShownFirst /\ ShownAgain /\ Waiting /\ Upright
              /\ DialogHasReason /\ SeenConnected /\ LossFirst
-----------------------------------------------------------------------------
\* Queues of runnables: one more at the end, one less in front.
LEMMA OneMore ==
  ASSUME NEW S, NEW q \in Seq(S), NEW x \in S
  PROVE  /\ Append(q, x) \in Seq(S)
         /\ Len(q) \in Nat /\ Len(Append(q, x)) = Len(q) + 1
         /\ \A i \in 1..Len(q) : Append(q, x)[i] = q[i]
         /\ Append(q, x)[Len(q) + 1] = x
OBVIOUS

LEMMA OneLess ==
  ASSUME NEW S, NEW q \in Seq(S), q # <<>>
  PROVE  /\ Tail(q) \in Seq(S) /\ Head(q) = q[1] /\ Head(q) \in S
         /\ Len(q) \in Nat \ {0} /\ Len(Tail(q)) = Len(q) - 1
         /\ \A i \in 1..(Len(q) - 1) : Tail(q)[i] = q[i + 1]
OBVIOUS

\* Numbers.
LEMMA Bounds ==
  /\ \A c \in Connections : c \in Nat \ {0}
  /\ \A s \in Services : s \in Nat
  /\ 1 \in Services
BY ReconnectionAssumption DEF Connections, Services

\* The five parts are the type invariant.
LEMMA TypeOKIsTyped ==
  Typed => TypeOK
BY DEF Typed, NetType, ThreadsType, OverType, ScreenType, OtherType, TypeOK, Tasks, Phases, Places
-----------------------------------------------------------------------------

\* One thread joins, and nothing else has happened.
LEMMA InitIInv == Init => IInv
<1> SUFFICES ASSUME Init PROVE IInv
  OBVIOUS
<1> USE Bounds DEF Init, NoConnection, NoService
<1>1. Typed
  <2>1. pc \in [Threads -> Places]
    BY DEF Threads, Places, Joining
  <2>2. \A c \in Connections : phase[c] = "none" /\ c > made
    BY DEF Connections
  <2>3. NetType
    BY <2>2, ReconnectionAssumption DEF NetType, Phases
  <2>4. ThreadsType
    BY <2>1 DEF ThreadsType
  <2>5. OverType
    BY DEF OverType
  <2>7. OtherType
    <3>1. drops \in 0..MaxDrops
      BY ReconnectionAssumption
    <3> QED
      BY <3>1 DEF OtherType
  <2>6. ScreenType
    <3>1. posted \in Seq(Tasks)
      OBVIOUS
    <3> QED
      BY <3>1 DEF ScreenType
  <2> QED
    BY <2>3, <2>4, <2>5, <2>6, <2>7 DEF Typed
<1>2. CrashCauses /\ SpinsOnlyAfterImpatience /\ LastOnly
  BY ReconnectionAssumption DEF CrashCauses, SpinsOnlyAfterImpatience, LastOnly, IsLive, Live, Threads
<1>3. \A t \in Threads : pc[t] = "join" <=> t = Ui
  BY DEF Threads
<1>4. WorkersPlaces /\ Dials /\ Meetings /\ OwnMeeting
  BY <1>3 DEF WorkersPlaces, Dials, Dialling, Meetings, OwnMeeting, Threads
<1>5. Token /\ Leaving /\ Closing
  BY <1>3 DEF Token, Bound, IsLive, Live, Leaving, Closing, Quitting, Joining
<1>6. \A w \in Workers : pc[w] = "idle"
  BY <1>3, ReconnectionAssumption DEF Threads
<1>7. ShownFirst /\ ShownAgain
  BY <1>6 DEF ShownFirst, ShownAgain
<1>8. Waiting /\ Upright /\ DialogHasReason /\ SeenConnected /\ LossFirst
  BY <1>6 DEF Waiting, Upright, DialogHasReason, SeenConnected, LossFirst, LastIcon, DialogStays
<1> QED
  BY <1>1, <1>2, <1>4, <1>5, <1>7, <1>8 DEF IInv
-----------------------------------------------------------------------------
(* What a step does, alternative by alternative. *)

\* The UI thread and the workers are different threads.
LEMMA UiIsThread == Ui \in Threads /\ Workers \subseteq Threads /\ Ui \notin Workers
BY ReconnectionAssumption DEF Threads

\* The app ends.
Crashes(t) ==
  /\ Alive /\ app' = "crashed"
  /\ \/ crash' = "joinFailed" /\ t \in Workers /\ pc[t] \in Joining \ {"lost"}
     \/ /\ crash' = "noMeeting" /\ joined[service] = "none"
        /\ pc[t] \in Joining \ {"lost", "join"}
     \/ /\ crash' = "halfJoined"
        /\ \/ pc[t] = "check" /\ joined[joining[t]] = "fresh"
           \/ pc[t] = "dial" /\ joined[service] = "fresh"
     \/ /\ crash' = "noFuture" /\ main # NoConnection /\ phase[main] = "created"
        /\ pc[t] \in Quitting
  /\ joining' \in {joining, [joining EXCEPT ![t] = NoService]}
  /\ dialled' \in {dialled, [dialled EXCEPT ![t] = NoConnection]}
  /\ UNCHANGED <<launch, net, kicked, pc, screen, drops, history>>

\* join() has its meeting, and fills it.
Asks(t) ==
  /\ pc[t] = "join" /\ Goto(t, "parse")
  /\ joined' = [joined EXCEPT ![service] = "fresh"]
  /\ joining' = [joining EXCEPT ![t] = service]
  /\ UNCHANGED <<launch, service, main, phase, made, listening, kicked, dialled, over, screen,
                 drops, history>>

Answers(t) ==
  /\ pc[t] = "parse" /\ Goto(t, "check")
  /\ \E answer \in {"success", "failed"} : joined' = [joined EXCEPT ![joining[t]] = answer]
  /\ UNCHANGED <<launch, service, main, phase, made, listening, kicked, joining, dialled, over,
                 screen, drops, history>>

\* joinAndConnect() returns false, on the UI thread.
GivesUp(t) ==
  /\ t = Ui /\ pc[t] \in {"join", "parse", "check", "await"} /\ Goto(t, "idle")
  /\ joining' \in {joining, [joining EXCEPT ![t] = NoService]}
  /\ dialled' \in {dialled, [dialled EXCEPT ![t] = NoConnection]}
  /\ UNCHANGED <<launch, net, kicked, over, screen, drops, history>>

Goes(t) ==
  /\ pc[t] = "check" /\ joined[joining[t]] = "success" /\ Goto(t, "dial")
  /\ joining' = [joining EXCEPT ![t] = NoService]
  /\ UNCHANGED <<launch, net, kicked, dialled, over, screen, drops, history>>

Makes(t) ==
  /\ pc[t] = "dial" /\ Goto(t, "open")
  /\ made < MaxConnections /\ made' = made + 1 /\ main' = made'
  /\ phase' = [phase EXCEPT ![made + 1] = "created"]
  /\ dialled' = [dialled EXCEPT ![t] = made + 1]
  /\ UNCHANGED <<launch, service, joined, listening, kicked, joining, over, screen, drops, history>>

\* joinAndConnect() returns true.
Joins(t) ==
  /\ pc[t] = "await" /\ phase[dialled[t]] \notin {"connecting", "failed"} /\ Goto(t, "idle")
  /\ dialled' = [dialled EXCEPT ![t] = NoConnection]
  /\ posted' = IF t = Ui THEN posted ELSE Append(posted, "reconnected")
  /\ UNCHANGED <<launch, net, kicked, joining, over, dialog, dialogShown, created, icon, offered,
                 drops, history>>

\* quit() has closed the connection.
Parts(t) ==
  /\ \/ pc[t] = "disconnect" /\ Goto(t, "replace")
     \/ pc[t] = "destroyDisconnect" /\ Goto(t, "destroyReplace")
  /\ \/ main = NoConnection /\ UNCHANGED phase
     \/ /\ main # NoConnection /\ phase[main] # "created"
        /\ \E end \in {"failed", "closed"} :
             phase' = [phase EXCEPT ![main] = end] /\ (phase[main] = "closed" => end = "closed")
  /\ UNCHANGED <<launch, service, joined, main, made, listening, kicked, joining, dialled, over,
                 screen, drops, history>>

\* The two ends of an open connection: it is announced, or it is lost.
Announces(c) ==
  /\ phase[c] = "open"
  /\ phase' = [phase EXCEPT ![c] = "announced"]
  /\ posted' = IF listening THEN Append(posted, "connected") ELSE posted
  /\ UNCHANGED <<launch, service, joined, main, made, listening, kicked, threads, over,
                 dialog, dialogShown, created, icon, offered, drops, history>>

Loses(c) ==
  /\ phase[c] \in {"open", "announced"}
  /\ phase' = [phase EXCEPT ![c] = "closed"]
  /\ \/ /\ listening /\ posted' = Append(posted, "show")
        /\ \E w \in Workers : pc[w] = "idle" /\ Goto(w, "lost")
     \/ ~listening /\ UNCHANGED <<posted, pc>>
  /\ late' = (late \/ \E w \in Workers : pc[w] = "await" /\ dialled[w] = c)
  /\ drops' \in {drops, drops + 1} /\ drops' <= MaxDrops
  /\ UNCHANGED <<launch, service, joined, main, made, listening, kicked, joining, dialled, over,
                 dialog, dialogShown, created, icon, offered, impatient, hurried>>

\* The user opens the menu, closes the dialog or is told to leave.
Looks ==
  /\ kicked' \in BOOLEAN /\ offered' \in BOOLEAN /\ dialog' \in {dialog, FALSE}
  /\ UNCHANGED <<launch, net, threads, over, posted, dialogShown, created, icon, drops, history>>

\* The UI thread takes a runnable.
Runs ==
  /\ pc[Ui] = "idle" /\ posted # <<>> /\ posted' = Tail(posted) /\ icon' = IconOf(Head(posted))
  /\ \/ /\ Head(posted) = "show" /\ dialog' = TRUE /\ created' = TRUE /\ dialogShown' = TRUE
        /\ UNCHANGED pc
     \/ Head(posted) = "connected" /\ UNCHANGED <<dialog, dialogShown, created, pc>>
     \/ /\ Head(posted) = "reconnected" /\ created /\ dialog' = FALSE
        /\ UNCHANGED <<dialogShown, created, pc>>
     \/ /\ Head(posted) = "noNetwork" /\ dialogShown /\ dialog' = FALSE /\ dialogShown' = FALSE
        /\ UNCHANGED <<created, pc>>
     \/ /\ Head(posted) = "noNetwork" /\ impatient /\ Goto(Ui, "spinning")
        /\ UNCHANGED <<dialog, dialogShown, created>>
  /\ UNCHANGED <<launch, net, kicked, joining, dialled, over, offered, drops, history>>

ThreadDoes(t) ==
  \/ Crashes(t) \/ Asks(t) \/ Answers(t) \/ GivesUp(t) \/ Goes(t) \/ Makes(t) \/ Open(t)
  \/ Joins(t) \/ Reconnect(t) \/ Parts(t) \/ Replace(t) \/ StartQuit(t)

ChannelDoes(c) == Established(c) \/ Announces(c) \/ Loses(c)

ScreenDoes == Looks \/ ChooseReconnect \/ Runs

\* How each handler of the code is one of these alternatives.
LEMMA FailCases ==
  ASSUME NEW t \in Threads, Fail(t)
  PROVE  \/ /\ t \in Workers
            /\ app' = "crashed" /\ crash' = "joinFailed" /\ UNCHANGED <<pc, screen>>
         \/ /\ joined[service] = "none" /\ launch = "browser"
            /\ app' = "crashed" /\ crash' = "noMeeting" /\ UNCHANGED <<pc, screen>>
         \/ t = Ui /\ Goto(t, "idle") /\ UNCHANGED <<over, screen>>
BY DEF Fail, Crash

LEMMA JoinRequestDoes ==
  ASSUME Alive, NEW t \in Threads, JoinRequest(t)
  PROVE  Crashes(t) \/ Asks(t) \/ GivesUp(t)
<1>1. CASE launch = "application" /\ service # 1
  <2>1. Fail(t) /\ pc[t] = "join" /\ launch = "application"
        /\ UNCHANGED <<launch, net, kicked, joining, dialled, drops, history>>
    BY <1>1 DEF JoinRequest, net
  <2> QED
    BY <2>1, FailCases DEF Crashes, GivesUp, Joining
<1>2. CASE ~(launch = "application" /\ service # 1)
  BY <1>2 DEF JoinRequest, Asks
<1> QED
  BY <1>1, <1>2

LEMMA ParseDoes ==
  ASSUME Alive, NEW t \in Threads, Parse(t)
  PROVE  Crashes(t) \/ Answers(t) \/ GivesUp(t)
<1>1. CASE Fail(t) /\ joining' = [joining EXCEPT ![t] = NoService] /\ UNCHANGED joined
  <2>1. /\ pc[t] = "parse" /\ pc[t] \in Joining \ {"lost", "join"}
        /\ UNCHANGED <<launch, net, kicked, dialled, drops, history>>
    BY <1>1 DEF Parse, net, Joining
  <2> QED
    BY <1>1, <2>1, FailCases DEF Crashes, GivesUp
<1>2. CASE ~(Fail(t) /\ joining' = [joining EXCEPT ![t] = NoService] /\ UNCHANGED joined)
  BY <1>2 DEF Parse, Answers
<1> QED
  BY <1>1, <1>2

LEMMA CheckDoes ==
  ASSUME Alive, NEW t \in Threads, Check(t), joined[joining[t]] \in {"fresh", "failed", "success"}
  PROVE  Crashes(t) \/ Goes(t) \/ GivesUp(t)
<1>1. /\ pc[t] = "check" /\ pc[t] \in Joining \ {"lost", "join"}
      /\ joining' = [joining EXCEPT ![t] = NoService]
      /\ UNCHANGED <<launch, net, kicked, dialled, drops, history>>
  BY DEF Check, Joining
<1>2. CASE joined[joining[t]] = "fresh"
  BY <1>1, <1>2 DEF Check, Crash, Crashes
<1>3. CASE joined[joining[t]] = "failed"
  <2>1. Fail(t)
    BY <1>3 DEF Check
  <2> QED
    BY <1>1, <2>1, FailCases DEF Crashes, GivesUp
<1>4. CASE joined[joining[t]] = "success"
  BY <1>1, <1>4 DEF Check, Goes
<1> QED
  BY <1>2, <1>3, <1>4

LEMMA DialDoes ==
  ASSUME Alive, NEW t \in Threads, Dial(t)
  PROVE  Crashes(t) \/ Makes(t)
<1>1. /\ pc[t] = "dial" /\ pc[t] \in Joining \ {"lost", "join"}
      /\ UNCHANGED <<launch, kicked, joining, drops, history>>
  BY DEF Dial, Joining
<1>2. CASE joined[service] = "none"
  BY <1>1, <1>2 DEF Dial, Crash, Crashes
<1>3. CASE joined[service] = "fresh" /\ launch = "browser"
  BY <1>1, <1>3 DEF Dial, Crash, Crashes
<1>4. CASE joined[service] # "none" /\ ~(joined[service] = "fresh" /\ launch = "browser")
  BY <1>1, <1>4 DEF Dial, Adopt, Makes
<1> QED
  BY <1>2, <1>3, <1>4

LEMMA AwaitDoes ==
  ASSUME Alive, NEW t \in Threads, Await(t)
  PROVE  Crashes(t) \/ Joins(t) \/ GivesUp(t)
<1>1. /\ pc[t] = "await" /\ pc[t] \in Joining \ {"lost", "join"}
      /\ dialled' = [dialled EXCEPT ![t] = NoConnection]
      /\ UNCHANGED <<launch, net, kicked, joining, drops, history>>
  BY DEF Await, Joining
<1>2. CASE phase[dialled[t]] = "failed"
  <2>1. Fail(t)
    BY <1>2 DEF Await
  <2> QED
    BY <1>1, <2>1, FailCases DEF Crashes, GivesUp
<1>3. CASE phase[dialled[t]] # "failed"
  BY <1>1, <1>3 DEF Await, Joins
<1> QED
  BY <1>2, <1>3

LEMMA DisconnectDoes ==
  ASSUME Alive, NEW t \in Threads, Disconnect(t), NetType
  PROVE  Crashes(t) \/ Parts(t)
<1>1. /\ pc[t] \in {"disconnect", "destroyDisconnect"} /\ pc[t] \in Quitting
      /\ UNCHANGED <<launch, service, joined, main, made, listening, kicked, joining, dialled,
                     drops, history>>
  BY DEF Disconnect, Quitting
<1>2. CASE main # NoConnection /\ phase[main] = "created"
  <2>1. Crash("noFuture") /\ UNCHANGED phase
    BY <1>2 DEF Disconnect
  <2> QED
    BY <1>1, <1>2, <2>1 DEF Crash, Crashes, net
<1>3. CASE ~(main # NoConnection /\ phase[main] = "created")
  <2>1. AfterDisconnect(t) /\ UNCHANGED <<over, screen>>
    BY <1>3 DEF Disconnect
  <2>2. \/ main = NoConnection /\ UNCHANGED phase
        \/ /\ main # NoConnection
           /\ \E end \in {"failed", "closed"} :
                phase' = [phase EXCEPT ![main] = end] /\ (phase[main] = "closed" => end = "closed")
    <3>1. CASE main = NoConnection
      BY <1>3, <3>1 DEF Disconnect
    <3>2. CASE main # NoConnection
      <4>1. phase' = [phase EXCEPT ![main] =
                        IF phase[main] \in {"connecting", "failed"} THEN "failed" ELSE "closed"]
        BY <1>3, <3>2 DEF Disconnect
      <4> QED
        BY <3>2, <4>1
    <3> QED
      BY <3>1, <3>2
  <2> QED
    BY <1>1, <1>3, <2>1, <2>2 DEF AfterDisconnect, Goto, Parts
<1> QED
  BY <1>2, <1>3

LEMMA DisconnectedLoses ==
  ASSUME NEW c \in Connections, phase[c] \in {"open", "announced"}, Disconnected(c),
         drops' \in {drops, drops + 1}, drops' <= MaxDrops
  PROVE  Loses(c)
BY DEF Disconnected, Closed, PostShow, Loses

LEMMA RunPostedDoes ==
  ASSUME RunPosted, ScreenType, ShownFirst, ShownAgain, impatient \in BOOLEAN
  PROVE  Runs
<1>1. /\ pc[Ui] = "idle" /\ posted # <<>> /\ posted' = Tail(posted)
      /\ UNCHANGED <<launch, net, kicked, joining, dialled, offered, drops, history>>
  BY DEF RunPosted
<1>2. /\ Head(posted) \in Tasks /\ Head(posted) = posted[1] /\ Len(posted) \in Nat \ {0}
  BY <1>1, OneLess DEF ScreenType
<1>3. CASE Head(posted) = "show"
  BY <1>1, <1>3 DEF RunPosted, Show, Runs, IconOf
<1>4. CASE Head(posted) = "connected"
  BY <1>1, <1>4 DEF RunPosted, ShowConnected, Runs, IconOf
<1>5. CASE Head(posted) = "reconnected"
  <2>1. created
    BY <1>2, <1>5 DEF ShownFirst, ShownBefore
  <2>2. Reconnected
    BY <1>5 DEF RunPosted
  <2> QED
    BY <1>1, <1>5, <2>1, <2>2 DEF Reconnected, Runs, IconOf
<1>6. CASE Head(posted) = "noNetwork"
  <2>1. impatient \/ dialogShown
    BY <1>2, <1>6 DEF ShownAgain, ShownSince
  <2>2. NoNetwork
    BY <1>6 DEF RunPosted
  <2>3. CASE dialogShown
    BY <1>1, <1>6, <2>2, <2>3 DEF NoNetwork, Runs, IconOf
  <2>4. CASE ~dialogShown
    BY <1>1, <1>6, <2>1, <2>2, <2>4 DEF NoNetwork, Runs, IconOf
  <2> QED
    BY <2>3, <2>4
<1> QED
  BY <1>2, <1>3, <1>4, <1>5, <1>6 DEF Tasks

\* Next, alternative by alternative.
LEMMA Steps ==
  ASSUME IInv, Next
  PROVE  /\ Alive
         /\ \/ \E t \in Threads : ThreadDoes(t)
            \/ \E c \in Connections : ChannelDoes(c)
            \/ ScreenDoes
<1>1. Alive
  BY DEF Next, Alive
<1>2. /\ NetType /\ ThreadsType /\ ScreenType /\ Meetings /\ ShownFirst /\ ShownAgain
      /\ impatient \in BOOLEAN /\ drops \in 0..MaxDrops
      /\ kicked \in BOOLEAN /\ offered \in BOOLEAN
  BY <1>1 DEF IInv, Typed, OtherType, ScreenType
<1>3. ASSUME NEW t \in Threads, ThreadStep(t) PROVE ThreadDoes(t)
  <2>1. CASE JoinRequest(t) \/ Parse(t) \/ Dial(t) \/ Await(t) \/ Disconnect(t)
    BY <1>1, <1>2, <2>1, JoinRequestDoes, ParseDoes, DialDoes, AwaitDoes, DisconnectDoes
       DEF ThreadDoes
  <2>2. CASE Check(t)
    <3>1. pc[t] = "check"
      BY <2>2 DEF Check
    <3>2. joining[t] \in Services /\ joined[joining[t]] # "none"
      <4>1. joining[t] \in 1..service /\ joined[joining[t]] # "none"
        BY <1>2, <3>1 DEF Meetings
      <4> QED
        BY <1>2, <4>1, ReconnectionAssumption DEF NetType, Services
    <3>3. joined[joining[t]] \in {"fresh", "failed", "success"}
      BY <1>2, <3>2 DEF NetType
    <3> QED
      BY <1>1, <2>2, <3>3, CheckDoes DEF ThreadDoes
  <2> QED
    BY <1>3, <2>1, <2>2 DEF ThreadStep, ThreadDoes
<1>4. ASSUME NEW c \in Connections, ChannelConnected(c) PROVE ChannelDoes(c)
  <2>1. CASE Disconnected(c)
    <3>1. phase[c] = "open" /\ drops' = drops
      BY <1>4 DEF ChannelConnected
    <3> QED
      BY <1>2, <2>1, <3>1, ReconnectionAssumption, DisconnectedLoses DEF ChannelDoes
  <2>2. CASE ~Disconnected(c)
    BY <1>4, <2>2 DEF ChannelConnected, ChannelDoes, Announces
  <2> QED
    BY <2>1, <2>2
<1>5. ASSUME NEW c \in Connections, Drop(c) PROVE ChannelDoes(c)
  <2>1. drops' <= MaxDrops
    BY <1>2, <1>5, ReconnectionAssumption DEF Drop
  <2> QED
    BY <1>5, <2>1, DisconnectedLoses DEF Drop, ChannelDoes
<1>6. ASSUME NEW c \in Connections, Kick(c) PROVE Looks
  BY <1>2, <1>6 DEF Kick, Looks, screen
<1>7. ASSUME OpenMenu PROVE Looks
  BY <1>2, <1>7 DEF OpenMenu, Looks
<1>8. ASSUME CancelDialog PROVE Looks
  BY <1>2, <1>8 DEF CancelDialog, Looks
<1>9. ASSUME RunPosted PROVE Runs
  BY <1>2, <1>9, RunPostedDoes
<1>10. ASSUME StartQuit(Ui) PROVE \E t \in Threads : ThreadDoes(t)
  BY <1>10, UiIsThread DEF ThreadDoes
<1>11. ASSUME NEW c \in Connections, ChannelStep(c) PROVE ChannelDoes(c)
  BY <1>4, <1>11 DEF ChannelStep, ChannelDoes
<1> QED
  BY <1>1, <1>3, <1>5, <1>6, <1>7, <1>8, <1>9, <1>10, <1>11 DEF Next, Environment, ScreenDoes
-----------------------------------------------------------------------------
(* While the listener is in place and no loss came early or with impatience. *)

\* A thread that waits has a connection that was opened.
LEMMA AwaitedPhase ==
  ASSUME IInv, Alive, NEW t \in Threads, pc[t] = "await"
  PROVE  /\ dialled[t] \in Connections
         /\ phase[dialled[t]] \in {"connecting", "open", "announced", "failed", "closed"}
<1>1. /\ Dials /\ phase \in [Connections -> Phases] /\ made \in 0..MaxConnections
      /\ \A c \in Connections : phase[c] = "none" <=> c > made
  BY DEF IInv, Typed, NetType
<1>2. dialled[t] \in 1..made
  BY <1>1 DEF Dials, Dialling
<1>3. dialled[t] \in Connections /\ phase[dialled[t]] # "none"
  BY <1>1, <1>2, ReconnectionAssumption DEF Connections
<1>4. phase[dialled[t]] # "created"
  <2>1. SUFFICES ASSUME phase[dialled[t]] = "created" PROVE FALSE
    OBVIOUS
  <2>2. PICK u \in Threads : pc[u] = "open" /\ dialled[u] = dialled[t]
    BY <1>1, <1>3, <2>1 DEF Dials
  <2> QED
    BY <1>1, <2>2 DEF Dials, Dialling
<1> QED
  BY <1>1, <1>3, <1>4 DEF Phases, Live

\* A worker at work while a connection is open waits for that connection.
LEMMA BusyWithIt ==
  ASSUME IInv, Alive, Orderly, NEW c \in Connections, phase[c] \in {"open", "announced"},
         NEW w \in Workers, pc[w] # "idle"
  PROVE  pc[w] = "await" /\ dialled[w] = c
<1>1. /\ Typed /\ WorkersPlaces /\ Dials /\ Token /\ LastOnly /\ Leaving /\ Waiting
      /\ listening /\ ~late /\ ~impatient /\ w \in Threads
  BY UiIsThread DEF IInv, Orderly
<1>2. IsLive(c) /\ c = made
  BY <1>1 DEF IsLive, Live, LastOnly
<1>3. ~Bound(w)
  BY <1>1, <1>2 DEF Token
<1>4. pc[w] \in {"open", "await"}
  <2>1. pc[w] \notin Quitting
    BY <1>1 DEF Leaving
  <2>2. pc[w] \in Places
    BY <1>1 DEF Typed, ThreadsType
  <2> QED
    BY <1>1, <1>3, <2>1, <2>2 DEF Places, Joining, Quitting, Bound, WorkersPlaces
<1>5. pc[w] # "open"
  <2>1. SUFFICES ASSUME pc[w] = "open" PROVE FALSE
    OBVIOUS
  <2>2. dialled[w] \in 1..made /\ phase[dialled[w]] = "created"
    BY <1>1, <2>1 DEF Dials, Dialling
  <2>3. dialled[w] \in Connections
    BY <1>1, <2>2, ReconnectionAssumption DEF Typed, NetType, Connections
  <2> QED
    BY <1>1, <1>2, <2>2, <2>3 DEF LastOnly, IsLive, Live
<1>6. pc[w] = "await"
  BY <1>4, <1>5
<1>7. phase[dialled[w]] \notin {"closed", "failed"}
  BY <1>1, <1>2, <1>6 DEF Waiting, Orderly
<1>8. dialled[w] \in Connections /\ IsLive(dialled[w])
  BY <1>1, <1>6, <1>7, AwaitedPhase DEF IsLive, Live
<1> QED
  BY <1>1, <1>2, <1>6, <1>8 DEF LastOnly

\* What spoils the order is remembered.
LEMMA OrderlyBefore ==
  ASSUME IInv, Next, Orderly'
  PROVE  Orderly
<1>1. OtherType
  BY DEF IInv, Typed
<1>2. ASSUME NEW t \in Threads, ThreadDoes(t) PROVE Orderly
  BY <1>1, <1>2
     DEF ThreadDoes, Crashes, Asks, Answers, GivesUp, Goes, Makes, Open, Joins, Reconnect, Parts,
         Replace, StartQuit, net, history, Orderly, OtherType
<1>3. ASSUME NEW c \in Connections, ChannelDoes(c) PROVE Orderly
  BY <1>1, <1>3 DEF ChannelDoes, Established, Announces, Loses, history, Orderly, OtherType
<1>4. ASSUME ScreenDoes PROVE Orderly
  BY <1>1, <1>4 DEF ScreenDoes, Looks, ChooseReconnect, Runs, net, history, Orderly, OtherType
<1> QED
  BY Steps, <1>2, <1>3, <1>4

\* So a loss that comes in time finds no worker at work, and starts one.
LEMMA LossStartsOne ==
  ASSUME IInv, Next, Alive, Orderly', NEW c \in Connections, Loses(c)
  PROVE  /\ \A w \in Workers : pc[w] = "idle"
         /\ posted' = Append(posted, "show")
         /\ \E w \in Workers : pc' = [pc EXCEPT ![w] = "lost"]
         /\ Orderly
<1>1. Orderly
  BY OrderlyBefore
<1>2. ~late' /\ listening /\ phase[c] \in {"open", "announced"}
  BY <1>1 DEF Loses, Orderly
<1>3. ASSUME NEW w \in Workers, pc[w] # "idle" PROVE FALSE
  <2>1. pc[w] = "await" /\ dialled[w] = c
    BY <1>1, <1>2, <1>3, BusyWithIt
  <2> QED
    BY <1>2, <2>1 DEF Loses
<1> QED
  BY <1>1, <1>2, <1>3 DEF Loses, Goto

-----------------------------------------------------------------------------
(* Runnables posted, and taken. *)

\* The queue with one more, and with one less.
LEMMA Posting ==
  ASSUME ScreenType, NEW x \in Tasks, posted' = Append(posted, x)
  PROVE  /\ Len(posted) \in Nat /\ Len(posted') = Len(posted) + 1
         /\ \A n \in 1..Len(posted) : posted'[n] = posted[n]
         /\ posted'[Len(posted) + 1] = x
BY OneMore DEF ScreenType

LEMMA Taking ==
  ASSUME ScreenType, posted # <<>>, posted' = Tail(posted)
  PROVE  /\ Len(posted) \in Nat \ {0} /\ Len(posted') = Len(posted) - 1
         /\ \A n \in 1..(Len(posted) - 1) : posted'[n] = posted[n + 1]
         /\ Head(posted) = posted[1]
BY OneLess DEF ScreenType

\* Show stays before what it was before.
LEMMA PostingShows ==
  ASSUME ScreenType, NEW x \in Tasks, posted' = Append(posted, x),
         UNCHANGED <<created, dialogShown>>
  PROVE  /\ \A n \in 1..(Len(posted) + 1) : ShownBefore(n) => ShownBefore(n)'
         /\ x = "show" \/ ShownBefore(Len(posted) + 1) => ShownBefore(Len(posted) + 1)'
         /\ \A n \in 1..(Len(posted) + 1) : ShownSince(n) => ShownSince(n)'
         /\ x = "show" \/ (x # "noNetwork" /\ ShownSince(Len(posted) + 1))
              => ShownSince(Len(posted) + 1)'
<1>1. /\ Len(posted) \in Nat /\ Len(posted') = Len(posted) + 1
      /\ \A n \in 1..Len(posted) : posted'[n] = posted[n]
      /\ posted'[Len(posted) + 1] = x
  BY Posting
<1>2. ASSUME NEW n \in 1..(Len(posted) + 1), ShownBefore(n) PROVE ShownBefore(n)'
  BY <1>1, <1>2 DEF ShownBefore
<1>3. ASSUME x = "show" \/ ShownBefore(Len(posted) + 1) PROVE ShownBefore(Len(posted) + 1)'
  BY <1>1, <1>3 DEF ShownBefore
<1>4. ASSUME NEW n \in 1..(Len(posted) + 1), ShownSince(n) PROVE ShownSince(n)'
  <2>1. \A k \in 1..(n - 1) : posted'[k] = posted[k]
    BY <1>1
  <2>2. CASE dialogShown /\ \A k \in 1..(n - 1) : posted[k] # "noNetwork"
    BY <2>1, <2>2 DEF ShownSince
  <2>3. ASSUME NEW j \in 1..(n - 1), posted[j] = "show",
               \A k \in (j + 1)..(n - 1) : posted[k] # "noNetwork"
        PROVE  ShownSince(n)'
    <3>1. posted'[j] = "show" /\ \A k \in (j + 1)..(n - 1) : posted'[k] # "noNetwork"
      BY <1>1, <2>1, <2>3
    <3> QED
      BY <3>1 DEF ShownSince
  <2> QED
    BY <1>4, <2>2, <2>3 DEF ShownSince
<1>5. ASSUME x = "show" PROVE ShownSince(Len(posted) + 1)'
  <2>1. /\ Len(posted) + 1 \in 1..(Len(posted') + 1 - 1)
        /\ \A k \in (Len(posted) + 1 + 1)..(Len(posted') + 1 - 1) : posted'[k] # "noNetwork"
    BY <1>1
  <2> QED
    BY <1>1, <1>5, <2>1 DEF ShownSince
<1>6. ASSUME x # "noNetwork", ShownSince(Len(posted) + 1) PROVE ShownSince(Len(posted) + 1)'
  <2>1. CASE dialogShown /\ \A k \in 1..(Len(posted) + 1 - 1) : posted[k] # "noNetwork"
    <3>1. \A k \in 1..(Len(posted') + 1 - 1) : posted'[k] # "noNetwork"
      BY <1>1, <1>6, <2>1
    <3> QED
      BY <2>1, <3>1 DEF ShownSince
  <2>2. ASSUME NEW j \in 1..(Len(posted) + 1 - 1), posted[j] = "show",
               \A k \in (j + 1)..(Len(posted) + 1 - 1) : posted[k] # "noNetwork"
        PROVE  ShownSince(Len(posted) + 1)'
    <3>1. /\ j \in 1..(Len(posted') + 1 - 1) /\ posted'[j] = "show"
          /\ \A k \in (j + 1)..(Len(posted') + 1 - 1) : posted'[k] # "noNetwork"
      BY <1>1, <1>6, <2>2
    <3> QED
      BY <3>1 DEF ShownSince
  <2> QED
    BY <1>6, <2>1, <2>2 DEF ShownSince
<1> QED
  BY <1>2, <1>3, <1>4, <1>5, <1>6

\* Show that is taken has been shown, and NoNetwork alone takes it back.
LEMMA TakingShows ==
  ASSUME ScreenType, Runs, NEW n \in 1..Len(posted)
  PROVE  /\ ShownBefore(n + 1) => ShownBefore(n)'
         /\ ~impatient /\ ShownSince(n + 1) => ShownSince(n)'
<1>1. /\ Len(posted) \in Nat \ {0} /\ Len(posted') = Len(posted) - 1
      /\ \A k \in 1..(Len(posted) - 1) : posted'[k] = posted[k + 1]
      /\ Head(posted) = posted[1]
  BY Taking DEF Runs
<1>2. /\ Head(posted) = "show" => created' /\ dialogShown'
      /\ created => created'
      /\ dialogShown /\ Head(posted) # "noNetwork" => dialogShown'
  BY DEF Runs
<1>3. ASSUME ShownBefore(n + 1) PROVE ShownBefore(n)'
  <2>1. ASSUME NEW j \in 1..(n + 1 - 1), posted[j] = "show", j # 1 PROVE ShownBefore(n)'
    <3>1. j - 1 \in 1..(n - 1) /\ posted'[j - 1] = "show"
      BY <1>1, <2>1
    <3> QED
      BY <3>1 DEF ShownBefore
  <2> QED
    BY <1>1, <1>2, <1>3, <2>1 DEF ShownBefore
<1>4. ASSUME ~impatient, ShownSince(n + 1) PROVE ShownSince(n)'
  <2>1. CASE dialogShown /\ \A k \in 1..(n + 1 - 1) : posted[k] # "noNetwork"
    <3>1. dialogShown' /\ \A k \in 1..(n - 1) : posted'[k] # "noNetwork"
      BY <1>1, <1>2, <2>1
    <3> QED
      BY <3>1 DEF ShownSince
  <2>2. ASSUME NEW j \in 1..(n + 1 - 1), posted[j] = "show",
               \A k \in (j + 1)..(n + 1 - 1) : posted[k] # "noNetwork"
        PROVE  ShownSince(n)'
    <3>1. \A k \in j..(n - 1) : posted'[k] # "noNetwork"
      BY <1>1, <2>2
    <3>2. CASE j = 1
      BY <1>1, <1>2, <2>2, <3>1, <3>2 DEF ShownSince
    <3>3. CASE j # 1
      <4>1. j - 1 \in 1..(n - 1) /\ posted'[j - 1] = "show"
        BY <1>1, <2>2, <3>3
      <4>2. \A k \in (j - 1 + 1)..(n - 1) : posted'[k] # "noNetwork"
        BY <3>1
      <4> QED
        BY <4>1, <4>2 DEF ShownSince
    <3> QED
      BY <3>2, <3>3
  <2> QED
    BY <1>4, <2>1, <2>2 DEF ShownSince
<1> QED
  BY <1>3, <1>4

\* The last runnable decides what the screen will show.
LEMMA PostingScreen ==
  ASSUME ScreenType, NEW x \in Tasks, posted' = Append(posted, x), UNCHANGED <<icon, dialog>>
  PROVE  /\ LastIcon' = IconOf(x)
         /\ DialogStays' => x = "show" \/ (x = "connected" /\ DialogStays)
<1>1. /\ Len(posted) \in Nat /\ Len(posted') = Len(posted) + 1
      /\ \A n \in 1..Len(posted) : posted'[n] = posted[n]
      /\ posted'[Len(posted) + 1] = x
  BY Posting
<1>2. LastIcon' = IconOf(x)
  <2>1. posted' # <<>> /\ posted'[Len(posted')] = x
    BY <1>1
  <2> QED
    BY <2>1 DEF LastIcon, IconOf
<1>3. ASSUME DialogStays', x # "show" PROVE x = "connected" /\ DialogStays
  <2>1. CASE dialog' /\ \A k \in 1..Len(posted') : posted'[k] = "connected"
    <3>1. dialog /\ x = "connected" /\ \A k \in 1..Len(posted) : posted[k] = "connected"
      BY <1>1, <2>1
    <3> QED
      BY <3>1 DEF DialogStays
  <2>2. ASSUME NEW j \in 1..Len(posted'), posted'[j] = "show",
               \A k \in (j + 1)..Len(posted') : posted'[k] = "connected"
        PROVE  x = "connected" /\ DialogStays
    <3>1. j \in 1..Len(posted) /\ posted[j] = "show"
      BY <1>1, <1>3, <2>2
    <3>2. x = "connected" /\ \A k \in (j + 1)..Len(posted) : posted[k] = "connected"
      BY <1>1, <2>2, <3>1
    <3> QED
      BY <3>1, <3>2 DEF DialogStays
  <2> QED
    BY <1>3, <2>1, <2>2 DEF DialogStays
<1> QED
  BY <1>2, <1>3

\* and taking the first one does not change that.
LEMMA TakingScreen ==
  ASSUME ScreenType, ThreadsType, Runs
  PROVE  /\ LastIcon' = LastIcon
         /\ pc'[Ui] # "spinning" /\ DialogStays' => DialogStays
<1>1. /\ Len(posted) \in Nat \ {0} /\ Len(posted') = Len(posted) - 1
      /\ \A k \in 1..(Len(posted) - 1) : posted'[k] = posted[k + 1]
      /\ Head(posted) = posted[1] /\ posted # <<>> /\ posted' \in Seq(Tasks)
  BY Taking, OneLess DEF Runs, ScreenType
<1>2. LastIcon' = LastIcon
  <2>1. CASE posted' = <<>>
    <3>1. Len(posted') = 0
      BY <2>1
    <3>2. posted[Len(posted)] = posted[1] /\ icon' = IconOf(posted[1])
      BY <1>1, <3>1 DEF Runs
    <3> QED
      BY <1>1, <2>1, <3>2 DEF LastIcon, IconOf
  <2>2. CASE posted' # <<>>
    <3>1. Len(posted') \in Nat \ {0}
      BY <1>1, <2>2
    <3>2. posted'[Len(posted')] = posted[Len(posted)]
      BY <1>1, <3>1
    <3> QED
      BY <1>1, <2>2, <3>2 DEF LastIcon, IconOf
  <2> QED
    BY <2>1, <2>2
<1>3. ASSUME pc'[Ui] # "spinning", DialogStays' PROVE DialogStays
  <2>1. CASE dialog' /\ \A k \in 1..Len(posted') : posted'[k] = "connected"
    <3>1. ASSUME NEW k \in 2..Len(posted) PROVE posted[k] = "connected"
      <4>1. k - 1 \in 1..Len(posted') /\ posted'[k - 1] = posted[k]
        BY <1>1
      <4> QED
        BY <2>1, <4>1
    <3>2. posted[1] = "show" \/ (posted[1] = "connected" /\ dialog)
      BY <1>1, <1>3, <2>1, UiIsThread DEF Runs, Goto, ThreadsType
    <3>3. CASE posted[1] = "show"
      BY <1>1, <3>1, <3>3 DEF DialogStays
    <3>4. CASE posted[1] = "connected" /\ dialog
      <4>1. \A k \in 1..Len(posted) : posted[k] = "connected"
        BY <1>1, <3>1, <3>4
      <4> QED
        BY <3>4, <4>1 DEF DialogStays
    <3> QED
      BY <3>2, <3>3, <3>4
  <2>2. ASSUME NEW j \in 1..Len(posted'), posted'[j] = "show",
               \A k \in (j + 1)..Len(posted') : posted'[k] = "connected"
        PROVE  DialogStays
    <3>1. j + 1 \in 1..Len(posted) /\ posted[j + 1] = "show"
      BY <1>1, <2>2
    <3>2. ASSUME NEW k \in (j + 1 + 1)..Len(posted) PROVE posted[k] = "connected"
      <4>1. k - 1 \in (j + 1)..Len(posted') /\ posted'[k - 1] = posted[k]
        BY <1>1
      <4> QED
        BY <2>2, <4>1
    <3> QED
      BY <3>1, <3>2 DEF DialogStays
  <2> QED
    BY <1>3, <2>1, <2>2 DEF DialogStays
<1> QED
  BY <1>2, <1>3

-----------------------------------------------------------------------------
(* The types. *)

\* Services, connections and what became of them.
LEMMA NetTypeKept ==
  ASSUME IInv, Next
  PROVE  NetType'
<1>0. NetType /\ Dials
  BY Steps DEF IInv, Typed
<1>1. CASE \/ \E t \in Threads : Crashes(t) \/ GivesUp(t) \/ Goes(t) \/ Joins(t) \/
                Reconnect(t) \/ StartQuit(t)
           \/ Looks \/ ChooseReconnect \/ Runs
  <2>1. UNCHANGED <<service, joined, main, made, phase>>
    BY <1>1
       DEF Crashes, GivesUp, Goes, Joins, Reconnect, StartQuit, Looks, ChooseReconnect,
           Runs, net, threads, over, screen, history
  <2> QED
    BY <1>0, <2>1 DEF NetType, Phases, Live, Connections, Services
<1>2. ASSUME NEW t \in Threads, Asks(t) PROVE NetType'
  BY <1>0, <1>2, ReconnectionAssumption
     DEF Asks, Goto, NetType, Phases, Live, Connections, Services, over, screen, history
<1>3. ASSUME NEW t \in Threads, Answers(t) PROVE NetType'
  BY <1>0, <1>3, ReconnectionAssumption
     DEF Answers, Goto, NetType, Phases, Live, Connections, Services, over, screen, history
<1>4. ASSUME NEW t \in Threads, Makes(t) PROVE NetType'
  BY <1>0, <1>4, ReconnectionAssumption
     DEF Makes, Goto, NetType, Phases, Live, Connections, Services, over, screen, history
<1>5. ASSUME NEW t \in Threads, Open(t) PROVE NetType'
  <2>1. dialled[t] \in 1..made
    BY <1>0, <1>5 DEF Dials, Dialling, Open
  <2> QED
    BY <1>0, <1>5, <2>1, ReconnectionAssumption DEF Open, NetType, Phases, Live, Connections
<1>6. ASSUME NEW t \in Threads, Parts(t) PROVE NetType'
  <2>1. main # NoConnection => main \in Connections /\ ~(main > made)
    BY <1>0, ReconnectionAssumption DEF NetType, NoConnection, Connections
  <2>2. UNCHANGED <<service, joined, main, made>>
    BY <1>6 DEF Parts
  <2>3. CASE UNCHANGED phase
    BY <1>0, <2>2, <2>3 DEF NetType
  <2>4. ASSUME NEW end \in {"failed", "closed"}, main # NoConnection,
               phase' = [phase EXCEPT ![main] = end]
        PROVE  NetType'
    BY <1>0, <2>1, <2>2, <2>4 DEF NetType, Phases
  <2> QED
    BY <1>6, <2>3, <2>4 DEF Parts
<1>7. ASSUME NEW t \in Threads, Replace(t) PROVE NetType'
  BY <1>0, <1>7, ReconnectionAssumption
     DEF Replace, Goto, NetType, Phases, Live, Connections, Services, screen, history
<1>8. ASSUME NEW c \in Connections, Established(c) PROVE NetType'
  BY <1>0, <1>8, ReconnectionAssumption
     DEF Established, NetType, Phases, Live, Connections, Services, threads, over, screen,
         history
<1>9. ASSUME NEW c \in Connections, Announces(c) PROVE NetType'
  BY <1>0, <1>9, ReconnectionAssumption
     DEF Announces, NetType, Phases, Live, Connections, Services, threads, over, history
<1>10. ASSUME NEW c \in Connections, Loses(c) PROVE NetType'
  BY <1>0, <1>10, ReconnectionAssumption
     DEF Loses, Goto, NetType, Phases, Live, Connections, Services, over
<1> QED
  <2>1. ASSUME NEW t \in Threads, ThreadDoes(t) PROVE NetType'
    BY <2>1, <1>1, <1>2, <1>3, <1>4, <1>5, <1>6, <1>7 DEF ThreadDoes
  <2>2. ASSUME NEW c \in Connections, ChannelDoes(c) PROVE NetType'
    BY <2>2, <1>1, <1>8, <1>9, <1>10 DEF ChannelDoes
  <2>3. ASSUME ScreenDoes PROVE NetType'
    BY <2>3, <1>1 DEF ScreenDoes
  <2> QED
    BY Steps, <2>1, <2>2, <2>3

\* Where the threads are, and what they hold.
LEMMA ThreadsTypeKept ==
  ASSUME IInv, Next
  PROVE  ThreadsType'
<1>0. NetType /\ ThreadsType
  BY Steps DEF IInv, Typed
<1>1. CASE \/ \E c \in Connections : Established(c) \/ Announces(c)
           \/ Looks
  <2>1. UNCHANGED <<pc, joining, dialled>>
    BY <1>1 DEF Established, Announces, Looks, net, threads, over, screen, history
  <2> QED
    BY <1>0, <2>1
       DEF ThreadsType, NetType, Places, Joining, Quitting, Connections, Services,
           NoService, NoConnection
<1>2. ASSUME NEW t \in Threads, Asks(t) PROVE ThreadsType'
  BY <1>0, <1>2, UiIsThread, ReconnectionAssumption
     DEF Asks, Goto, ThreadsType, NetType, Places, Joining, Quitting, Connections,
         Services, NoService, NoConnection, over, screen, history
<1>3. ASSUME NEW t \in Threads, Answers(t) PROVE ThreadsType'
  BY <1>0, <1>3, UiIsThread, ReconnectionAssumption
     DEF Answers, Goto, ThreadsType, NetType, Places, Joining, Quitting, Connections,
         Services, NoService, NoConnection, over, screen, history
<1>4. ASSUME NEW t \in Threads, GivesUp(t) PROVE ThreadsType'
  BY <1>0, <1>4, UiIsThread, ReconnectionAssumption
     DEF GivesUp, Goto, ThreadsType, NetType, Places, Joining, Quitting, Connections,
         Services, NoService, NoConnection, net, over, screen, history
<1>5. ASSUME NEW t \in Threads, Goes(t) PROVE ThreadsType'
  BY <1>0, <1>5, UiIsThread, ReconnectionAssumption
     DEF Goes, Goto, ThreadsType, NetType, Places, Joining, Quitting, Connections,
         Services, NoService, NoConnection, net, over, screen, history
<1>6. ASSUME NEW t \in Threads, Makes(t) PROVE ThreadsType'
  BY <1>0, <1>6, UiIsThread, ReconnectionAssumption
     DEF Makes, Goto, ThreadsType, NetType, Places, Joining, Quitting, Connections,
         Services, NoService, NoConnection, over, screen, history
<1>7. ASSUME NEW t \in Threads, Open(t) PROVE ThreadsType'
  BY <1>0, <1>7, UiIsThread, ReconnectionAssumption
     DEF Open, Goto, ThreadsType, NetType, Places, Joining, Quitting, Connections,
         Services, NoService, NoConnection, over, screen, history
<1>8. ASSUME NEW t \in Threads, Joins(t) PROVE ThreadsType'
  BY <1>0, <1>8, UiIsThread, ReconnectionAssumption
     DEF Joins, Goto, ThreadsType, NetType, Places, Joining, Quitting, Connections,
         Services, NoService, NoConnection, net, over, history
<1>9. ASSUME NEW t \in Threads, Reconnect(t) PROVE ThreadsType'
  BY <1>0, <1>9, UiIsThread, ReconnectionAssumption
     DEF Reconnect, Goto, ThreadsType, NetType, Places, Joining, Quitting, Connections,
         Services, NoService, NoConnection, net, over, history
<1>10. ASSUME NEW t \in Threads, Parts(t) PROVE ThreadsType'
  BY <1>0, <1>10, UiIsThread, ReconnectionAssumption
     DEF Parts, Goto, ThreadsType, NetType, Places, Joining, Quitting, Connections,
         Services, NoService, NoConnection, over, screen, history
<1>11. ASSUME NEW t \in Threads, Replace(t) PROVE ThreadsType'
  BY <1>0, <1>11, UiIsThread, ReconnectionAssumption
     DEF Replace, Goto, ThreadsType, NetType, Places, Joining, Quitting, Connections,
         Services, NoService, NoConnection, screen, history
<1>12. ASSUME NEW t \in Threads, StartQuit(t) PROVE ThreadsType'
  BY <1>0, <1>12, UiIsThread, ReconnectionAssumption
     DEF StartQuit, Goto, ThreadsType, NetType, Places, Joining, Quitting, Connections,
         Services, NoService, NoConnection, over, screen
<1>13. ASSUME NEW c \in Connections, Loses(c) PROVE ThreadsType'
  BY <1>0, <1>13, UiIsThread, ReconnectionAssumption
     DEF Loses, Goto, ThreadsType, NetType, Places, Joining, Quitting, Connections,
         Services, NoService, NoConnection, over
<1>14. CASE ChooseReconnect
  BY <1>0, <1>14, UiIsThread, ReconnectionAssumption
     DEF ChooseReconnect, Goto, ThreadsType, NetType, Places, Joining, Quitting,
         Connections, Services, NoService, NoConnection, UiFree, net, over
<1>15. CASE Runs
  BY <1>0, <1>15, UiIsThread, ReconnectionAssumption
     DEF Runs, Goto, ThreadsType, NetType, Places, Joining, Quitting, Connections,
         Services, NoService, NoConnection, net, over, history
<1>16. ASSUME NEW t \in Threads, Crashes(t) PROVE ThreadsType'
  BY <1>0, <1>16, UiIsThread, ReconnectionAssumption
     DEF Crashes, ThreadsType, NetType, Places, Joining, Quitting, Connections, Services,
         NoService, NoConnection, net, screen, history
<1> QED
  <2>1. ASSUME NEW t \in Threads, ThreadDoes(t) PROVE ThreadsType'
    BY <2>1, <1>1, <1>2, <1>3, <1>4, <1>5, <1>6, <1>7, <1>8, <1>9, <1>10, <1>11, <1>12,
       <1>16
       DEF ThreadDoes
  <2>2. ASSUME NEW c \in Connections, ChannelDoes(c) PROVE ThreadsType'
    BY <2>2, <1>1, <1>13 DEF ChannelDoes
  <2>3. ASSUME ScreenDoes PROVE ThreadsType'
    BY <2>3, <1>1, <1>14, <1>15 DEF ScreenDoes
  <2> QED
    BY Steps, <2>1, <2>2, <2>3

\* The app ends once, for a reason.
LEMMA OverTypeKept ==
  ASSUME IInv, Next
  PROVE  OverType'
<1>0. OverType /\ Alive
  BY Steps DEF IInv, Typed
<1>1. CASE \/ \E t \in Threads : Asks(t) \/ Answers(t) \/ GivesUp(t) \/ Goes(t) \/ Makes(t) \/
                Open(t) \/ Joins(t) \/ Reconnect(t) \/ Parts(t) \/ StartQuit(t)
           \/ \E c \in Connections : Established(c) \/ Announces(c) \/ Loses(c)
           \/ Looks \/ ChooseReconnect \/ Runs
  <2>1. UNCHANGED <<app, crash>>
    BY <1>1
       DEF Asks, Answers, GivesUp, Goes, Makes, Open, Joins, Reconnect, Parts, StartQuit,
           Established, Announces, Loses, Looks, ChooseReconnect, Runs, net, threads, over,
           screen, history
  <2> QED
    BY <1>0, <2>1 DEF OverType, Alive
<1>2. ASSUME NEW t \in Threads, Crashes(t) PROVE OverType'
  BY <1>0, <1>2 DEF Crashes, OverType, Alive, net, screen, history
<1>3. ASSUME NEW t \in Threads, Replace(t) PROVE OverType'
  <2>1. app' \in {app, "finishing", "ended"} /\ crash' = crash
    BY <1>3 DEF Replace
  <2> QED
    BY <1>0, <2>1 DEF OverType, Alive
<1> QED
  <2>1. ASSUME NEW t \in Threads, ThreadDoes(t) PROVE OverType'
    BY <2>1, <1>1, <1>2, <1>3 DEF ThreadDoes
  <2>2. ASSUME NEW c \in Connections, ChannelDoes(c) PROVE OverType'
    BY <2>2, <1>1 DEF ChannelDoes
  <2>3. ASSUME ScreenDoes PROVE OverType'
    BY <2>3, <1>1 DEF ScreenDoes
  <2> QED
    BY Steps, <2>1, <2>2, <2>3

\* The queue of runnables and what they show.
LEMMA ScreenTypeKept ==
  ASSUME IInv, Next
  PROVE  ScreenType'
<1>0. ScreenType
  BY Steps DEF IInv, Typed
<1>1. CASE \/ \E t \in Threads : Crashes(t) \/ Asks(t) \/ Answers(t) \/ GivesUp(t) \/ Goes(t)
                \/ Makes(t) \/ Open(t) \/ Parts(t) \/ Replace(t) \/ StartQuit(t)
           \/ \E c \in Connections : Established(c)
  <2>1. UNCHANGED <<posted, dialog, dialogShown, created, icon, offered>>
    BY <1>1
       DEF Crashes, Asks, Answers, GivesUp, Goes, Makes, Open, Parts, Replace, StartQuit,
           Established, net, threads, over, screen, history
  <2> QED
    BY <1>0, <2>1 DEF ScreenType, Tasks, IconOf
<1>2. ASSUME NEW t \in Threads, Joins(t) PROVE ScreenType'
  BY <1>0, <1>2, OneMore, OneLess DEF Joins, Goto, ScreenType, Tasks, IconOf, net, over, history
<1>3. ASSUME NEW t \in Threads, Reconnect(t) PROVE ScreenType'
  BY <1>0, <1>3, OneMore, OneLess
     DEF Reconnect, Goto, ScreenType, Tasks, IconOf, net, over, history
<1>4. ASSUME NEW c \in Connections, Announces(c) PROVE ScreenType'
  BY <1>0, <1>4, OneMore, OneLess
     DEF Announces, ScreenType, Tasks, IconOf, threads, over, history
<1>5. ASSUME NEW c \in Connections, Loses(c) PROVE ScreenType'
  BY <1>0, <1>5, OneMore, OneLess DEF Loses, Goto, ScreenType, Tasks, IconOf, over
<1>6. CASE Looks
  BY <1>0, <1>6, OneMore, OneLess
     DEF Looks, ScreenType, Tasks, IconOf, net, threads, over, history
<1>7. CASE ChooseReconnect
  BY <1>0, <1>7, OneMore, OneLess
     DEF ChooseReconnect, Goto, ScreenType, Tasks, IconOf, UiFree, net, over
<1>8. CASE Runs
  BY <1>0, <1>8, OneMore, OneLess DEF Runs, Goto, ScreenType, Tasks, IconOf, net, over, history
<1> QED
  <2>1. ASSUME NEW t \in Threads, ThreadDoes(t) PROVE ScreenType'
    BY <2>1, <1>1, <1>2, <1>3 DEF ThreadDoes
  <2>2. ASSUME NEW c \in Connections, ChannelDoes(c) PROVE ScreenType'
    BY <2>2, <1>1, <1>4, <1>5 DEF ChannelDoes
  <2>3. ASSUME ScreenDoes PROVE ScreenType'
    BY <2>3, <1>1, <1>6, <1>7, <1>8 DEF ScreenDoes
  <2> QED
    BY Steps, <2>1, <2>2, <2>3

\* The flags, the losses and the history.
LEMMA OtherTypeKept ==
  ASSUME IInv, Next
  PROVE  OtherType'
<1>0. OtherType
  BY Steps DEF IInv, Typed
<1>1. CASE \/ \E t \in Threads : Crashes(t) \/ Asks(t) \/ Answers(t) \/ GivesUp(t) \/ Goes(t)
                \/ Makes(t) \/ Open(t) \/ Joins(t) \/ Reconnect(t) \/ Parts(t) \/ Replace(t)
           \/ \E c \in Connections : Established(c) \/ Announces(c)
           \/ Runs
  <2>1. UNCHANGED <<launch, listening, kicked, drops, impatient, hurried, late>>
    BY <1>1
       DEF Crashes, Asks, Answers, GivesUp, Goes, Makes, Open, Joins, Reconnect, Parts,
           Replace, Established, Announces, Runs, net, threads, over, screen, history
  <2> QED
    BY <1>0, <2>1 DEF OtherType
<1>2. ASSUME NEW t \in Threads, StartQuit(t) PROVE OtherType'
  BY <1>0, <1>2, ReconnectionAssumption DEF StartQuit, Goto, OtherType, over, screen
<1>3. ASSUME NEW c \in Connections, Loses(c) PROVE OtherType'
  BY <1>0, <1>3, ReconnectionAssumption DEF Loses, Goto, OtherType, over
<1>4. CASE Looks
  <2>1. kicked' \in BOOLEAN /\ UNCHANGED <<launch, listening, drops, impatient, hurried, late>>
    BY <1>4 DEF Looks, net, history
  <2> QED
    BY <1>0, <2>1 DEF OtherType
<1>5. CASE ChooseReconnect
  BY <1>0, <1>5, ReconnectionAssumption DEF ChooseReconnect, Goto, OtherType, UiFree, net, over
<1> QED
  <2>1. ASSUME NEW t \in Threads, ThreadDoes(t) PROVE OtherType'
    BY <2>1, <1>1, <1>2 DEF ThreadDoes
  <2>2. ASSUME NEW c \in Connections, ChannelDoes(c) PROVE OtherType'
    BY <2>2, <1>1, <1>3 DEF ChannelDoes
  <2>3. ASSUME ScreenDoes PROVE OtherType'
    BY <2>3, <1>1, <1>4, <1>5 DEF ScreenDoes
  <2> QED
    BY Steps, <2>1, <2>2, <2>3

-----------------------------------------------------------------------------
(* Who is where. *)

\* Only the UI thread runs onDestroy() and can be caught in NoNetwork's loop.
LEMMA WorkersPlacesKept ==
  ASSUME IInv, Next, Alive'
  PROVE  WorkersPlaces'
<1>0. /\ WorkersPlaces
      /\ pc \in [Threads -> Places]
  BY Steps DEF IInv, Typed, NetType, ThreadsType, OtherType, ScreenType
<1>1. ASSUME NEW t \in Threads PROVE ~Crashes(t)
  BY DEF Crashes, Alive
<1>2. CASE \/ \E c \in Connections : Established(c) \/ Announces(c)
           \/ Looks
  <2>1. UNCHANGED <<pc>>
    BY <1>2 DEF Established, Announces, Looks, net, threads, over, screen, history
  <2> QED
    BY <1>0, <2>1 DEF WorkersPlaces
<1>3. ASSUME NEW t \in Threads, Asks(t) PROVE WorkersPlaces'
  BY <1>0, <1>3, UiIsThread DEF Asks, Goto, WorkersPlaces, over, screen, history
<1>4. ASSUME NEW t \in Threads, Answers(t) PROVE WorkersPlaces'
  BY <1>0, <1>4, UiIsThread DEF Answers, Goto, WorkersPlaces, over, screen, history
<1>5. ASSUME NEW t \in Threads, GivesUp(t) PROVE WorkersPlaces'
  BY <1>0, <1>5, UiIsThread DEF GivesUp, Goto, WorkersPlaces, net, over, screen, history
<1>6. ASSUME NEW t \in Threads, Goes(t) PROVE WorkersPlaces'
  BY <1>0, <1>6, UiIsThread DEF Goes, Goto, WorkersPlaces, net, over, screen, history
<1>7. ASSUME NEW t \in Threads, Makes(t) PROVE WorkersPlaces'
  BY <1>0, <1>7, UiIsThread DEF Makes, Goto, WorkersPlaces, over, screen, history
<1>8. ASSUME NEW t \in Threads, Open(t) PROVE WorkersPlaces'
  BY <1>0, <1>8, UiIsThread DEF Open, Goto, WorkersPlaces, over, screen, history
<1>9. ASSUME NEW t \in Threads, Joins(t) PROVE WorkersPlaces'
  BY <1>0, <1>9, UiIsThread DEF Joins, Goto, WorkersPlaces, net, over, history
<1>10. ASSUME NEW t \in Threads, Reconnect(t) PROVE WorkersPlaces'
  BY <1>0, <1>10, UiIsThread DEF Reconnect, Goto, WorkersPlaces, net, over, history
<1>11. ASSUME NEW t \in Threads, Parts(t) PROVE WorkersPlaces'
  BY <1>0, <1>11, UiIsThread DEF Parts, Goto, WorkersPlaces, over, screen, history
<1>12. ASSUME NEW t \in Threads, Replace(t) PROVE WorkersPlaces'
  BY <1>0, <1>12, UiIsThread DEF Replace, Goto, WorkersPlaces, screen, history
<1>13. ASSUME NEW t \in Threads, StartQuit(t) PROVE WorkersPlaces'
  BY <1>0, <1>13, UiIsThread DEF StartQuit, Goto, WorkersPlaces, over, screen
<1>14. ASSUME NEW c \in Connections, Loses(c) PROVE WorkersPlaces'
  BY <1>0, <1>14, UiIsThread DEF Loses, Goto, WorkersPlaces, over
<1>15. CASE ChooseReconnect
  BY <1>0, <1>15, UiIsThread DEF ChooseReconnect, Goto, WorkersPlaces, UiFree, net, over
<1>16. CASE Runs
  BY <1>0, <1>16, UiIsThread DEF Runs, Goto, WorkersPlaces, net, over, history
<1> QED
  <2>1. ASSUME NEW t \in Threads, ThreadDoes(t) PROVE WorkersPlaces'
    BY <2>1, <1>1, <1>2, <1>3, <1>4, <1>5, <1>6, <1>7, <1>8, <1>9, <1>10, <1>11, <1>12,
       <1>13
       DEF ThreadDoes
  <2>2. ASSUME NEW c \in Connections, ChannelDoes(c) PROVE WorkersPlaces'
    BY <2>2, <1>2, <1>14 DEF ChannelDoes
  <2>3. ASSUME ScreenDoes PROVE WorkersPlaces'
    BY <2>3, <1>2, <1>15, <1>16 DEF ScreenDoes
  <2> QED
    BY Steps, <2>1, <2>2, <2>3

\* Only Makes gives a connection to a thread, and it is a new one.
LEMMA DialsKept ==
  ASSUME IInv, Next, Alive'
  PROVE  Dials'
<1>0. /\ Dials
      /\ pc \in [Threads -> Places]
      /\ dialled \in [Threads -> Connections \cup {NoConnection}]
      /\ phase \in [Connections -> Phases]
      /\ \A c \in Connections : phase[c] = "none" <=> c > made
      /\ main = made /\ made \in 0..MaxConnections
  BY Steps DEF IInv, Typed, NetType, ThreadsType, OtherType, ScreenType
<1>1. ASSUME NEW t \in Threads PROVE ~Crashes(t)
  BY DEF Crashes, Alive
<1>2. CASE Looks
  <2>1. UNCHANGED <<pc, dialled, phase, made>>
    BY <1>2 DEF Looks, net, threads, over, history
  <2> QED
    BY <1>0, <2>1 DEF Dials, Dialling, NoConnection
<1>3. ASSUME NEW t \in Threads, Asks(t) PROVE Dials'
  BY <1>0, <1>3, UiIsThread, Bounds, ReconnectionAssumption
     DEF Asks, Goto, Dials, Dialling, NoConnection, over, screen, history
<1>4. ASSUME NEW t \in Threads, Answers(t) PROVE Dials'
  BY <1>0, <1>4, UiIsThread, Bounds, ReconnectionAssumption
     DEF Answers, Goto, Dials, Dialling, NoConnection, over, screen, history
<1>5. ASSUME NEW t \in Threads, GivesUp(t) PROVE Dials'
  BY <1>0, <1>5, UiIsThread, Bounds, ReconnectionAssumption
     DEF GivesUp, Goto, Dials, Dialling, NoConnection, net, over, screen, history
<1>6. ASSUME NEW t \in Threads, Goes(t) PROVE Dials'
  BY <1>0, <1>6, UiIsThread, Bounds, ReconnectionAssumption
     DEF Goes, Goto, Dials, Dialling, NoConnection, net, over, screen, history
<1>7. ASSUME NEW t \in Threads, Makes(t) PROVE Dials'
  <2>1. /\ made + 1 \in Connections /\ made \in Nat
        /\ \A c \in Connections : phase[c] # "none" => c \in 1..made
    BY <1>0, <1>7, ReconnectionAssumption DEF Makes, Connections
  <2>2. \A c \in Connections : c # made + 1 => phase'[c] = phase[c]
    BY <1>0, <2>1, <1>7 DEF Makes
  <2>3. \A u \in Threads : u # t => pc'[u] = pc[u] /\ dialled'[u] = dialled[u]
    BY <1>0, <1>7 DEF Makes, Goto
  <2>4. pc'[t] = "open" /\ dialled'[t] = made + 1 /\ phase'[made + 1] = "created" /\ made' = made + 1
    BY <1>0, <2>1, <1>7 DEF Makes, Goto
  <2>5. pc[t] = "dial" /\ made < MaxConnections
    BY <1>7 DEF Makes
  <2>6. \A u \in Threads : Dialling(u)' => u = t \/ (Dialling(u) /\ dialled[u] \in 1..made)
    <3>1. \A u \in Threads : Dialling(u)' /\ u # t => Dialling(u)
      BY <2>3 DEF Dialling
    <3>2. \A u \in Threads : Dialling(u) => dialled[u] \in 1..made
      BY <1>0 DEF Dials
    <3> QED
      BY <3>1, <3>2
  <2>7. \A c \in Connections : phase'[c] = "created" => c = made + 1 \/ (c \in 1..made /\ phase[c] = "created")
    BY <2>1, <2>2
  <2>8. \A u \in Threads : Dialling(u)' => dialled'[u] \in 1..made'
    BY <2>1, <2>3, <2>4, <2>6
  <2>9. \A u, v \in Threads : Dialling(u)' /\ Dialling(v)' /\ dialled'[u] = dialled'[v] => u = v
    <3>1. \A u \in Threads : Dialling(u)' /\ u # t => Dialling(u) /\ dialled'[u] = dialled[u] /\ dialled'[u] # made + 1
      BY <2>1, <2>3, <2>6
    <3>2. \A u, v \in Threads : Dialling(u) /\ Dialling(v) /\ dialled[u] = dialled[v] => u = v
      BY <1>0 DEF Dials
    <3> QED
      BY <2>4, <3>1, <3>2
  <2>10. \A u \in Threads : pc'[u] = "open" => phase'[dialled'[u]] = "created"
    <3>1. \A u \in Threads : pc[u] = "open" => Dialling(u) /\ phase[dialled[u]] = "created" /\ dialled[u] \in 1..made
      BY <1>0 DEF Dials, Dialling
    <3>2. \A c \in 1..made : phase'[c] = phase[c]
      BY <1>0, <2>1, <2>2, ReconnectionAssumption DEF Connections
    <3> QED
      BY <2>3, <2>4, <3>1, <3>2
  <2>11. \A c \in Connections : phase'[c] = "created" => \E u \in Threads : pc'[u] = "open" /\ dialled'[u] = c
    <3>1. \A c \in Connections : phase[c] = "created" => \E u \in Threads : u # t /\ pc[u] = "open" /\ dialled[u] = c
      BY <1>0, <2>5 DEF Dials
    <3> QED
      BY <2>3, <2>4, <2>7, <3>1
  <2> QED
    BY <2>8, <2>9, <2>10, <2>11 DEF Dials, Dialling
<1>8. ASSUME NEW t \in Threads, Open(t) PROVE Dials'
  BY <1>0, <1>8, UiIsThread, Bounds, ReconnectionAssumption
     DEF Open, Goto, Dials, Dialling, NoConnection, over, screen, history
<1>9. ASSUME NEW t \in Threads, Joins(t) PROVE Dials'
  BY <1>0, <1>9, UiIsThread, Bounds, ReconnectionAssumption
     DEF Joins, Goto, Dials, Dialling, NoConnection, net, over, history
<1>10. ASSUME NEW t \in Threads, Reconnect(t) PROVE Dials'
  BY <1>0, <1>10, UiIsThread, Bounds, ReconnectionAssumption
     DEF Reconnect, Goto, Dials, Dialling, NoConnection, net, over, history
<1>11. ASSUME NEW t \in Threads, Parts(t) PROVE Dials'
  BY <1>0, <1>11, UiIsThread, Bounds, ReconnectionAssumption
     DEF Parts, Goto, Dials, Dialling, NoConnection, over, screen, history
<1>12. ASSUME NEW t \in Threads, Replace(t) PROVE Dials'
  BY <1>0, <1>12, UiIsThread, Bounds, ReconnectionAssumption
     DEF Replace, Goto, Dials, Dialling, NoConnection, screen, history
<1>13. ASSUME NEW t \in Threads, StartQuit(t) PROVE Dials'
  BY <1>0, <1>13, UiIsThread, Bounds, ReconnectionAssumption
     DEF StartQuit, Goto, Dials, Dialling, NoConnection, over, screen
<1>14. ASSUME NEW c \in Connections, Established(c) PROVE Dials'
  BY <1>0, <1>14, UiIsThread, Bounds, ReconnectionAssumption
     DEF Established, Dials, Dialling, NoConnection, threads, over, screen, history
<1>15. ASSUME NEW c \in Connections, Announces(c) PROVE Dials'
  BY <1>0, <1>15, UiIsThread, Bounds, ReconnectionAssumption
     DEF Announces, Dials, Dialling, NoConnection, threads, over, history
<1>16. ASSUME NEW c \in Connections, Loses(c) PROVE Dials'
  BY <1>0, <1>16, UiIsThread, Bounds, ReconnectionAssumption
     DEF Loses, Goto, Dials, Dialling, NoConnection, over
<1>17. CASE ChooseReconnect
  BY <1>0, <1>17, UiIsThread, Bounds, ReconnectionAssumption
     DEF ChooseReconnect, Goto, Dials, Dialling, NoConnection, UiFree, net, over
<1>18. CASE Runs
  BY <1>0, <1>18, UiIsThread, Bounds, ReconnectionAssumption
     DEF Runs, Goto, Dials, Dialling, NoConnection, net, over, history
<1> QED
  <2>1. ASSUME NEW t \in Threads, ThreadDoes(t) PROVE Dials'
    BY <2>1, <1>1, <1>2, <1>3, <1>4, <1>5, <1>6, <1>7, <1>8, <1>9, <1>10, <1>11, <1>12,
       <1>13
       DEF ThreadDoes
  <2>2. ASSUME NEW c \in Connections, ChannelDoes(c) PROVE Dials'
    BY <2>2, <1>2, <1>14, <1>15, <1>16 DEF ChannelDoes
  <2>3. ASSUME ScreenDoes PROVE Dials'
    BY <2>3, <1>2, <1>17, <1>18 DEF ScreenDoes
  <2> QED
    BY Steps, <2>1, <2>2, <2>3

\* Only Asks and Answers write a meeting, into a service that exists.
LEMMA MeetingsKept ==
  ASSUME IInv, Next, Alive'
  PROVE  Meetings'
<1>0. /\ Meetings
      /\ pc \in [Threads -> Places]
      /\ joining \in [Threads -> Services \cup {NoService}]
      /\ joined \in [Services -> {"none", "fresh", "failed", "success"}]
      /\ service \in Services
  BY Steps DEF IInv, Typed, NetType, ThreadsType, OtherType, ScreenType
<1>1. ASSUME NEW t \in Threads PROVE ~Crashes(t)
  BY DEF Crashes, Alive
<1>2. CASE \/ \E c \in Connections : Established(c) \/ Announces(c)
           \/ Looks
  <2>1. UNCHANGED <<service, joined, pc, joining>>
    BY <1>2 DEF Established, Announces, Looks, net, threads, over, screen, history
  <2> QED
    BY <1>0, <2>1 DEF Meetings, NoService, Services
<1>3. ASSUME NEW t \in Threads, Asks(t) PROVE Meetings'
  BY <1>0, <1>3, UiIsThread, Bounds, ReconnectionAssumption
     DEF Asks, Goto, Meetings, NoService, Services, over, screen, history
<1>4. ASSUME NEW t \in Threads, Answers(t) PROVE Meetings'
  BY <1>0, <1>4, UiIsThread, Bounds, ReconnectionAssumption
     DEF Answers, Goto, Meetings, NoService, Services, over, screen, history
<1>5. ASSUME NEW t \in Threads, GivesUp(t) PROVE Meetings'
  BY <1>0, <1>5, UiIsThread, Bounds, ReconnectionAssumption
     DEF GivesUp, Goto, Meetings, NoService, Services, net, over, screen, history
<1>6. ASSUME NEW t \in Threads, Goes(t) PROVE Meetings'
  BY <1>0, <1>6, UiIsThread, Bounds, ReconnectionAssumption
     DEF Goes, Goto, Meetings, NoService, Services, net, over, screen, history
<1>7. ASSUME NEW t \in Threads, Makes(t) PROVE Meetings'
  BY <1>0, <1>7, UiIsThread, Bounds, ReconnectionAssumption
     DEF Makes, Goto, Meetings, NoService, Services, over, screen, history
<1>8. ASSUME NEW t \in Threads, Open(t) PROVE Meetings'
  BY <1>0, <1>8, UiIsThread, Bounds, ReconnectionAssumption
     DEF Open, Goto, Meetings, NoService, Services, over, screen, history
<1>9. ASSUME NEW t \in Threads, Joins(t) PROVE Meetings'
  BY <1>0, <1>9, UiIsThread, Bounds, ReconnectionAssumption
     DEF Joins, Goto, Meetings, NoService, Services, net, over, history
<1>10. ASSUME NEW t \in Threads, Reconnect(t) PROVE Meetings'
  BY <1>0, <1>10, UiIsThread, Bounds, ReconnectionAssumption
     DEF Reconnect, Goto, Meetings, NoService, Services, net, over, history
<1>11. ASSUME NEW t \in Threads, Parts(t) PROVE Meetings'
  BY <1>0, <1>11, UiIsThread, Bounds, ReconnectionAssumption
     DEF Parts, Goto, Meetings, NoService, Services, over, screen, history
<1>12. ASSUME NEW t \in Threads, Replace(t) PROVE Meetings'
  BY <1>0, <1>12, UiIsThread, Bounds, ReconnectionAssumption
     DEF Replace, Goto, Meetings, NoService, Services, screen, history
<1>13. ASSUME NEW t \in Threads, StartQuit(t) PROVE Meetings'
  BY <1>0, <1>13, UiIsThread, Bounds, ReconnectionAssumption
     DEF StartQuit, Goto, Meetings, NoService, Services, over, screen
<1>14. ASSUME NEW c \in Connections, Loses(c) PROVE Meetings'
  BY <1>0, <1>14, UiIsThread, Bounds, ReconnectionAssumption
     DEF Loses, Goto, Meetings, NoService, Services, over
<1>15. CASE ChooseReconnect
  BY <1>0, <1>15, UiIsThread, Bounds, ReconnectionAssumption
     DEF ChooseReconnect, Goto, Meetings, NoService, Services, UiFree, net, over
<1>16. CASE Runs
  BY <1>0, <1>16, UiIsThread, Bounds, ReconnectionAssumption
     DEF Runs, Goto, Meetings, NoService, Services, net, over, history
<1> QED
  <2>1. ASSUME NEW t \in Threads, ThreadDoes(t) PROVE Meetings'
    BY <2>1, <1>1, <1>2, <1>3, <1>4, <1>5, <1>6, <1>7, <1>8, <1>9, <1>10, <1>11, <1>12,
       <1>13
       DEF ThreadDoes
  <2>2. ASSUME NEW c \in Connections, ChannelDoes(c) PROVE Meetings'
    BY <2>2, <1>2, <1>14 DEF ChannelDoes
  <2>3. ASSUME ScreenDoes PROVE Meetings'
    BY <2>3, <1>2, <1>15, <1>16 DEF ScreenDoes
  <2> QED
    BY Steps, <2>1, <2>2, <2>3

\* A connection is made by the holder of the token, when none is alive.
LEMMA LastOnlyKept ==
  ASSUME IInv, Next
  PROVE  LastOnly'
<1>0. /\ LastOnly
      /\ Token /\ Dials
      /\ dialled \in [Threads -> Connections \cup {NoConnection}]
      /\ phase \in [Connections -> Phases]
      /\ \A c \in Connections : phase[c] = "none" <=> c > made
      /\ main = made /\ made \in 0..MaxConnections
  BY Steps DEF IInv, Typed, NetType, ThreadsType, OtherType, ScreenType
<1>1. CASE \/ \E t \in Threads : Crashes(t) \/ Asks(t) \/ Answers(t) \/ GivesUp(t) \/ Goes(t)
                \/ Joins(t) \/ Reconnect(t) \/ Replace(t) \/ StartQuit(t)
           \/ Looks \/ Runs
  <2>1. UNCHANGED <<phase, made, impatient>>
    BY <1>1
       DEF Crashes, Asks, Answers, GivesUp, Goes, Joins, Reconnect, Replace, StartQuit,
           Looks, Runs, net, threads, over, screen, history
  <2> QED
    BY <1>0, <2>1 DEF LastOnly, Token, Bound, Dials, Dialling, IsLive, Live
<1>2. ASSUME NEW t \in Threads, Makes(t) PROVE LastOnly'
  BY <1>0, <1>2, UiIsThread, Bounds, ReconnectionAssumption
     DEF Makes, Goto, LastOnly, Token, Bound, Dials, Dialling, IsLive, Live, over, screen,
         history
<1>3. ASSUME NEW t \in Threads, Open(t) PROVE LastOnly'
  BY <1>0, <1>3, UiIsThread, Bounds, ReconnectionAssumption
     DEF Open, Goto, LastOnly, Token, Bound, Dials, Dialling, IsLive, Live, over, screen,
         history
<1>4. ASSUME NEW t \in Threads, Parts(t) PROVE LastOnly'
  BY <1>0, <1>4, UiIsThread, Bounds, ReconnectionAssumption
     DEF Parts, Goto, LastOnly, Token, Bound, Dials, Dialling, IsLive, Live, over, screen,
         history
<1>5. ASSUME NEW c \in Connections, Established(c) PROVE LastOnly'
  BY <1>0, <1>5, UiIsThread, Bounds, ReconnectionAssumption
     DEF Established, LastOnly, Token, Bound, Dials, Dialling, IsLive, Live, threads, over,
         screen, history
<1>6. ASSUME NEW c \in Connections, Announces(c) PROVE LastOnly'
  BY <1>0, <1>6, UiIsThread, Bounds, ReconnectionAssumption
     DEF Announces, LastOnly, Token, Bound, Dials, Dialling, IsLive, Live, threads, over,
         history
<1>7. ASSUME NEW c \in Connections, Loses(c) PROVE LastOnly'
  BY <1>0, <1>7, UiIsThread, Bounds, ReconnectionAssumption
     DEF Loses, Goto, LastOnly, Token, Bound, Dials, Dialling, IsLive, Live, over
<1>8. CASE ChooseReconnect
  BY <1>0, <1>8, UiIsThread, Bounds, ReconnectionAssumption
     DEF ChooseReconnect, Goto, LastOnly, Token, Bound, Dials, Dialling, IsLive, Live,
         UiFree, net, over
<1> QED
  <2>1. ASSUME NEW t \in Threads, ThreadDoes(t) PROVE LastOnly'
    BY <2>1, <1>1, <1>2, <1>3, <1>4 DEF ThreadDoes
  <2>2. ASSUME NEW c \in Connections, ChannelDoes(c) PROVE LastOnly'
    BY <2>2, <1>1, <1>5, <1>6, <1>7 DEF ChannelDoes
  <2>3. ASSUME ScreenDoes PROVE LastOnly'
    BY <2>3, <1>1, <1>8 DEF ScreenDoes
  <2> QED
    BY Steps, <2>1, <2>2, <2>3

\* The token goes from a thread to its connection, and from a lost connection to
\* the thread that joins again; Reconnect makes a second one only by impatience.
LEMMA TokenKept ==
  ASSUME IInv, Next, Alive'
  PROVE  Token'
<1>0. /\ Token /\ Dials /\ LastOnly
      /\ pc \in [Threads -> Places]
      /\ dialled \in [Threads -> Connections \cup {NoConnection}]
      /\ phase \in [Connections -> Phases]
      /\ main = made /\ made \in 0..MaxConnections
      /\ impatient \in BOOLEAN /\ hurried \in BOOLEAN /\ late \in BOOLEAN /\ listening \in BOOLEAN
  BY Steps DEF IInv, Typed, NetType, ThreadsType, OtherType, ScreenType
<1>1. ASSUME NEW t \in Threads PROVE ~Crashes(t)
  BY DEF Crashes, Alive
<1>2. CASE Looks
  <2>1. UNCHANGED <<pc, phase, impatient>>
    BY <1>2 DEF Looks, net, threads, over, history
  <2> QED
    BY <1>0, <2>1 DEF Token, LastOnly, Bound, IsLive, Live
<1>3. ASSUME NEW t \in Threads, Asks(t) PROVE Token'
  BY <1>0, <1>3, UiIsThread, Bounds
     DEF Asks, Goto, Token, LastOnly, Bound, IsLive, Live, over, screen, history
<1>4. ASSUME NEW t \in Threads, Answers(t) PROVE Token'
  BY <1>0, <1>4, UiIsThread, Bounds
     DEF Answers, Goto, Token, LastOnly, Bound, IsLive, Live, over, screen, history
<1>5. ASSUME NEW t \in Threads, GivesUp(t) PROVE Token'
  BY <1>0, <1>5, UiIsThread, Bounds
     DEF GivesUp, Goto, Token, LastOnly, Bound, IsLive, Live, net, over, screen, history
<1>6. ASSUME NEW t \in Threads, Goes(t) PROVE Token'
  BY <1>0, <1>6, UiIsThread, Bounds
     DEF Goes, Goto, Token, LastOnly, Bound, IsLive, Live, net, over, screen, history
<1>7. ASSUME NEW t \in Threads, Makes(t) PROVE Token'
  BY <1>0, <1>7, UiIsThread, Bounds
     DEF Makes, Goto, Token, LastOnly, Bound, IsLive, Live, over, screen, history
<1>8. ASSUME NEW t \in Threads, Open(t) PROVE Token'
  BY <1>0, <1>8, UiIsThread, Bounds
     DEF Open, Goto, Token, LastOnly, Bound, IsLive, Live, over, screen, history, Dials,
         Dialling
<1>9. ASSUME NEW t \in Threads, Joins(t) PROVE Token'
  BY <1>0, <1>9, UiIsThread, Bounds
     DEF Joins, Goto, Token, LastOnly, Bound, IsLive, Live, net, over, history
<1>10. ASSUME NEW t \in Threads, Reconnect(t) PROVE Token'
  BY <1>0, <1>10, UiIsThread, Bounds
     DEF Reconnect, Goto, Token, LastOnly, Bound, IsLive, Live, net, over, history
<1>11. ASSUME NEW t \in Threads, Parts(t) PROVE Token'
  BY <1>0, <1>11, UiIsThread, Bounds
     DEF Parts, Goto, Token, LastOnly, Bound, IsLive, Live, over, screen, history
<1>12. ASSUME NEW t \in Threads, Replace(t) PROVE Token'
  BY <1>0, <1>12, UiIsThread, Bounds
     DEF Replace, Goto, Token, LastOnly, Bound, IsLive, Live, screen, history
<1>13. ASSUME NEW t \in Threads, StartQuit(t) PROVE Token'
  BY <1>0, <1>13, UiIsThread, Bounds
     DEF StartQuit, Goto, Token, LastOnly, Bound, IsLive, Live, over, screen
<1>14. ASSUME NEW c \in Connections, Established(c) PROVE Token'
  BY <1>0, <1>14, UiIsThread, Bounds
     DEF Established, Token, LastOnly, Bound, IsLive, Live, threads, over, screen, history
<1>15. ASSUME NEW c \in Connections, Announces(c) PROVE Token'
  BY <1>0, <1>15, UiIsThread, Bounds
     DEF Announces, Token, LastOnly, Bound, IsLive, Live, threads, over, history
<1>16. ASSUME NEW c \in Connections, Loses(c) PROVE Token'
  BY <1>0, <1>16, UiIsThread, Bounds DEF Loses, Goto, Token, LastOnly, Bound, IsLive, Live, over
<1>17. CASE ChooseReconnect
  <2>1. SUFFICES ASSUME ~impatient' PROVE Token'
    BY DEF Token
  <2>2. (\A w \in Workers : pc[w] = "idle") /\ (\A c \in Connections : ~IsLive(c)) /\ UNCHANGED phase
    BY <2>1, <1>17 DEF ChooseReconnect, IsLive, net
  <2>3. \A u \in Threads : Bound(u)' => u = Ui
    BY <1>0, <2>2, <1>17 DEF ChooseReconnect, Goto, Bound, Threads
  <2> QED
    BY <2>2, <2>3 DEF Token, IsLive
<1>18. CASE Runs
  BY <1>0, <1>18, UiIsThread, Bounds
     DEF Runs, Goto, Token, LastOnly, Bound, IsLive, Live, net, over, history
<1> QED
  <2>1. ASSUME NEW t \in Threads, ThreadDoes(t) PROVE Token'
    BY <2>1, <1>1, <1>2, <1>3, <1>4, <1>5, <1>6, <1>7, <1>8, <1>9, <1>10, <1>11, <1>12,
       <1>13
       DEF ThreadDoes
  <2>2. ASSUME NEW c \in Connections, ChannelDoes(c) PROVE Token'
    BY <2>2, <1>2, <1>14, <1>15, <1>16 DEF ChannelDoes
  <2>3. ASSUME ScreenDoes PROVE Token'
    BY <2>3, <1>2, <1>17, <1>18 DEF ScreenDoes
  <2> QED
    BY Steps, <2>1, <2>2, <2>3

\* Only the holder of the token asks, so the meeting it checks is its own.
LEMMA OwnMeetingKept ==
  ASSUME IInv, Next, Alive'
  PROVE  OwnMeeting'
<1>0. /\ OwnMeeting /\ Token /\ Meetings
      /\ pc \in [Threads -> Places]
      /\ joining \in [Threads -> Services \cup {NoService}]
      /\ joined \in [Services -> {"none", "fresh", "failed", "success"}]
      /\ service \in Services
      /\ impatient \in BOOLEAN /\ hurried \in BOOLEAN /\ late \in BOOLEAN /\ listening \in BOOLEAN
  BY Steps DEF IInv, Typed, NetType, ThreadsType, OtherType, ScreenType
<1>1. ASSUME NEW t \in Threads PROVE ~Crashes(t)
  BY DEF Crashes, Alive
<1>2. CASE \/ \E c \in Connections : Established(c) \/ Announces(c)
           \/ Looks
  <2>1. UNCHANGED <<pc, joining, joined, service, impatient>>
    BY <1>2 DEF Established, Announces, Looks, net, threads, over, screen, history
  <2> QED
    BY <1>0, <2>1 DEF OwnMeeting, Token, Meetings, Bound, NoService, Services
<1>3. ASSUME NEW t \in Threads, Asks(t) PROVE OwnMeeting'
  BY <1>0, <1>3, UiIsThread, Bounds, ReconnectionAssumption
     DEF Asks, Goto, OwnMeeting, Token, Meetings, Bound, NoService, Services, over, screen,
         history
<1>4. ASSUME NEW t \in Threads, Answers(t) PROVE OwnMeeting'
  BY <1>0, <1>4, UiIsThread, Bounds, ReconnectionAssumption
     DEF Answers, Goto, OwnMeeting, Token, Meetings, Bound, NoService, Services, over,
         screen, history
<1>5. ASSUME NEW t \in Threads, GivesUp(t) PROVE OwnMeeting'
  BY <1>0, <1>5, UiIsThread, Bounds, ReconnectionAssumption
     DEF GivesUp, Goto, OwnMeeting, Token, Meetings, Bound, NoService, Services, net, over,
         screen, history
<1>6. ASSUME NEW t \in Threads, Goes(t) PROVE OwnMeeting'
  BY <1>0, <1>6, UiIsThread, Bounds, ReconnectionAssumption
     DEF Goes, Goto, OwnMeeting, Token, Meetings, Bound, NoService, Services, net, over,
         screen, history
<1>7. ASSUME NEW t \in Threads, Makes(t) PROVE OwnMeeting'
  BY <1>0, <1>7, UiIsThread, Bounds, ReconnectionAssumption
     DEF Makes, Goto, OwnMeeting, Token, Meetings, Bound, NoService, Services, over,
         screen, history
<1>8. ASSUME NEW t \in Threads, Open(t) PROVE OwnMeeting'
  BY <1>0, <1>8, UiIsThread, Bounds, ReconnectionAssumption
     DEF Open, Goto, OwnMeeting, Token, Meetings, Bound, NoService, Services, over, screen,
         history
<1>9. ASSUME NEW t \in Threads, Joins(t) PROVE OwnMeeting'
  BY <1>0, <1>9, UiIsThread, Bounds, ReconnectionAssumption
     DEF Joins, Goto, OwnMeeting, Token, Meetings, Bound, NoService, Services, net, over,
         history
<1>10. ASSUME NEW t \in Threads, Reconnect(t) PROVE OwnMeeting'
  BY <1>0, <1>10, UiIsThread, Bounds, ReconnectionAssumption
     DEF Reconnect, Goto, OwnMeeting, Token, Meetings, Bound, NoService, Services, net,
         over, history
<1>11. ASSUME NEW t \in Threads, Parts(t) PROVE OwnMeeting'
  BY <1>0, <1>11, UiIsThread, Bounds, ReconnectionAssumption
     DEF Parts, Goto, OwnMeeting, Token, Meetings, Bound, NoService, Services, over,
         screen, history
<1>12. ASSUME NEW t \in Threads, Replace(t) PROVE OwnMeeting'
  BY <1>0, <1>12, UiIsThread, Bounds, ReconnectionAssumption
     DEF Replace, Goto, OwnMeeting, Token, Meetings, Bound, NoService, Services, screen,
         history
<1>13. ASSUME NEW t \in Threads, StartQuit(t) PROVE OwnMeeting'
  BY <1>0, <1>13, UiIsThread, Bounds, ReconnectionAssumption
     DEF StartQuit, Goto, OwnMeeting, Token, Meetings, Bound, NoService, Services, over,
         screen
<1>14. ASSUME NEW c \in Connections, Loses(c) PROVE OwnMeeting'
  BY <1>0, <1>14, UiIsThread, Bounds, ReconnectionAssumption
     DEF Loses, Goto, OwnMeeting, Token, Meetings, Bound, NoService, Services, over
<1>15. CASE ChooseReconnect
  BY <1>0, <1>15, UiIsThread, Bounds, ReconnectionAssumption
     DEF ChooseReconnect, Goto, OwnMeeting, Token, Meetings, Bound, NoService, Services,
         UiFree, net, over
<1>16. CASE Runs
  BY <1>0, <1>16, UiIsThread, Bounds, ReconnectionAssumption
     DEF Runs, Goto, OwnMeeting, Token, Meetings, Bound, NoService, Services, net, over,
         history
<1> QED
  <2>1. ASSUME NEW t \in Threads, ThreadDoes(t) PROVE OwnMeeting'
    BY <2>1, <1>1, <1>2, <1>3, <1>4, <1>5, <1>6, <1>7, <1>8, <1>9, <1>10, <1>11, <1>12,
       <1>13
       DEF ThreadDoes
  <2>2. ASSUME NEW c \in Connections, ChannelDoes(c) PROVE OwnMeeting'
    BY <2>2, <1>2, <1>14 DEF ChannelDoes
  <2>3. ASSUME ScreenDoes PROVE OwnMeeting'
    BY <2>3, <1>2, <1>15, <1>16 DEF ScreenDoes
  <2> QED
    BY Steps, <2>1, <2>2, <2>3

\* No thread starts to join once the listener is gone, but by Reconnect, which
\* hurries; and the thread that removed it ends the activity.
LEMMA LeavingKept ==
  ASSUME IInv, Next, Alive'
  PROVE  Leaving'
<1>0. /\ Leaving /\ Meetings
      /\ pc \in [Threads -> Places]
      /\ joined \in [Services -> {"none", "fresh", "failed", "success"}]
      /\ service \in Services
      /\ impatient \in BOOLEAN /\ hurried \in BOOLEAN /\ late \in BOOLEAN /\ listening \in BOOLEAN
  BY Steps DEF IInv, Typed, NetType, ThreadsType, OtherType, ScreenType
<1>1. ASSUME NEW t \in Threads PROVE ~Crashes(t)
  BY DEF Crashes, Alive
<1>2. CASE \/ \E c \in Connections : Established(c) \/ Announces(c)
           \/ Looks
  <2>1. UNCHANGED <<pc, listening, app, hurried, joined, service>>
    BY <1>2 DEF Established, Announces, Looks, net, threads, over, screen, history
  <2> QED
    BY <1>0, <2>1 DEF Leaving, Joining, Quitting
<1>3. ASSUME NEW t \in Threads, Asks(t) PROVE Leaving'
  BY <1>0, <1>3, UiIsThread, Bounds, ReconnectionAssumption
     DEF Asks, Goto, Leaving, Joining, Quitting, over, screen, history
<1>4. ASSUME NEW t \in Threads, Answers(t) PROVE Leaving'
  BY <1>0, <1>4, UiIsThread, Bounds, ReconnectionAssumption
     DEF Answers, Goto, Leaving, Joining, Quitting, over, screen, history
<1>5. ASSUME NEW t \in Threads, GivesUp(t) PROVE Leaving'
  BY <1>0, <1>5, UiIsThread, Bounds, ReconnectionAssumption
     DEF GivesUp, Goto, Leaving, Joining, Quitting, net, over, screen, history
<1>6. ASSUME NEW t \in Threads, Goes(t) PROVE Leaving'
  BY <1>0, <1>6, UiIsThread, Bounds, ReconnectionAssumption
     DEF Goes, Goto, Leaving, Joining, Quitting, net, over, screen, history
<1>7. ASSUME NEW t \in Threads, Makes(t) PROVE Leaving'
  BY <1>0, <1>7, UiIsThread, Bounds, ReconnectionAssumption
     DEF Makes, Goto, Leaving, Joining, Quitting, over, screen, history
<1>8. ASSUME NEW t \in Threads, Open(t) PROVE Leaving'
  BY <1>0, <1>8, UiIsThread, Bounds, ReconnectionAssumption
     DEF Open, Goto, Leaving, Joining, Quitting, over, screen, history
<1>9. ASSUME NEW t \in Threads, Joins(t) PROVE Leaving'
  BY <1>0, <1>9, UiIsThread, Bounds, ReconnectionAssumption
     DEF Joins, Goto, Leaving, Joining, Quitting, net, over, history
<1>10. ASSUME NEW t \in Threads, Reconnect(t) PROVE Leaving'
  BY <1>0, <1>10, UiIsThread, Bounds, ReconnectionAssumption
     DEF Reconnect, Goto, Leaving, Joining, Quitting, net, over, history
<1>11. ASSUME NEW t \in Threads, Parts(t) PROVE Leaving'
  BY <1>0, <1>11, UiIsThread, Bounds, ReconnectionAssumption
     DEF Parts, Goto, Leaving, Joining, Quitting, over, screen, history
<1>12. ASSUME NEW t \in Threads, Replace(t) PROVE Leaving'
  BY <1>0, <1>12, UiIsThread, Bounds, ReconnectionAssumption
     DEF Replace, Goto, Leaving, Joining, Quitting, screen, history
<1>13. ASSUME NEW t \in Threads, StartQuit(t) PROVE Leaving'
  BY <1>0, <1>13, UiIsThread, Bounds, ReconnectionAssumption
     DEF StartQuit, Goto, Leaving, Joining, Quitting, over, screen
<1>14. ASSUME NEW c \in Connections, Loses(c) PROVE Leaving'
  BY <1>0, <1>14, UiIsThread, Bounds, ReconnectionAssumption
     DEF Loses, Goto, Leaving, Joining, Quitting, over
<1>15. CASE ChooseReconnect
  <2>1. /\ pc[Ui] = "idle" /\ app = "running" /\ UNCHANGED <<listening, app, joined, service>>
        /\ \A u \in Threads : u # Ui => pc'[u] = pc[u]
        /\ pc'[Ui] \in {"join", "idle"}
    BY <1>0, UiIsThread, <1>15 DEF ChooseReconnect, Goto, UiFree, net, over
  <2>2. /\ hurried => hurried'
        /\ (\E u \in Threads : pc[u] \in Quitting) => hurried'
    BY <2>1, <1>15 DEF ChooseReconnect, Threads, Quitting
  <2>3. \A u \in Threads : pc'[u] \in Quitting <=> pc[u] \in Quitting
    BY <2>1 DEF Quitting
  <2>4. \A u \in Threads : pc'[u] \in Joining \ {"lost", "join"} => pc[u] \in Joining \ {"lost", "join"}
    BY <2>1
  <2> QED
    BY <1>0, <2>1, <2>2, <2>3, <2>4 DEF Leaving
<1>16. CASE Runs
  BY <1>0, <1>16, UiIsThread, Bounds, ReconnectionAssumption
     DEF Runs, Goto, Leaving, Joining, Quitting, net, over, history
<1> QED
  <2>1. ASSUME NEW t \in Threads, ThreadDoes(t) PROVE Leaving'
    BY <2>1, <1>1, <1>2, <1>3, <1>4, <1>5, <1>6, <1>7, <1>8, <1>9, <1>10, <1>11, <1>12,
       <1>13
       DEF ThreadDoes
  <2>2. ASSUME NEW c \in Connections, ChannelDoes(c) PROVE Leaving'
    BY <2>2, <1>2, <1>14 DEF ChannelDoes
  <2>3. ASSUME ScreenDoes PROVE Leaving'
    BY <2>3, <1>2, <1>15, <1>16 DEF ScreenDoes
  <2> QED
    BY Steps, <2>1, <2>2, <2>3

\* quit() closes the last connection, which is the only one, and no thread makes
\* another.
LEMMA ClosingKept ==
  ASSUME IInv, Next, Alive'
  PROVE  Closing'
<1>0. /\ Closing /\ Leaving /\ LastOnly /\ Dials
      /\ dialled \in [Threads -> Connections \cup {NoConnection}]
      /\ pc \in [Threads -> Places]
      /\ phase \in [Connections -> Phases]
      /\ main = made /\ made \in 0..MaxConnections
      /\ impatient \in BOOLEAN /\ hurried \in BOOLEAN /\ late \in BOOLEAN /\ listening \in BOOLEAN
  BY Steps DEF IInv, Typed, NetType, ThreadsType, OtherType, ScreenType
<1>1. ASSUME NEW t \in Threads PROVE ~Crashes(t)
  BY DEF Crashes, Alive
<1>2. CASE Looks
  <2>1. UNCHANGED <<app, pc, phase, hurried, impatient>>
    BY <1>2 DEF Looks, net, threads, over, history
  <2> QED
    BY <1>0, <2>1 DEF Closing, IsLive, Live
<1>3. ASSUME NEW t \in Threads, Asks(t) PROVE Closing'
  BY <1>0, <1>3, UiIsThread, Bounds DEF Asks, Goto, Closing, IsLive, Live, over, screen, history
<1>4. ASSUME NEW t \in Threads, Answers(t) PROVE Closing'
  BY <1>0, <1>4, UiIsThread, Bounds
     DEF Answers, Goto, Closing, IsLive, Live, over, screen, history
<1>5. ASSUME NEW t \in Threads, GivesUp(t) PROVE Closing'
  BY <1>0, <1>5, UiIsThread, Bounds
     DEF GivesUp, Goto, Closing, IsLive, Live, net, over, screen, history
<1>6. ASSUME NEW t \in Threads, Goes(t) PROVE Closing'
  BY <1>0, <1>6, UiIsThread, Bounds
     DEF Goes, Goto, Closing, IsLive, Live, net, over, screen, history
<1>7. ASSUME NEW t \in Threads, Makes(t) PROVE Closing'
  BY <1>0, <1>7, UiIsThread, Bounds
     DEF Makes, Goto, Closing, IsLive, Live, over, screen, history, Leaving, Joining,
         Quitting
<1>8. ASSUME NEW t \in Threads, Open(t) PROVE Closing'
  BY <1>0, <1>8, UiIsThread, Bounds
     DEF Open, Goto, Closing, IsLive, Live, over, screen, history, Dials, Dialling
<1>9. ASSUME NEW t \in Threads, Joins(t) PROVE Closing'
  BY <1>0, <1>9, UiIsThread, Bounds DEF Joins, Goto, Closing, IsLive, Live, net, over, history
<1>10. ASSUME NEW t \in Threads, Reconnect(t) PROVE Closing'
  BY <1>0, <1>10, UiIsThread, Bounds
     DEF Reconnect, Goto, Closing, IsLive, Live, net, over, history
<1>11. ASSUME NEW t \in Threads, Parts(t) PROVE Closing'
  <2>1. SUFFICES ASSUME ~hurried', ~impatient', NEW c \in Connections, IsLive(c)' PROVE FALSE
    BY DEF Closing, IsLive
  <2>2. ~impatient /\ main = made
    BY <1>0, <2>1, <1>11 DEF Parts, history
  <2>3. IsLive(c) /\ c # main
    <3>1. CASE main = NoConnection /\ UNCHANGED phase
      BY <2>1, <3>1, Bounds DEF IsLive, NoConnection
    <3>2. ASSUME NEW end \in {"failed", "closed"}, phase' = [phase EXCEPT ![main] = end]
          PROVE  IsLive(c) /\ c # main
      BY <1>0, <2>1, <3>2 DEF IsLive, Live
    <3> QED
      BY <1>11, <3>1, <3>2 DEF Parts
  <2> QED
    BY <1>0, <2>2, <2>3 DEF LastOnly
<1>12. ASSUME NEW t \in Threads, Replace(t) PROVE Closing'
  BY <1>0, <1>12, UiIsThread, Bounds DEF Replace, Goto, Closing, IsLive, Live, screen, history
<1>13. ASSUME NEW t \in Threads, StartQuit(t) PROVE Closing'
  BY <1>0, <1>13, UiIsThread, Bounds DEF StartQuit, Goto, Closing, IsLive, Live, over, screen
<1>14. ASSUME NEW c \in Connections, Established(c) PROVE Closing'
  BY <1>0, <1>14, UiIsThread, Bounds
     DEF Established, Closing, IsLive, Live, threads, over, screen, history
<1>15. ASSUME NEW c \in Connections, Announces(c) PROVE Closing'
  BY <1>0, <1>15, UiIsThread, Bounds
     DEF Announces, Closing, IsLive, Live, threads, over, history
<1>16. ASSUME NEW c \in Connections, Loses(c) PROVE Closing'
  BY <1>0, <1>16, UiIsThread, Bounds DEF Loses, Goto, Closing, IsLive, Live, over
<1>17. CASE ChooseReconnect
  BY <1>0, <1>17, UiIsThread, Bounds
     DEF ChooseReconnect, Goto, Closing, IsLive, Live, UiFree, net, over
<1>18. CASE Runs
  BY <1>0, <1>18, UiIsThread, Bounds DEF Runs, Goto, Closing, IsLive, Live, net, over, history
<1> QED
  <2>1. ASSUME NEW t \in Threads, ThreadDoes(t) PROVE Closing'
    BY <2>1, <1>1, <1>2, <1>3, <1>4, <1>5, <1>6, <1>7, <1>8, <1>9, <1>10, <1>11, <1>12,
       <1>13
       DEF ThreadDoes
  <2>2. ASSUME NEW c \in Connections, ChannelDoes(c) PROVE Closing'
    BY <2>2, <1>2, <1>14, <1>15, <1>16 DEF ChannelDoes
  <2>3. ASSUME ScreenDoes PROVE Closing'
    BY <2>3, <1>2, <1>17, <1>18 DEF ScreenDoes
  <2> QED
    BY Steps, <2>1, <2>2, <2>3

\* Each exception that is thrown has met with its overlap.
LEMMA CrashCausesKept ==
  ASSUME IInv, Next
  PROVE  CrashCauses'
<1>0. /\ crash = "none"
      /\ LossFirst /\ Leaving /\ OwnMeeting /\ Dials
      /\ pc \in [Threads -> Places]
      /\ phase \in [Connections -> Phases]
      /\ main = made /\ made \in 0..MaxConnections
      /\ service \in Services
      /\ impatient \in BOOLEAN /\ hurried \in BOOLEAN /\ late \in BOOLEAN /\ listening \in BOOLEAN
  BY Steps DEF IInv, Alive, OverType, Typed, NetType, ThreadsType, OtherType, ScreenType
<1>1. CASE \/ \E t \in Threads : Asks(t) \/ Answers(t) \/ GivesUp(t) \/ Goes(t) \/ Makes(t) \/
                Open(t) \/ Joins(t) \/ Reconnect(t) \/ Parts(t) \/ Replace(t)
           \/ \E c \in Connections : Established(c) \/ Announces(c) \/ Loses(c)
           \/ Looks \/ Runs
  <2>1. UNCHANGED <<crash, hurried, impatient>>
    BY <1>1
       DEF Asks, Answers, GivesUp, Goes, Makes, Open, Joins, Reconnect, Parts, Replace,
           Established, Announces, Loses, Looks, Runs, net, threads, over, screen, history
  <2> QED
    BY <1>0, <2>1 DEF CrashCauses
<1>2. ASSUME NEW t \in Threads, Crashes(t) PROVE CrashCauses'
  <2>1. UNCHANGED <<hurried, impatient>>
    BY <1>2 DEF Crashes, history
  <2>2. CASE crash' = "joinFailed" /\ t \in Workers /\ pc[t] \in Joining \ {"lost"}
    <3>1. UNCHANGED <<pc, phase>>
      BY <1>2 DEF Crashes, net
    <3>2. pc[t] # "idle"
      BY <2>2 DEF Joining
    <3>3. \E c \in Connections : phase[c] = "closed"
      BY <1>0, <2>2, <3>2 DEF LossFirst
    <3> QED
      BY <2>2, <3>1, <3>3 DEF CrashCauses
  <2>3. CASE crash' = "noMeeting" /\ joined[service] = "none" /\ pc[t] \in Joining \ {"lost", "join"}
    <3>1. hurried
      BY <1>0, <2>3 DEF Leaving
    <3> QED
      BY <2>1, <2>3, <3>1 DEF CrashCauses
  <2>4. CASE crash' = "noFuture" /\ main # NoConnection /\ phase[main] = "created" /\ pc[t] \in Quitting
    <3>1. PICK u \in Threads : pc[u] = "open"
      BY <1>0, <2>4, ReconnectionAssumption DEF Dials, Connections, NoConnection
    <3>2. ~listening
      BY <1>0, <2>4 DEF Leaving
    <3>3. hurried
      BY <1>0, <3>1, <3>2 DEF Leaving, Joining
    <3> QED
      BY <2>1, <2>4, <3>3 DEF CrashCauses
  <2>5. CASE /\ crash' = "halfJoined"
             /\ \/ pc[t] = "check" /\ joined[joining[t]] = "fresh"
                \/ pc[t] = "dial" /\ joined[service] = "fresh"
    <3>1. impatient
      BY <1>0, <2>5 DEF OwnMeeting
    <3> QED
      BY <2>1, <2>5, <3>1 DEF CrashCauses
  <2> QED
    BY <1>2, <2>2, <2>3, <2>4, <2>5 DEF Crashes
<1>3. ASSUME NEW t \in Threads, StartQuit(t) PROVE CrashCauses'
  BY <1>0, <1>3 DEF StartQuit, Goto, CrashCauses, over, screen
<1>4. CASE ChooseReconnect
  BY <1>0, <1>4 DEF ChooseReconnect, Goto, CrashCauses, UiFree, net, over
<1> QED
  <2>1. ASSUME NEW t \in Threads, ThreadDoes(t) PROVE CrashCauses'
    BY <2>1, <1>1, <1>2, <1>3 DEF ThreadDoes
  <2>2. ASSUME NEW c \in Connections, ChannelDoes(c) PROVE CrashCauses'
    BY <2>2, <1>1 DEF ChannelDoes
  <2>3. ASSUME ScreenDoes PROVE CrashCauses'
    BY <2>3, <1>1, <1>4 DEF ScreenDoes
  <2> QED
    BY Steps, <2>1, <2>2, <2>3

\* NoNetwork finds the dialog shown unless Reconnect was impatient.
LEMMA SpinsOnlyAfterImpatienceKept ==
  ASSUME IInv, Next
  PROVE  SpinsOnlyAfterImpatience'
<1>0. /\ SpinsOnlyAfterImpatience
      /\ pc \in [Threads -> Places]
      /\ impatient \in BOOLEAN /\ hurried \in BOOLEAN /\ late \in BOOLEAN /\ listening \in BOOLEAN
  BY Steps DEF IInv, Typed, NetType, ThreadsType, OtherType, ScreenType
<1>1. CASE \/ \E t \in Threads : Crashes(t)
           \/ \E c \in Connections : Established(c) \/ Announces(c)
           \/ Looks
  <2>1. UNCHANGED <<pc, impatient>>
    BY <1>1 DEF Crashes, Established, Announces, Looks, net, threads, over, screen, history
  <2> QED
    BY <1>0, <2>1 DEF SpinsOnlyAfterImpatience
<1>2. ASSUME NEW t \in Threads, Asks(t) PROVE SpinsOnlyAfterImpatience'
  BY <1>0, <1>2, UiIsThread DEF Asks, Goto, SpinsOnlyAfterImpatience, over, screen, history
<1>3. ASSUME NEW t \in Threads, Answers(t) PROVE SpinsOnlyAfterImpatience'
  BY <1>0, <1>3, UiIsThread DEF Answers, Goto, SpinsOnlyAfterImpatience, over, screen, history
<1>4. ASSUME NEW t \in Threads, GivesUp(t) PROVE SpinsOnlyAfterImpatience'
  BY <1>0, <1>4, UiIsThread
     DEF GivesUp, Goto, SpinsOnlyAfterImpatience, net, over, screen, history
<1>5. ASSUME NEW t \in Threads, Goes(t) PROVE SpinsOnlyAfterImpatience'
  BY <1>0, <1>5, UiIsThread DEF Goes, Goto, SpinsOnlyAfterImpatience, net, over, screen, history
<1>6. ASSUME NEW t \in Threads, Makes(t) PROVE SpinsOnlyAfterImpatience'
  BY <1>0, <1>6, UiIsThread DEF Makes, Goto, SpinsOnlyAfterImpatience, over, screen, history
<1>7. ASSUME NEW t \in Threads, Open(t) PROVE SpinsOnlyAfterImpatience'
  BY <1>0, <1>7, UiIsThread DEF Open, Goto, SpinsOnlyAfterImpatience, over, screen, history
<1>8. ASSUME NEW t \in Threads, Joins(t) PROVE SpinsOnlyAfterImpatience'
  BY <1>0, <1>8, UiIsThread DEF Joins, Goto, SpinsOnlyAfterImpatience, net, over, history
<1>9. ASSUME NEW t \in Threads, Reconnect(t) PROVE SpinsOnlyAfterImpatience'
  BY <1>0, <1>9, UiIsThread DEF Reconnect, Goto, SpinsOnlyAfterImpatience, net, over, history
<1>10. ASSUME NEW t \in Threads, Parts(t) PROVE SpinsOnlyAfterImpatience'
  BY <1>0, <1>10, UiIsThread DEF Parts, Goto, SpinsOnlyAfterImpatience, over, screen, history
<1>11. ASSUME NEW t \in Threads, Replace(t) PROVE SpinsOnlyAfterImpatience'
  BY <1>0, <1>11, UiIsThread DEF Replace, Goto, SpinsOnlyAfterImpatience, screen, history
<1>12. ASSUME NEW t \in Threads, StartQuit(t) PROVE SpinsOnlyAfterImpatience'
  BY <1>0, <1>12, UiIsThread DEF StartQuit, Goto, SpinsOnlyAfterImpatience, over, screen
<1>13. ASSUME NEW c \in Connections, Loses(c) PROVE SpinsOnlyAfterImpatience'
  BY <1>0, <1>13, UiIsThread DEF Loses, Goto, SpinsOnlyAfterImpatience, over
<1>14. CASE ChooseReconnect
  BY <1>0, <1>14, UiIsThread
     DEF ChooseReconnect, Goto, SpinsOnlyAfterImpatience, UiFree, net, over
<1>15. CASE Runs
  BY <1>0, <1>15, UiIsThread DEF Runs, Goto, SpinsOnlyAfterImpatience, net, over, history
<1> QED
  <2>1. ASSUME NEW t \in Threads, ThreadDoes(t) PROVE SpinsOnlyAfterImpatience'
    BY <2>1, <1>1, <1>2, <1>3, <1>4, <1>5, <1>6, <1>7, <1>8, <1>9, <1>10, <1>11, <1>12
       DEF ThreadDoes
  <2>2. ASSUME NEW c \in Connections, ChannelDoes(c) PROVE SpinsOnlyAfterImpatience'
    BY <2>2, <1>1, <1>13 DEF ChannelDoes
  <2>3. ASSUME ScreenDoes PROVE SpinsOnlyAfterImpatience'
    BY <2>3, <1>1, <1>14, <1>15 DEF ScreenDoes
  <2> QED
    BY Steps, <2>1, <2>2, <2>3

\* A worker's connection that fails or is lost gives the token back.
LEMMA WaitingKept ==
  ASSUME IInv, Next, Alive'
  PROVE  Waiting'
<1>0. /\ Waiting /\ Dials /\ Token /\ LastOnly /\ Leaving
      /\ dialled \in [Threads -> Connections \cup {NoConnection}]
      /\ pc \in [Threads -> Places]
      /\ phase \in [Connections -> Phases]
      /\ main = made /\ made \in 0..MaxConnections
      /\ impatient \in BOOLEAN /\ hurried \in BOOLEAN /\ late \in BOOLEAN /\ listening \in BOOLEAN
  BY Steps DEF IInv, Typed, NetType, ThreadsType, OtherType, ScreenType
<1>1. ASSUME NEW t \in Threads PROVE ~Crashes(t)
  BY DEF Crashes, Alive
<1>2. CASE Looks
  <2>1. UNCHANGED <<pc, dialled, phase, listening, late, impatient>>
    BY <1>2 DEF Looks, net, threads, over, history
  <2> QED
    BY <1>0, <2>1 DEF Waiting, Orderly, Bound, IsLive, Live
<1>3. ASSUME NEW t \in Threads, Asks(t) PROVE Waiting'
  BY <1>0, <1>3, UiIsThread, Bounds, OrderlyBefore
     DEF Asks, Goto, Waiting, Orderly, Bound, IsLive, Live, over, screen, history
<1>4. ASSUME NEW t \in Threads, Answers(t) PROVE Waiting'
  BY <1>0, <1>4, UiIsThread, Bounds, OrderlyBefore
     DEF Answers, Goto, Waiting, Orderly, Bound, IsLive, Live, over, screen, history
<1>5. ASSUME NEW t \in Threads, GivesUp(t) PROVE Waiting'
  BY <1>0, <1>5, UiIsThread, Bounds, OrderlyBefore
     DEF GivesUp, Goto, Waiting, Orderly, Bound, IsLive, Live, net, over, screen, history
<1>6. ASSUME NEW t \in Threads, Goes(t) PROVE Waiting'
  BY <1>0, <1>6, UiIsThread, Bounds, OrderlyBefore
     DEF Goes, Goto, Waiting, Orderly, Bound, IsLive, Live, net, over, screen, history
<1>7. ASSUME NEW t \in Threads, Makes(t) PROVE Waiting'
  BY <1>0, <1>7, UiIsThread, Bounds, OrderlyBefore
     DEF Makes, Goto, Waiting, Orderly, Bound, IsLive, Live, over, screen, history, Dials,
         Dialling
<1>8. ASSUME NEW t \in Threads, Open(t) PROVE Waiting'
  BY <1>0, <1>8, UiIsThread, Bounds, OrderlyBefore
     DEF Open, Goto, Waiting, Orderly, Bound, IsLive, Live, over, screen, history, Dials,
         Dialling
<1>9. ASSUME NEW t \in Threads, Joins(t) PROVE Waiting'
  BY <1>0, <1>9, UiIsThread, Bounds, OrderlyBefore
     DEF Joins, Goto, Waiting, Orderly, Bound, IsLive, Live, net, over, history
<1>10. ASSUME NEW t \in Threads, Reconnect(t) PROVE Waiting'
  BY <1>0, <1>10, UiIsThread, Bounds, OrderlyBefore
     DEF Reconnect, Goto, Waiting, Orderly, Bound, IsLive, Live, net, over, history
<1>11. ASSUME NEW t \in Threads, Parts(t) PROVE Waiting'
  BY <1>0, <1>11, UiIsThread, Bounds, OrderlyBefore
     DEF Parts, Goto, Waiting, Orderly, Bound, IsLive, Live, over, screen, history,
         Leaving, Quitting
<1>12. ASSUME NEW t \in Threads, Replace(t) PROVE Waiting'
  BY <1>0, <1>12, UiIsThread, Bounds, OrderlyBefore
     DEF Replace, Goto, Waiting, Orderly, Bound, IsLive, Live, screen, history, Leaving,
         Quitting
<1>13. ASSUME NEW t \in Threads, StartQuit(t) PROVE Waiting'
  BY <1>0, <1>13, UiIsThread, Bounds, OrderlyBefore
     DEF StartQuit, Goto, Waiting, Orderly, Bound, IsLive, Live, over, screen
<1>14. ASSUME NEW c \in Connections, Established(c) PROVE Waiting'
  BY <1>0, <1>14, UiIsThread, Bounds, OrderlyBefore
     DEF Established, Waiting, Orderly, Bound, IsLive, Live, threads, over, screen,
         history, LastOnly, Token
<1>15. ASSUME NEW c \in Connections, Announces(c) PROVE Waiting'
  BY <1>0, <1>15, UiIsThread, Bounds, OrderlyBefore
     DEF Announces, Waiting, Orderly, Bound, IsLive, Live, threads, over, history
<1>16. ASSUME NEW c \in Connections, Loses(c) PROVE Waiting'
  <2>1. SUFFICES ASSUME Orderly' PROVE Waiting'
    BY DEF Waiting
  <2>2. /\ \A u \in Workers : pc[u] = "idle"
        /\ \E w \in Workers : pc' = [pc EXCEPT ![w] = "lost"]
    BY Steps, LossStartsOne, <2>1, <1>16
  <2>3. \A v, u \in Workers : pc'[v] # "idle" /\ pc'[u] # "idle" => v = u
    BY <1>0, <2>2
  <2>4. \A u \in Workers : pc'[u] # "await"
    BY <1>0, <2>2, UiIsThread
  <2> QED
    BY <2>3, <2>4 DEF Waiting
<1>17. CASE ChooseReconnect
  BY <1>0, <1>17, UiIsThread, Bounds, OrderlyBefore
     DEF ChooseReconnect, Goto, Waiting, Orderly, Bound, IsLive, Live, UiFree, net, over
<1>18. CASE Runs
  BY <1>0, <1>18, UiIsThread, Bounds, OrderlyBefore
     DEF Runs, Goto, Waiting, Orderly, Bound, IsLive, Live, net, over, history
<1> QED
  <2>1. ASSUME NEW t \in Threads, ThreadDoes(t) PROVE Waiting'
    BY <2>1, <1>1, <1>2, <1>3, <1>4, <1>5, <1>6, <1>7, <1>8, <1>9, <1>10, <1>11, <1>12,
       <1>13
       DEF ThreadDoes
  <2>2. ASSUME NEW c \in Connections, ChannelDoes(c) PROVE Waiting'
    BY <2>2, <1>2, <1>14, <1>15, <1>16 DEF ChannelDoes
  <2>3. ASSUME ScreenDoes PROVE Waiting'
    BY <2>3, <1>2, <1>17, <1>18 DEF ScreenDoes
  <2> QED
    BY Steps, <2>1, <2>2, <2>3

\* onDisconnected() posts Show before it starts the thread that may post more.
LEMMA ShownFirstKept ==
  ASSUME IInv, Next, Alive'
  PROVE  ShownFirst'
<1>0. /\ ShownFirst
      /\ ScreenType
      /\ pc \in [Threads -> Places]
  BY Steps DEF IInv, Typed, ThreadsType
<1>1. ASSUME NEW t \in Threads PROVE ~Crashes(t)
  BY DEF Crashes, Alive
<1>2. CASE \/ \E c \in Connections : Established(c)
           \/ Looks
  <2>1. UNCHANGED <<posted, created, pc>>
    BY <1>2 DEF Established, Looks, net, threads, over, screen, history
  <2> QED
    BY <1>0, <2>1 DEF ShownFirst, ShownBefore, ScreenType
<1>3. ASSUME NEW t \in Threads, Asks(t) PROVE ShownFirst'
  BY <1>0, <1>3, UiIsThread
     DEF Asks, Goto, ShownFirst, ShownBefore, ScreenType, over, screen, history
<1>4. ASSUME NEW t \in Threads, Answers(t) PROVE ShownFirst'
  BY <1>0, <1>4, UiIsThread
     DEF Answers, Goto, ShownFirst, ShownBefore, ScreenType, over, screen, history
<1>5. ASSUME NEW t \in Threads, GivesUp(t) PROVE ShownFirst'
  BY <1>0, <1>5, UiIsThread
     DEF GivesUp, Goto, ShownFirst, ShownBefore, ScreenType, net, over, screen, history
<1>6. ASSUME NEW t \in Threads, Goes(t) PROVE ShownFirst'
  BY <1>0, <1>6, UiIsThread
     DEF Goes, Goto, ShownFirst, ShownBefore, ScreenType, net, over, screen, history
<1>7. ASSUME NEW t \in Threads, Makes(t) PROVE ShownFirst'
  BY <1>0, <1>7, UiIsThread
     DEF Makes, Goto, ShownFirst, ShownBefore, ScreenType, over, screen, history
<1>8. ASSUME NEW t \in Threads, Open(t) PROVE ShownFirst'
  BY <1>0, <1>8, UiIsThread
     DEF Open, Goto, ShownFirst, ShownBefore, ScreenType, over, screen, history
<1>9. ASSUME NEW t \in Threads, Joins(t) PROVE ShownFirst'
  <2>1. UNCHANGED <<created, dialogShown>> /\ pc[t] = "await"
        /\ \A w \in Workers : pc'[w] # "idle" => pc[w] # "idle"
    BY <1>0, UiIsThread, <1>9 DEF Joins, Goto
  <2>2. CASE t = Ui
    <3>1. UNCHANGED posted
      BY <2>2, <1>9 DEF Joins
    <3> QED
      BY <1>0, <2>1, <3>1 DEF ShownFirst, ShownBefore
  <2>3. CASE t # Ui
    <3>1. posted' = Append(posted, "reconnected") /\ "reconnected" \in Tasks
      BY <2>3, <1>9 DEF Joins, Tasks
    <3>2. ShownBefore(Len(posted) + 1)
      BY <1>0, <2>1, <2>3 DEF ShownFirst, Threads
    <3> QED
      BY <1>0, <3>1, <3>2, <2>1, PostingShows, Posting DEF ShownFirst
  <2> QED
    BY <2>2, <2>3
<1>10. ASSUME NEW t \in Threads, Reconnect(t) PROVE ShownFirst'
  BY <1>0, <1>10, UiIsThread
     DEF Reconnect, Goto, ShownFirst, ShownBefore, ScreenType, net, over, history
<1>11. ASSUME NEW t \in Threads, Parts(t) PROVE ShownFirst'
  BY <1>0, <1>11, UiIsThread
     DEF Parts, Goto, ShownFirst, ShownBefore, ScreenType, over, screen, history
<1>12. ASSUME NEW t \in Threads, Replace(t) PROVE ShownFirst'
  BY <1>0, <1>12, UiIsThread
     DEF Replace, Goto, ShownFirst, ShownBefore, ScreenType, screen, history
<1>13. ASSUME NEW t \in Threads, StartQuit(t) PROVE ShownFirst'
  BY <1>0, <1>13, UiIsThread
     DEF StartQuit, Goto, ShownFirst, ShownBefore, ScreenType, over, screen
<1>14. ASSUME NEW c \in Connections, Loses(c) PROVE ShownFirst'
  <2>1. UNCHANGED <<created, dialogShown>>
    BY <1>14 DEF Loses
  <2>2. CASE UNCHANGED <<posted, pc>>
    BY <1>0, <2>1, <2>2 DEF ShownFirst, ShownBefore
  <2>3. CASE posted' = Append(posted, "show")
    BY <1>0, <2>1, <2>3, PostingShows, Posting DEF ShownFirst, Tasks
  <2> QED
    BY <1>14, <2>2, <2>3 DEF Loses
<1>15. CASE ChooseReconnect
  BY <1>0, <1>15, UiIsThread
     DEF ChooseReconnect, Goto, ShownFirst, ShownBefore, ScreenType, UiFree, net, over
<1>16. CASE Runs
  <2>1. /\ Len(posted) \in Nat \ {0} /\ Len(posted') = Len(posted) - 1
        /\ \A n \in 1..(Len(posted) - 1) : posted'[n] = posted[n + 1]
    BY <1>0, <1>16, Taking DEF Runs
  <2>2. \A n \in 1..Len(posted) : ShownBefore(n + 1) => ShownBefore(n)'
    BY <1>0, <1>16, TakingShows
  <2>3. \A w \in Workers : pc'[w] = pc[w]
    BY <1>0, <1>16, UiIsThread DEF Runs, Goto
  <2>4. \A n \in 1..Len(posted') : posted'[n] = "reconnected" => ShownBefore(n)'
    BY <1>0, <2>1, <2>2 DEF ShownFirst
  <2>5. (\E w \in Workers : pc'[w] # "idle") => ShownBefore(Len(posted) + 1)'
    BY <1>0, <2>1, <2>2, <2>3 DEF ShownFirst
  <2> QED
    BY <2>4, <2>5 DEF ShownFirst
<1>17. ASSUME NEW c \in Connections, Announces(c) PROVE ShownFirst'
  BY <1>0, <1>17, UiIsThread
     DEF Announces, ShownFirst, ShownBefore, ScreenType, threads, over, history
<1> QED
  <2>1. ASSUME NEW t \in Threads, ThreadDoes(t) PROVE ShownFirst'
    BY <2>1, <1>1, <1>2, <1>3, <1>4, <1>5, <1>6, <1>7, <1>8, <1>9, <1>10, <1>11, <1>12,
       <1>13
       DEF ThreadDoes
  <2>2. ASSUME NEW c \in Connections, ChannelDoes(c) PROVE ShownFirst'
    BY <2>2, <1>2, <1>14, <1>17 DEF ChannelDoes
  <2>3. ASSUME ScreenDoes PROVE ShownFirst'
    BY <2>3, <1>2, <1>15, <1>16 DEF ScreenDoes
  <2> QED
    BY Steps, <2>1, <2>2, <2>3

\* and that Show is run before the NoNetwork of the thread it belongs to.
LEMMA ShownAgainKept ==
  ASSUME IInv, Next, Alive'
  PROVE  ShownAgain'
<1>0. /\ ShownAgain /\ Token
      /\ ScreenType
      /\ pc \in [Threads -> Places]
      /\ impatient \in BOOLEAN /\ hurried \in BOOLEAN /\ late \in BOOLEAN /\ listening \in BOOLEAN
  BY Steps DEF IInv, Typed, ThreadsType, OtherType
<1>1. ASSUME NEW t \in Threads PROVE ~Crashes(t)
  BY DEF Crashes, Alive
<1>2. CASE \/ \E c \in Connections : Established(c)
           \/ Looks
  <2>1. UNCHANGED <<posted, dialogShown, pc, impatient>>
    BY <1>2 DEF Established, Looks, net, threads, over, screen, history
  <2> QED
    BY <1>0, <2>1 DEF ShownAgain, ShownSince, ScreenType
<1>3. ASSUME NEW t \in Threads, Asks(t) PROVE ShownAgain'
  BY <1>0, <1>3, UiIsThread
     DEF Asks, Goto, ShownAgain, ShownSince, ScreenType, over, screen, history
<1>4. ASSUME NEW t \in Threads, Answers(t) PROVE ShownAgain'
  BY <1>0, <1>4, UiIsThread
     DEF Answers, Goto, ShownAgain, ShownSince, ScreenType, over, screen, history
<1>5. ASSUME NEW t \in Threads, GivesUp(t) PROVE ShownAgain'
  BY <1>0, <1>5, UiIsThread
     DEF GivesUp, Goto, ShownAgain, ShownSince, ScreenType, net, over, screen, history
<1>6. ASSUME NEW t \in Threads, Goes(t) PROVE ShownAgain'
  BY <1>0, <1>6, UiIsThread
     DEF Goes, Goto, ShownAgain, ShownSince, ScreenType, net, over, screen, history
<1>7. ASSUME NEW t \in Threads, Makes(t) PROVE ShownAgain'
  BY <1>0, <1>7, UiIsThread
     DEF Makes, Goto, ShownAgain, ShownSince, ScreenType, over, screen, history
<1>8. ASSUME NEW t \in Threads, Open(t) PROVE ShownAgain'
  BY <1>0, <1>8, UiIsThread
     DEF Open, Goto, ShownAgain, ShownSince, ScreenType, over, screen, history
<1>9. ASSUME NEW t \in Threads, Joins(t) PROVE ShownAgain'
  <2>1. UNCHANGED <<created, dialogShown, impatient>>
        /\ \A w \in Workers : pc'[w] = "lost" => pc[w] = "lost"
    BY <1>0, UiIsThread, <1>9 DEF Joins, Goto, history
  <2>2. CASE UNCHANGED posted
    BY <1>0, <2>1, <2>2 DEF ShownAgain, ShownSince
  <2>3. CASE posted' = Append(posted, "reconnected")
    BY <1>0, <2>1, <2>3, PostingShows, Posting DEF ShownAgain, Tasks
  <2> QED
    BY <1>9, <2>2, <2>3 DEF Joins
<1>10. ASSUME NEW t \in Threads, Reconnect(t) PROVE ShownAgain'
  <2>1. /\ UNCHANGED <<created, dialogShown, impatient>>
        /\ t \in Workers /\ pc[t] = "lost" /\ pc'[t] # "lost"
        /\ \A w \in Threads : w # t => pc'[w] = pc[w]
    BY <1>0, UiIsThread, <1>10 DEF Reconnect, Goto, history
  <2>2. CASE UNCHANGED posted
    BY <1>0, <2>1, <2>2, UiIsThread DEF ShownAgain, ShownSince
  <2>3. CASE posted' = Append(posted, "noNetwork")
    <3>1. SUFFICES ASSUME ~impatient' PROVE ShownAgain'
      BY DEF ShownAgain
    <3>2. ShownSince(Len(posted) + 1)
      BY <1>0, <2>1, <3>1 DEF ShownAgain
    <3>3. \A w \in Workers : pc'[w] # "lost"
      BY <1>0, <2>1, <3>1, UiIsThread DEF Token, Bound
    <3> QED
      BY <1>0, <2>1, <2>3, <3>1, <3>2, <3>3, PostingShows, Posting DEF ShownAgain, Tasks
  <2> QED
    BY <1>10, <2>2, <2>3 DEF Reconnect
<1>11. ASSUME NEW t \in Threads, Parts(t) PROVE ShownAgain'
  BY <1>0, <1>11, UiIsThread
     DEF Parts, Goto, ShownAgain, ShownSince, ScreenType, over, screen, history
<1>12. ASSUME NEW t \in Threads, Replace(t) PROVE ShownAgain'
  BY <1>0, <1>12, UiIsThread
     DEF Replace, Goto, ShownAgain, ShownSince, ScreenType, screen, history
<1>13. ASSUME NEW t \in Threads, StartQuit(t) PROVE ShownAgain'
  BY <1>0, <1>13, UiIsThread
     DEF StartQuit, Goto, ShownAgain, ShownSince, ScreenType, over, screen
<1>14. ASSUME NEW c \in Connections, Loses(c) PROVE ShownAgain'
  <2>1. UNCHANGED <<created, dialogShown, impatient>>
    BY <1>14 DEF Loses
  <2>2. CASE UNCHANGED <<posted, pc>>
    BY <1>0, <2>1, <2>2 DEF ShownAgain, ShownSince
  <2>3. CASE posted' = Append(posted, "show")
    BY <1>0, <2>1, <2>3, PostingShows, Posting DEF ShownAgain, Tasks
  <2> QED
    BY <1>14, <2>2, <2>3 DEF Loses
<1>15. CASE ChooseReconnect
  BY <1>0, <1>15, UiIsThread
     DEF ChooseReconnect, Goto, ShownAgain, ShownSince, ScreenType, UiFree, net, over
<1>16. CASE Runs
  <2>1. SUFFICES ASSUME ~impatient' PROVE ShownAgain'
    BY DEF ShownAgain
  <2>2. ~impatient /\ \A w \in Workers : pc'[w] = pc[w]
    BY <1>0, <2>1, UiIsThread, <1>16 DEF Runs, Goto, history
  <2>3. /\ Len(posted) \in Nat \ {0} /\ Len(posted') = Len(posted) - 1
        /\ \A n \in 1..(Len(posted) - 1) : posted'[n] = posted[n + 1]
    BY <1>0, <1>16, Taking DEF Runs
  <2>4. \A n \in 1..Len(posted) : ShownSince(n + 1) => ShownSince(n)'
    BY <1>0, <2>2, <1>16, TakingShows
  <2>5. \A n \in 1..Len(posted') : posted'[n] = "noNetwork" => ShownSince(n)'
    BY <1>0, <2>2, <2>3, <2>4 DEF ShownAgain
  <2>6. (\E w \in Workers : pc'[w] = "lost") => ShownSince(Len(posted) + 1)'
    BY <1>0, <2>2, <2>3, <2>4 DEF ShownAgain
  <2> QED
    BY <2>5, <2>6 DEF ShownAgain
<1>17. ASSUME NEW c \in Connections, Announces(c) PROVE ShownAgain'
  <2>1. UNCHANGED <<created, dialogShown, impatient, pc>>
    BY <1>17 DEF Announces, threads, history
  <2>2. CASE UNCHANGED posted
    BY <1>0, <2>1, <2>2 DEF ShownAgain, ShownSince
  <2>3. CASE posted' = Append(posted, "connected")
    BY <1>0, <2>1, <2>3, PostingShows, Posting DEF ShownAgain, Tasks
  <2> QED
    BY <1>17, <2>2, <2>3 DEF Announces
<1> QED
  <2>1. ASSUME NEW t \in Threads, ThreadDoes(t) PROVE ShownAgain'
    BY <2>1, <1>1, <1>2, <1>3, <1>4, <1>5, <1>6, <1>7, <1>8, <1>9, <1>10, <1>11, <1>12,
       <1>13
       DEF ThreadDoes
  <2>2. ASSUME NEW c \in Connections, ChannelDoes(c) PROVE ShownAgain'
    BY <2>2, <1>2, <1>14, <1>17 DEF ChannelDoes
  <2>3. ASSUME ScreenDoes PROVE ShownAgain'
    BY <2>3, <1>2, <1>15, <1>16 DEF ScreenDoes
  <2> QED
    BY Steps, <2>1, <2>2, <2>3

\* Every change of a connection is followed by the runnable that shows it.
LEMMA UprightKept ==
  ASSUME IInv, Next, Alive'
  PROVE  Upright'
<1>0. /\ Upright /\ Waiting /\ Leaving /\ LastOnly /\ Dials
      /\ ScreenType /\ ThreadsType
      /\ phase \in [Connections -> Phases]
      /\ \A c \in Connections : phase[c] = "none" <=> c > made
      /\ main = made /\ made \in 0..MaxConnections
  BY Steps DEF IInv, Typed, NetType
<1>1. SUFFICES ASSUME Orderly' PROVE Upright'
  BY DEF Upright
<1>2. Orderly /\ listening
  <2>1. Orderly
    BY <1>1, OrderlyBefore
  <2> QED
    BY <2>1 DEF Orderly
<1> DEFINE Up == \E c \in Connections : phase[c] \in {"open", "announced"}
<1>3. ASSUME LastIcon' = LastIcon, Up => Up' PROVE Upright'
  BY <1>0, <1>2, <1>3 DEF Upright
<1>4. ASSUME LastIcon' # "connected" PROVE Upright'
  BY <1>4 DEF Upright
<1>5. ASSUME NEW t \in Threads,
             \/ Asks(t) \/ Answers(t) \/ GivesUp(t) \/ Goes(t) \/ Makes(t) \/ Open(t)
      PROVE  Upright'
  <2>1. UNCHANGED <<posted, icon>>
    BY <1>5 DEF Asks, Answers, GivesUp, Goes, Makes, Open, net, over, screen, history
  <2>2. LastIcon' = LastIcon
    BY <2>1 DEF LastIcon, IconOf
  <2>3. CASE UNCHANGED phase
    BY <1>3, <2>2, <2>3
  <2>4. CASE Makes(t)
    BY <1>0, <1>3, <2>2, <2>4, Bounds DEF Makes
  <2>5. CASE Open(t)
    <3>1. phase[dialled[t]] = "created"
      BY <1>0, <2>5 DEF Open, Dials
    <3>2. Up => Up'
      BY <1>0, <2>5, <3>1 DEF Open
    <3> QED
      BY <1>3, <2>2, <3>2
  <2> QED
    BY <1>5, <2>3, <2>4, <2>5 DEF Asks, Answers, GivesUp, Goes, net
<1>6. ASSUME NEW t \in Threads, Joins(t) PROVE Upright'
  <2>1. dialled[t] \in Connections /\ phase[dialled[t]] \in {"open", "announced", "closed"}
    BY Steps, AwaitedPhase, <1>6 DEF Joins
  <2>2. UNCHANGED <<phase, icon>> /\ pc[t] = "await"
    BY <1>6 DEF Joins, net
  <2>3. CASE t = Ui
    BY <1>3, <1>6, <2>2, <2>3 DEF Joins, LastIcon, IconOf
  <2>4. CASE t # Ui
    <3>1. phase[dialled[t]] # "closed"
      BY <1>0, <1>2, <2>2, <2>4 DEF Waiting, Threads
    <3> QED
      BY <2>1, <2>2, <3>1 DEF Upright
  <2> QED
    BY <2>3, <2>4
<1>7. ASSUME NEW t \in Threads, Reconnect(t) PROVE Upright'
  <2>1. UNCHANGED <<phase, icon, dialog>>
    BY <1>7 DEF Reconnect, net
  <2>2. CASE UNCHANGED posted
    BY <1>3, <2>1, <2>2 DEF LastIcon, IconOf
  <2>3. CASE posted' = Append(posted, "noNetwork")
    BY <1>0, <1>4, <2>1, <2>3, PostingScreen DEF Tasks, IconOf
  <2> QED
    BY <1>7, <2>2, <2>3 DEF Reconnect
<1>8. ASSUME NEW t \in Threads, Parts(t) \/ Replace(t) \/ StartQuit(t) PROVE FALSE
  <2>1. ~listening \/ ~listening'
    BY <1>0, <1>8 DEF Leaving, Quitting, Parts, Replace, StartQuit
  <2> QED
    BY <1>1, <1>2, <2>1 DEF Orderly
<1>9. ASSUME NEW c \in Connections, Established(c) PROVE Upright'
  <2>1. /\ UNCHANGED <<posted, icon>> /\ phase[c] = "connecting"
        /\ \A d \in Connections : d # c => phase'[d] = phase[d]
    BY <1>0, <1>9 DEF Established, screen
  <2>2. LastIcon' = LastIcon
    BY <2>1 DEF LastIcon, IconOf
  <2> QED
    BY <1>3, <2>1, <2>2
<1>10. ASSUME NEW c \in Connections, Announces(c) PROVE Upright'
  BY <1>0, <1>10 DEF Announces, Upright
<1>11. ASSUME NEW c \in Connections, Loses(c) PROVE Upright'
  <2>1. posted' = Append(posted, "show") /\ UNCHANGED <<icon, dialog>>
    BY Steps, LossStartsOne, <1>1, <1>11 DEF Loses
  <2> QED
    BY <1>0, <1>4, <2>1, PostingScreen DEF Tasks, IconOf
<1>12. CASE Looks \/ ChooseReconnect
  <2>1. UNCHANGED <<posted, icon, phase>>
    BY <1>12 DEF Looks, ChooseReconnect, net
  <2> QED
    BY <1>3, <2>1 DEF LastIcon, IconOf
<1>13. CASE Runs
  <2>1. LastIcon' = LastIcon /\ UNCHANGED phase
    BY <1>0, <1>13, TakingScreen DEF Runs, net
  <2> QED
    BY <1>3, <2>1
<1>14. ASSUME NEW t \in Threads PROVE ~Crashes(t)
  BY DEF Crashes, Alive
<1> QED
  BY Steps, <1>5, <1>6, <1>7, <1>8, <1>9, <1>10, <1>11, <1>12, <1>13, <1>14
  DEF ThreadDoes, ChannelDoes, ScreenDoes

\* A thread that posts the end of the dialog is the only one to leave.
LEMMA DialogHasReasonKept ==
  ASSUME IInv, Next, Alive'
  PROVE  DialogHasReason'
<1>0. /\ DialogHasReason /\ Leaving /\ ScreenType /\ ThreadsType
      /\ pc \in [Threads -> Places]
  BY Steps DEF IInv, Typed, ThreadsType
<1> DEFINE Busy == \E w \in Workers : pc[w] # "idle"
<1>1. ASSUME DialogStays' => DialogStays, Busy => Busy',
             listening' => listening, pc[Ui] = "spinning" => pc'[Ui] = "spinning"
      PROVE  DialogHasReason'
  BY <1>0, <1>1 DEF DialogHasReason
<1>2. ASSUME ~DialogStays' \/ ~listening' \/ Busy' PROVE DialogHasReason'
  BY <1>2 DEF DialogHasReason
<1>3. ASSUME NEW t \in Threads,
             \/ Asks(t) \/ Answers(t) \/ GivesUp(t) \/ Goes(t) \/ Makes(t) \/ Open(t)
      PROVE  DialogHasReason'
  <2>1. UNCHANGED <<posted, dialog, listening>>
    BY <1>3 DEF Asks, Answers, GivesUp, Goes, Makes, Open, net, over, screen, history
  <2>2. DialogStays' => DialogStays
    BY <2>1 DEF DialogStays
  <2>3. /\ \E place \in Places : Goto(t, place) /\ (t # Ui => place # "idle")
        /\ pc[t] # "spinning"
    BY <1>3 DEF Asks, Answers, GivesUp, Goes, Makes, Open, Goto, Places, Joining
  <2>4. (Busy => Busy') /\ (pc[Ui] = "spinning" => pc'[Ui] = "spinning")
    BY <1>0, <2>3, UiIsThread DEF Goto
  <2> QED
    BY <1>1, <2>1, <2>2, <2>4
<1>4. ASSUME NEW t \in Threads, Joins(t) PROVE DialogHasReason'
  <2>1. UNCHANGED <<icon, dialog, listening>> /\ Goto(t, "idle") /\ pc[t] = "await"
    BY <1>4 DEF Joins, net
  <2>2. CASE t = Ui
    <3>1. UNCHANGED posted
      BY <1>4, <2>2 DEF Joins
    <3>2. DialogStays' => DialogStays
      BY <2>1, <3>1 DEF DialogStays
    <3>3. (Busy => Busy') /\ (pc[Ui] = "spinning" => pc'[Ui] = "spinning")
      BY <1>0, <2>1, <2>2, UiIsThread DEF Goto
    <3> QED
      BY <1>1, <2>1, <3>2, <3>3
  <2>3. CASE t # Ui
    <3>1. posted' = Append(posted, "reconnected")
      BY <1>4, <2>3 DEF Joins
    <3> QED
      BY <1>0, <1>2, <2>1, <3>1, PostingScreen DEF Tasks
  <2> QED
    BY <2>2, <2>3
<1>5. ASSUME NEW t \in Threads, Reconnect(t) PROVE DialogHasReason'
  <2>1. UNCHANGED <<icon, dialog, listening>> /\ t \in Workers
    BY <1>5 DEF Reconnect, net
  <2>2. CASE Goto(t, "join")
    BY <1>0, <1>2, <2>1, <2>2, UiIsThread DEF Goto
  <2>3. CASE posted' = Append(posted, "noNetwork")
    BY <1>0, <1>2, <2>1, <2>3, PostingScreen DEF Tasks
  <2> QED
    BY <1>5, <2>2, <2>3 DEF Reconnect
<1>6. ASSUME NEW t \in Threads, Parts(t) \/ Replace(t) \/ StartQuit(t) PROVE DialogHasReason'
  <2>1. ~listening'
    BY <1>0, <1>6 DEF Leaving, Quitting, Parts, Replace, StartQuit
  <2> QED
    BY <1>2, <2>1
<1>7. ASSUME NEW c \in Connections, Established(c) PROVE DialogHasReason'
  <2>1. UNCHANGED <<posted, dialog, listening, pc>>
    BY <1>7 DEF Established, threads, screen
  <2>2. DialogStays' => DialogStays
    BY <2>1 DEF DialogStays
  <2> QED
    BY <1>1, <2>1, <2>2
<1>8. ASSUME NEW c \in Connections, Announces(c) PROVE DialogHasReason'
  <2>1. /\ UNCHANGED <<icon, dialog, listening, pc>>
        /\ posted' = Append(posted, "connected") \/ UNCHANGED posted
    BY <1>8 DEF Announces, threads
  <2>2. CASE posted' = Append(posted, "connected")
    BY <1>0, <1>1, <2>1, <2>2, PostingScreen DEF Tasks
  <2>3. CASE UNCHANGED posted
    <3>1. DialogStays' => DialogStays
      BY <2>1, <2>3 DEF DialogStays
    <3> QED
      BY <1>1, <2>1, <3>1
  <2> QED
    BY <2>1, <2>2, <2>3
<1>9. ASSUME NEW c \in Connections, Loses(c) PROVE DialogHasReason'
  <2>1. UNCHANGED listening
    BY <1>9 DEF Loses
  <2>2. CASE \E w \in Workers : pc[w] = "idle" /\ Goto(w, "lost")
    BY <1>0, <1>2, <2>2, UiIsThread DEF Goto
  <2> QED
    BY <1>2, <1>9, <2>1, <2>2 DEF Loses
<1>10. CASE Looks
  <2>1. UNCHANGED <<posted, listening, pc>> /\ dialog' \in {dialog, FALSE}
    BY <1>10 DEF Looks, net, threads
  <2>2. DialogStays' => DialogStays
    BY <2>1 DEF DialogStays
  <2> QED
    BY <1>1, <2>1, <2>2
<1>11. CASE ChooseReconnect
  <2>1. /\ UNCHANGED <<posted, dialog, listening>> /\ pc[Ui] = "idle"
        /\ Goto(Ui, "join") \/ UNCHANGED pc
    BY <1>11 DEF ChooseReconnect, UiFree, net
  <2>2. DialogStays' => DialogStays
    BY <2>1 DEF DialogStays
  <2>3. Busy => Busy'
    BY <1>0, <2>1, UiIsThread DEF Goto
  <2> QED
    BY <1>1, <2>1, <2>2, <2>3
<1>12. CASE Runs
  <2>1. UNCHANGED listening /\ pc[Ui] = "idle" /\ (UNCHANGED pc \/ Goto(Ui, "spinning"))
    BY <1>12 DEF Runs, net
  <2>2. CASE pc'[Ui] = "spinning"
    BY <2>2 DEF DialogHasReason
  <2>3. CASE pc'[Ui] # "spinning"
    <3>1. DialogStays' => DialogStays
      BY <1>0, <1>12, <2>3, TakingScreen
    <3>2. UNCHANGED pc
      BY <1>0, <2>1, <2>3, UiIsThread DEF Goto
    <3> QED
      BY <1>1, <2>1, <3>1, <3>2
  <2> QED
    BY <2>2, <2>3
<1>13. ASSUME NEW t \in Threads PROVE ~Crashes(t)
  BY DEF Crashes, Alive
<1> QED
  BY Steps, <1>3, <1>4, <1>5, <1>6, <1>7, <1>8, <1>9, <1>10, <1>11, <1>12, <1>13
  DEF ThreadDoes, ChannelDoes, ScreenDoes

\* A connection that is announced is the only one, and posts its icon last.
LEMMA SeenConnectedKept ==
  ASSUME IInv, Next, Alive'
  PROVE  SeenConnected'
<1>0. /\ SeenConnected /\ Token /\ LastOnly /\ Leaving /\ Dials /\ ScreenType /\ ThreadsType
      /\ phase \in [Connections -> Phases]
      /\ \A c \in Connections : phase[c] = "none" <=> c > made
      /\ made \in 0..MaxConnections /\ impatient \in BOOLEAN
  BY Steps DEF IInv, Typed, NetType, OtherType
<1> DEFINE On == \E c \in Connections : phase[c] = "announced"
<1>1. ASSUME LastIcon' = LastIcon, On' => On, listening' => listening, impatient => impatient'
      PROVE  SeenConnected'
  BY <1>0, <1>1 DEF SeenConnected
<1>2. ASSUME ~On' \/ ~listening' \/ impatient' \/ LastIcon' = "connected" PROVE SeenConnected'
  BY <1>2 DEF SeenConnected
<1>3. ASSUME NEW t \in Threads,
             \/ Asks(t) \/ Answers(t) \/ GivesUp(t) \/ Goes(t) \/ Makes(t) \/ Open(t)
      PROVE  SeenConnected'
  <2>1. UNCHANGED <<posted, icon, listening, impatient>>
    BY <1>3 DEF Asks, Answers, GivesUp, Goes, Makes, Open, net, over, screen, history
  <2>2. LastIcon' = LastIcon
    BY <2>1 DEF LastIcon, IconOf
  <2>3. On' => On
    BY <1>0, <1>3, Bounds DEF Asks, Answers, GivesUp, Goes, Makes, Open, net
  <2> QED
    BY <1>1, <2>1, <2>2, <2>3
<1>4. ASSUME NEW t \in Threads, Joins(t) PROVE SeenConnected'
  <2>1. UNCHANGED <<icon, phase, listening, impatient, dialog>>
    BY <1>4 DEF Joins, net, history
  <2>2. CASE t = Ui
    <3>1. LastIcon' = LastIcon
      BY <1>4, <2>1, <2>2 DEF Joins, LastIcon, IconOf
    <3> QED
      BY <1>1, <2>1, <3>1
  <2>3. CASE t # Ui
    <3>1. posted' = Append(posted, "reconnected")
      BY <1>4, <2>3 DEF Joins
    <3>2. LastIcon' = "connected"
      BY <1>0, <2>1, <3>1, PostingScreen DEF Tasks, IconOf
    <3> QED
      BY <1>2, <3>2
  <2> QED
    BY <2>2, <2>3
<1>5. ASSUME NEW t \in Threads, Reconnect(t) PROVE SeenConnected'
  <2>1. UNCHANGED <<phase, icon, listening, impatient>> /\ Bound(t)
    BY <1>5 DEF Reconnect, net, history, Bound
  <2>2. impatient \/ ~On
    BY <1>0, <2>1 DEF Token, IsLive, Live
  <2> QED
    BY <1>2, <2>1, <2>2
<1>6. ASSUME NEW t \in Threads, Parts(t) \/ Replace(t) \/ StartQuit(t) PROVE SeenConnected'
  <2>1. ~listening'
    BY <1>0, <1>6 DEF Leaving, Quitting, Parts, Replace, StartQuit
  <2> QED
    BY <1>2, <2>1
<1>7. ASSUME NEW c \in Connections, Established(c) PROVE SeenConnected'
  <2>1. UNCHANGED <<posted, icon, listening, impatient>>
    BY <1>7 DEF Established, screen, history
  <2>2. LastIcon' = LastIcon
    BY <2>1 DEF LastIcon, IconOf
  <2>3. On' => On
    BY <1>0, <1>7 DEF Established
  <2> QED
    BY <1>1, <2>1, <2>2, <2>3
<1>8. ASSUME NEW c \in Connections, Announces(c) PROVE SeenConnected'
  <2>1. UNCHANGED <<icon, listening, dialog>>
    BY <1>8 DEF Announces
  <2>2. CASE posted' = Append(posted, "connected")
    <3>1. LastIcon' = "connected"
      BY <1>0, <2>1, <2>2, PostingScreen DEF Tasks, IconOf
    <3> QED
      BY <1>2, <3>1
  <2>3. CASE ~listening
    BY <1>2, <2>1, <2>3
  <2> QED
    BY <1>8, <2>2, <2>3 DEF Announces
<1>9. ASSUME NEW c \in Connections, Loses(c) PROVE SeenConnected'
  <2>1. UNCHANGED impatient /\ phase[c] \in {"open", "announced"}
    BY <1>9 DEF Loses
  <2>2. impatient \/ \A d \in Connections : phase[d] = "announced" => d = c
    BY <1>0, <2>1 DEF LastOnly, IsLive, Live
  <2>3. impatient \/ ~On'
    BY <1>0, <1>9, <2>2 DEF Loses
  <2> QED
    BY <1>2, <2>1, <2>3
<1>10. CASE Looks \/ ChooseReconnect
  <2>1. UNCHANGED <<posted, icon, phase, listening>> /\ (impatient => impatient')
    BY <1>0, <1>10 DEF Looks, ChooseReconnect, net, history
  <2>2. LastIcon' = LastIcon
    BY <2>1 DEF LastIcon, IconOf
  <2> QED
    BY <1>1, <2>1, <2>2
<1>11. CASE Runs
  <2>1. LastIcon' = LastIcon /\ UNCHANGED <<phase, listening, impatient>>
    BY <1>0, <1>11, TakingScreen DEF Runs, net, history
  <2> QED
    BY <1>1, <2>1
<1>12. ASSUME NEW t \in Threads PROVE ~Crashes(t)
  BY DEF Crashes, Alive
<1> QED
  BY Steps, <1>3, <1>4, <1>5, <1>6, <1>7, <1>8, <1>9, <1>10, <1>11, <1>12
  DEF ThreadDoes, ChannelDoes, ScreenDoes

\* A worker starts with a loss, and what is closed stays closed.
LEMMA LossFirstKept ==
  ASSUME IInv, Next, Alive'
  PROVE  LossFirst'
<1>0. /\ LossFirst /\ Dials /\ ThreadsType
      /\ phase \in [Connections -> Phases]
      /\ \A c \in Connections : phase[c] = "none" <=> c > made
      /\ main = made /\ made \in 0..MaxConnections
  BY Steps DEF IInv, Typed, NetType
<1> DEFINE Busy == \E w \in Workers : pc[w] # "idle"
<1> DEFINE Lost == \E c \in Connections : phase[c] = "closed"
<1>1. ASSUME Busy' => Busy, Lost => Lost' PROVE LossFirst'
  BY <1>0, <1>1 DEF LossFirst
<1>2. ASSUME NEW t \in Threads, ThreadDoes(t) PROVE LossFirst'
  <2>1. /\ \E place \in Places : Goto(t, place)
        /\ pc[t] # "idle" \/ t = Ui
    BY <1>2 DEF ThreadDoes, Crashes, Alive, Asks, Answers, GivesUp, Goes, Makes, Open, Joins,
                Reconnect, Parts, Replace, StartQuit, Goto, Places, Joining, Quitting
  <2>2. Busy' => Busy
    BY <1>0, <2>1, UiIsThread DEF Goto, ThreadsType
  <2>3. CASE UNCHANGED phase
    BY <1>1, <2>2, <2>3
  <2>4. CASE Makes(t)
    <3>1. Lost => Lost'
      BY <1>0, <2>4, Bounds DEF Makes
    <3> QED
      BY <1>1, <2>2, <3>1
  <2>5. CASE Open(t)
    <3>1. phase[dialled[t]] = "created"
      BY <1>0, <2>5 DEF Open, Dials
    <3>2. Lost => Lost'
      BY <1>0, <2>5, <3>1 DEF Open
    <3> QED
      BY <1>1, <2>2, <3>2
  <2>6. CASE Parts(t)
    <3>1. Lost => Lost'
      BY <1>0, <2>6 DEF Parts
    <3> QED
      BY <1>1, <2>2, <3>1
  <2> QED
    BY <1>2, <2>3, <2>4, <2>5, <2>6
    DEF ThreadDoes, Crashes, Alive, Asks, Answers, GivesUp, Goes, Joins, Reconnect, Replace,
        StartQuit, net
<1>3. ASSUME NEW c \in Connections, Established(c) \/ Announces(c) PROVE LossFirst'
  <2>1. UNCHANGED pc
    BY <1>3 DEF Established, Announces, threads
  <2>2. Lost => Lost'
    BY <1>0, <1>3 DEF Established, Announces
  <2> QED
    BY <1>1, <2>1, <2>2
<1>4. ASSUME NEW c \in Connections, Loses(c) PROVE LossFirst'
  BY <1>0, <1>4 DEF Loses, LossFirst
<1>5. CASE ScreenDoes
  <2>1. UNCHANGED phase /\ \A w \in Workers : pc'[w] = pc[w]
    BY <1>0, <1>5, UiIsThread
    DEF ScreenDoes, Looks, ChooseReconnect, Runs, Goto, net, threads, ThreadsType
  <2> QED
    BY <1>1, <2>1
<1> QED
  BY Steps, <1>2, <1>3, <1>4, <1>5 DEF ChannelDoes

-----------------------------------------------------------------------------
\* The invariant is kept: by a step that ends the app its unconditional part.
LEMMA StepIInv == IInv /\ [Next]_vars => IInv'
<1> SUFFICES ASSUME IInv, [Next]_vars PROVE IInv'
  OBVIOUS
<1>1. CASE Next
  <2>1. Typed'
    BY <1>1, NetTypeKept, ThreadsTypeKept, OverTypeKept, ScreenTypeKept, OtherTypeKept DEF Typed
  <2>2. CrashCauses' /\ SpinsOnlyAfterImpatience' /\ LastOnly'
    BY <1>1, CrashCausesKept, SpinsOnlyAfterImpatienceKept, LastOnlyKept
  <2>3. ASSUME Alive'
        PROVE  /\ WorkersPlaces' /\ Dials' /\ Meetings' /\ Token' /\ OwnMeeting'
               /\ Leaving' /\ Closing' /\ ShownFirst' /\ ShownAgain' /\ Waiting' /\ Upright'
               /\ DialogHasReason' /\ SeenConnected' /\ LossFirst'
    BY <1>1, <2>3, WorkersPlacesKept, DialsKept, MeetingsKept, TokenKept, OwnMeetingKept,
       LeavingKept, ClosingKept, ShownFirstKept, ShownAgainKept, WaitingKept, UprightKept,
       DialogHasReasonKept, SeenConnectedKept, LossFirstKept
  <2> QED
    BY <2>1, <2>2, <2>3 DEF IInv
<1>2. CASE UNCHANGED vars
  <2> USE <1>2 DEF vars, net, threads, screen, over, history
  <2>1. Typed'
    BY DEF IInv, Typed, NetType, ThreadsType, OverType, ScreenType, OtherType
  <2>2. CrashCauses' /\ SpinsOnlyAfterImpatience' /\ LastOnly' /\ Alive' = Alive
    BY DEF IInv, CrashCauses, SpinsOnlyAfterImpatience, LastOnly, IsLive, Alive
  <2>3. ASSUME Alive
        PROVE  WorkersPlaces' /\ Dials' /\ Meetings' /\ Token' /\ OwnMeeting'
    BY <2>3 DEF IInv, WorkersPlaces, Dials, Dialling, Meetings, Token, OwnMeeting, Bound, IsLive
  <2>4. ASSUME Alive
        PROVE  Leaving' /\ Closing' /\ ShownFirst' /\ ShownAgain'
    BY <2>4 DEF IInv, Leaving, Closing, IsLive, ShownFirst, ShownBefore, ShownAgain, ShownSince
  <2>5. ASSUME Alive
        PROVE  Waiting' /\ Upright'
    BY <2>5 DEF IInv, Waiting, Upright, Orderly, Bound, IsLive, LastIcon, IconOf
  <2>6. ASSUME Alive
        PROVE  DialogHasReason' /\ SeenConnected' /\ LossFirst'
    BY <2>6 DEF IInv, DialogHasReason, SeenConnected, LossFirst, LastIcon, IconOf, DialogStays
  <2> QED
    BY <2>1, <2>2, <2>3, <2>4, <2>5, <2>6 DEF IInv
<1> QED
  BY <1>1, <1>2

\* The inductive invariant holds in every state of every behaviour.
THEOREM Invariance == Spec => []IInv
<1> QED
  BY InitIInv, StepIInv, PTL DEF Spec

\* Types; connections are made one after the other and the last is the current one.
THEOREM TypeCorrect == Spec => []TypeOK
<1>1. IInv => TypeOK
  BY TypeOKIsTyped DEF IInv
<1> QED
  BY Invariance, <1>1, PTL

\* The invariant in the words of the properties the runs check.
LEMMA IInvImpliesNoStray == IInv => NoStrayConnection
<1> SUFFICES ASSUME IInv PROVE NoStrayConnection
  OBVIOUS
<1>1. OneConnection
  <2>1. SUFFICES ASSUME ~impatient
                 PROVE  Cardinality({c \in Connections : phase[c] \in Live}) <= 1
    BY DEF OneConnection
  <2>2. {c \in Connections : phase[c] \in Live} \subseteq {made}
    BY <2>1 DEF IInv, LastOnly, IsLive
  <2>3. IsFiniteSet({made}) /\ Cardinality({made}) = 1
    BY FS_Singleton
  <2> QED
    BY <2>2, <2>3, FS_Subset, FS_CardinalityType
<1>2. QuitLeavesMeeting
  BY DEF IInv, QuitLeavesMeeting, Closing, IsLive, Alive
<1> QED
  BY <1>1, <1>2 DEF NoStrayConnection

\* The user is in the meeting once, whatever is lost and however often it
\* reconnects, and a quit that runs beside no join leaves no connection behind.
THEOREM NoStrays == Spec => []NoStrayConnection
<1> QED
  BY Invariance, IInvImpliesNoStray, PTL

\* A reconnection that fails to join ends the app with no overlap at all, but
\* only on a worker and after a loss; every other way to end, and the UI
\* thread's endless wait, needs the overlap that opens it; and the dialog that
\* is dismissed was always shown before.
THEOREM FailuresExplained == Spec => []FailuresNeedOverlap
<1>1. IInv => FailuresNeedOverlap
  BY DEF IInv, FailuresNeedOverlap
<1> QED
  BY Invariance, <1>1, PTL

\* When nothing is left to run the dialog is gone, whatever overlapped.  Who is
\* connected sees it unless Reconnect was chosen out of turn; an icon that says
\* connected can also be left behind by a loss that comes before the thread
\* that connected goes on.
THEOREM ScreenIsRight == Spec => []ScreenTellsTruth
<1>1. IInv => ScreenTellsTruth
  <2>1. SUFFICES ASSUME IInv, Settled
                 PROVE  /\ ~dialog
                        /\ ~impatient /\ (\E c \in Connections : phase[c] = "announced")
                             => icon = "connected"
                        /\ ~impatient /\ ~late /\ icon = "connected"
                             => \E c \in Connections : phase[c] = "announced"
    BY DEF ScreenTellsTruth
  <2>2. /\ app = "running" /\ posted = <<>> /\ \A t \in Threads : pc[t] = "idle"
        /\ \A c \in Connections : phase[c] \notin {"created", "connecting", "open"}
    BY <2>1 DEF Settled
  <2>3. /\ Alive /\ Leaving /\ DialogHasReason /\ SeenConnected /\ Upright
        /\ listening \in BOOLEAN
    BY <2>1, <2>2 DEF IInv, Alive, Typed, OtherType
  <2>4. listening
    BY <2>2, <2>3 DEF Leaving, Quitting
  <2>5. LastIcon = icon /\ (dialog => DialogStays)
    <3>1. posted = <<>> /\ Len(posted) = 0
      BY <2>2
    <3> QED
      BY <3>1 DEF LastIcon, IconOf, DialogStays
  <2>6. ~dialog
    BY <2>2, <2>3, <2>4, <2>5, UiIsThread DEF DialogHasReason
  <2>7. ~impatient /\ (\E c \in Connections : phase[c] = "announced") => icon = "connected"
    BY <2>3, <2>4, <2>5 DEF SeenConnected
  <2>8. ~impatient /\ ~late /\ icon = "connected" => \E c \in Connections : phase[c] = "announced"
    BY <2>2, <2>3, <2>4, <2>5 DEF Upright, Orderly
  <2> QED
    BY <2>6, <2>7, <2>8
<1> QED
  BY Invariance, <1>1, PTL
=============================================================================
