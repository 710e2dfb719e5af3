------------------------ MODULE VoiceConferenceProofs ------------------------
(***************************************************************************)
(* The voice conference, for any number of callers, connections, changes   *)
(* and commands.                                                           *)
(*                                                                         *)
(* The map of the module.  One step of the handshake at most is on its way *)
(* (Handshake).  Of every topic, whether a caller is in the conference and *)
(* what each of its attributes is, the last message on its way that is     *)
(* about it says what is so, and when there is none, the module knows      *)
(* (Channel).  The list is no exception: the messages before it lead to    *)
(* what it says (Snapshot), so a caller that is in the map and in the list *)
(* has in the map the state the list gives it.                             *)
(*                                                                         *)
(* The screen.  What the list shows and what the runnables will do to it   *)
(* are put in one line (Timeline), in which an entry is an addition that   *)
(* was made: a runnable that adds does not change the line, one that       *)
(* removes or clears drops items of it.  Of the items behind the last      *)
(* clear, those about a caller are as the module knows the caller          *)
(* (OnLine); and everywhere in it a change of status comes after an        *)
(* addition, and not after a removal (Backed), which is why the runnable   *)
(* that shows it finds an entry.                                           *)
(***************************************************************************)
EXTENDS VoiceConference, FiniteSetTheorems, SequenceTheorems, TLAPS

Statuses == [Attributes -> BOOLEAN]
Maps == UNION {[S -> Statuses] : S \in SUBSET Voices}
Requests ==
  [type : {"query"}, name : {"connectSO", "getMeetMeUsers", "isRoomMuted"}]
    \cup [type : {"muteUnmuteUser"}, who : Voices, value : BOOLEAN]
    \cup [type : {"kickUSer"}, who : Voices]
    \cup [type : {"muteAllUsers"}, value : BOOLEAN]
Messages ==
  [type : {"clear"}]
    \cup [type : {"users"}, map : Maps]
    \cup [type : {"roomMuted", "muteStateCallback"}, value : BOOLEAN]
    \cup [type : {"userJoin"}, who : Voices, status : Statuses]
    \cup [type : {"userLeft"}, who : Voices]
    \cup [type : {"attribute"}, who : Voices, attr : Attributes, value : BOOLEAN]
Tasks == [op : {"clear", "add", "remove", "status"}, ref : Nat,
          attr : Attributes \cup {"none"}, listed : BOOLEAN]
Menus == [pos : Nat, who : Voices \cup {"nobody"}, shifted : BOOLEAN]

\* What a message is about.
Mentions(m, u) ==
  \/ m.type \in {"userJoin", "userLeft", "attribute"} /\ m.who = u
  \/ m.type = "users" /\ u \in DOMAIN m.map

-----------------------------------------------------------------------------
(* Sequences.                                                              *)
LEMMA TailFacts ==
  ASSUME NEW S, NEW q \in Seq(S), q # <<>>
  PROVE  /\ Tail(q) \in Seq(S) /\ Len(Tail(q)) = Len(q) - 1
         /\ Len(q) \in Nat /\ Len(q) >= 1 /\ DOMAIN q = 1..Len(q)
         /\ DOMAIN Tail(q) = 1..(Len(q) - 1)
         /\ Head(q) = q[1] /\ q[1] \in S
         /\ \A i \in 1..(Len(q) - 1) : Tail(q)[i] = q[i + 1]
  BY HeadTailProperties, EmptySeq, LenProperties, SMT

LEMMA AppendFacts ==
  ASSUME NEW S, NEW q \in Seq(S), NEW e \in S
  PROVE  /\ Append(q, e) \in Seq(S) /\ Len(Append(q, e)) = Len(q) + 1
         /\ Len(q) \in Nat /\ DOMAIN q = 1..Len(q)
         /\ DOMAIN Append(q, e) = 1..(Len(q) + 1)
         /\ \A i \in 1..Len(q) : Append(q, e)[i] = q[i]
         /\ Append(q, e)[Len(q) + 1] = e
  BY AppendProperties, LenProperties, SMT

LEMMA ConcatFacts ==
  ASSUME NEW S, NEW q \in Seq(S), NEW r \in Seq(S)
  PROVE  /\ q \o r \in Seq(S) /\ Len(q \o r) = Len(q) + Len(r)
         /\ Len(q) \in Nat /\ Len(r) \in Nat
         /\ DOMAIN q = 1..Len(q) /\ DOMAIN r = 1..Len(r)
         /\ DOMAIN (q \o r) = 1..(Len(q) + Len(r))
         /\ \A i \in 1..Len(q) : (q \o r)[i] = q[i]
         /\ \A i \in 1..Len(r) : (q \o r)[Len(q) + i] = r[i]
  <1>1. q \o r \in Seq(S) /\ Len(q \o r) = Len(q) + Len(r)
    BY ConcatProperties
  <1>2. \A i \in 1..(Len(q) + Len(r)) :
          (q \o r)[i] = IF i <= Len(q) THEN q[i] ELSE r[i - Len(q)]
    BY ConcatProperties
  <1>3. Len(q) \in Nat /\ Len(r) \in Nat /\ DOMAIN q = 1..Len(q) /\ DOMAIN r = 1..Len(r)
    BY LenProperties
  <1>4. DOMAIN (q \o r) = 1..(Len(q) + Len(r))
    BY <1>1, LenProperties
  <1>5. \A i \in 1..Len(q) : (q \o r)[i] = q[i]
    BY <1>2, <1>3
  <1>6. \A i \in 1..Len(r) : (q \o r)[Len(q) + i] = r[i]
    BY <1>2, <1>3
  <1> QED
    BY <1>1, <1>3, <1>4, <1>5, <1>6

\* An entry is taken out.
LEMMA RemoveAtFacts ==
  ASSUME NEW S, NEW s \in Seq(S), NEW i \in 1..Len(s)
  PROVE  /\ RemoveAt(s, i) \in Seq(S)
         /\ Len(RemoveAt(s, i)) = Len(s) - 1
         /\ \A j \in 1..(Len(s) - 1) :
              RemoveAt(s, i)[j] = IF j < i THEN s[j] ELSE s[j + 1]
  <1> DEFINE a == SubSeq(s, 1, i - 1)
             b == SubSeq(s, i + 1, Len(s))
  <1>0. Len(s) \in Nat /\ \A j \in 1..Len(s) : s[j] \in S
    BY LenProperties, ElementOfSeq
  <1>1. a \in Seq(S) /\ Len(a) = i - 1 /\ \A j \in 1..(i - 1) : a[j] = s[j]
    BY <1>0, SMT
  <1>2. b \in Seq(S) /\ Len(b) = Len(s) - i /\ \A j \in 1..(Len(s) - i) : b[j] = s[i + j]
    BY <1>0, SMT
  <1> HIDE DEF a, b
  <1>10. a \in Seq(S) /\ b \in Seq(S)
    BY <1>1, <1>2
  <1>11. a \o b \in Seq(S) /\ Len(a \o b) = Len(a) + Len(b)
    BY <1>10, ConcatFacts
  <1>12. \A j \in 1..Len(a) : (a \o b)[j] = a[j]
    BY <1>10, ConcatFacts
  <1>13. \A j \in 1..Len(b) : (a \o b)[Len(a) + j] = b[j]
    BY <1>10, ConcatFacts
  <1>3. /\ a \o b \in Seq(S) /\ Len(a \o b) = Len(a) + Len(b)
        /\ \A j \in 1..Len(a) : (a \o b)[j] = a[j]
        /\ \A j \in 1..Len(b) : (a \o b)[Len(a) + j] = b[j]
    BY <1>11, <1>12, <1>13
  <1>4. RemoveAt(s, i) = a \o b
    BY DEF RemoveAt, a, b
  <1>5. ASSUME NEW j \in 1..(Len(s) - 1)
        PROVE  (a \o b)[j] = IF j < i THEN s[j] ELSE s[j + 1]
    <2>1. CASE j < i
      <3>1. j \in 1..Len(a)
        BY <2>1, <1>0, <1>1
      <3> QED
        BY <3>1, <2>1, <1>0, <1>1, <1>3
    <2>2. CASE ~(j < i)
      <3>1. j - (i - 1) \in 1..Len(b) /\ Len(a) + (j - (i - 1)) = j
        BY <2>2, <1>0, <1>1, <1>2
      <3>2. (a \o b)[j] = b[j - (i - 1)]
        BY <3>1, <1>3
      <3>3. b[j - (i - 1)] = s[i + (j - (i - 1))] /\ i + (j - (i - 1)) = j + 1
        BY <3>1, <1>0, <1>2
      <3> QED
        BY <3>2, <3>3, <2>2, <1>0
    <2> QED
      BY <2>1, <2>2
  <1>6. Len(a \o b) = Len(s) - 1
    BY <1>0, <1>1, <1>2, <1>3
  <1> QED
    BY <1>3, <1>4, <1>5, <1>6, Zenon

-----------------------------------------------------------------------------
(* The messages of the two channels.                                       *)
LEMMA MessageFields ==
  ASSUME NEW m \in Messages
  PROVE  /\ m.type \in {"clear", "users", "roomMuted", "muteStateCallback",
                        "userJoin", "userLeft", "attribute"}
         /\ m.type = "users" =>
              /\ DOMAIN m.map \subseteq Voices
              /\ \A u \in DOMAIN m.map : m.map[u] \in Statuses
         /\ m.type \in {"roomMuted", "muteStateCallback", "attribute"} => m.value \in BOOLEAN
         /\ m.type \in {"userJoin", "userLeft", "attribute"} => m.who \in Voices
         /\ m.type = "userJoin" => m.status \in Statuses
         /\ m.type = "attribute" => m.attr \in Attributes
  BY DEF Messages, Maps

LEMMA MessageForms ==
  /\ [type |-> "clear"] \in Messages
  /\ \A map \in Maps : [type |-> "users", map |-> map] \in Messages
  /\ \A v \in BOOLEAN : [type |-> "roomMuted", value |-> v] \in Messages
  /\ \A v \in BOOLEAN : [type |-> "muteStateCallback", value |-> v] \in Messages
  /\ \A u \in Voices, s \in Statuses : [type |-> "userJoin", who |-> u, status |-> s] \in Messages
  /\ \A u \in Voices : [type |-> "userLeft", who |-> u] \in Messages
  /\ \A u \in Voices, a \in Attributes, v \in BOOLEAN :
       [type |-> "attribute", who |-> u, attr |-> a, value |-> v] \in Messages
  BY DEF Messages

LEMMA RequestFields ==
  ASSUME NEW r \in Requests
  PROVE  /\ r.type \in {"query", "muteUnmuteUser", "kickUSer", "muteAllUsers"}
         /\ r.type = "query" => r.name \in {"connectSO", "getMeetMeUsers", "isRoomMuted"}
         /\ r.type \in {"muteUnmuteUser", "kickUSer"} => r.who \in Voices
         /\ r.type \in {"muteUnmuteUser", "muteAllUsers"} => r.value \in BOOLEAN
  BY DEF Requests

LEMMA RequestForms ==
  /\ \A n \in {"connectSO", "getMeetMeUsers", "isRoomMuted"} : [type |-> "query", name |-> n] \in Requests
  /\ \A u \in Voices, v \in BOOLEAN : [type |-> "muteUnmuteUser", who |-> u, value |-> v] \in Requests
  /\ \A u \in Voices : [type |-> "kickUSer", who |-> u] \in Requests
  /\ \A v \in BOOLEAN : [type |-> "muteAllUsers", value |-> v] \in Requests
  BY DEF Requests

\* The requests the module writes when it is made, and when it is told to clear.
LEMMA QueriesFacts ==
  /\ Queries(SubscribeRequests) \in Seq(Requests)
  /\ Len(Queries(SubscribeRequests)) = 1
  /\ Queries(SubscribeRequests)[1] = [type |-> "query", name |-> "connectSO"]
  /\ Queries(ClearRequests) \in Seq(Requests)
  /\ Len(Queries(ClearRequests)) = 2
  /\ Queries(ClearRequests)[1] = [type |-> "query", name |-> "getMeetMeUsers"]
  /\ Queries(ClearRequests)[2] = [type |-> "query", name |-> "isRoomMuted"]
  <1>1. Queries(SubscribeRequests) = [i \in 1..1 |-> [type |-> "query", name |-> "connectSO"]]
    BY DEF Queries, SubscribeRequests
  <1>2. Queries(ClearRequests) =
          [i \in 1..2 |-> [type |-> "query", name |-> ClearRequests[i]]]
    BY DEF Queries, ClearRequests
  <1>3. ClearRequests[1] = "getMeetMeUsers" /\ ClearRequests[2] = "isRoomMuted"
    BY DEF ClearRequests
  <1>4. \A i \in 1..2 : [type |-> "query", name |-> ClearRequests[i]] \in Requests
    BY <1>3, RequestForms
  <1>5. Queries(ClearRequests) \in Seq(Requests)
    BY <1>2, <1>4, IsASeq
  <1>6. Queries(SubscribeRequests) \in Seq(Requests)
    BY <1>1, RequestForms, IsASeq
  <1>7. DOMAIN Queries(SubscribeRequests) = 1..1 /\ DOMAIN Queries(ClearRequests) = 1..2
    BY <1>1, <1>2
  <1>8. Len(Queries(SubscribeRequests)) = 1 /\ Len(Queries(ClearRequests)) = 2
    BY <1>5, <1>6, <1>7, LenProperties
  <1> QED
    BY <1>1, <1>2, <1>3, <1>5, <1>6, <1>8

-----------------------------------------------------------------------------
(* Types, and what is known of the callers that are mentioned anywhere.    *)
ServerTypes ==
  /\ voices \subseteq called /\ called \subseteq Voices
  /\ status \in [Voices -> Statuses]
  /\ allMuted \in BOOLEAN /\ subscribed \in BOOLEAN

WireTypes ==
  /\ toServer \in Seq(Requests) /\ toClient \in Seq(Messages)
  /\ conn \in {"closed", "joining", "listening"} /\ sessions \in 0..MaxSessions
  /\ \A k \in DOMAIN toClient, u \in Voices : Mentions(toClient[k], u) => u \in called

ModuleTypes ==
  /\ received \in BOOLEAN /\ roomMuted \in BOOLEAN /\ doubled \subseteq Voices
  /\ objects \in Seq(Entry)
  /\ \A o \in DOMAIN objects : objects[o].who \in called
  /\ DOMAIN listeners \subseteq Voices
  /\ \A u \in DOMAIN listeners :
       listeners[u] \in DOMAIN objects /\ objects[listeners[u]].who = u

ScreenTypes ==
  /\ ui \in Seq(Tasks)
  /\ \A i \in DOMAIN ui :
       /\ ui[i].ref \in DOMAIN objects \cup {NullListener}
       /\ ui[i].op \in {"add", "status"} => ui[i].ref # NullListener
       /\ ui[i].op = "status" => ui[i].attr \in Attributes \ {"locked"}
  /\ list \in Seq(Entry)
  /\ \A i \in DOMAIN list : list[i].who \in called
  /\ menu \in Menus

RestTypes ==
  /\ app \in {"running", "crashed"}
  /\ faults \subseteq [site : Sites, known : BOOLEAN]
  /\ events \in 0..MaxEvents

Types == ServerTypes /\ WireTypes /\ ModuleTypes /\ ScreenTypes /\ RestTypes

-----------------------------------------------------------------------------
(* The steps.  What the server does to the conference, and what it says of *)
(* it, whether somebody else asked for it or this client.                  *)
Joins(u) ==
  /\ called' = called \cup {u} /\ voices' = voices \cup {u}
  /\ Broadcast([type |-> "userJoin", who |-> u, status |-> status[u]])
  /\ UNCHANGED <<status, allMuted, subscribed>>

ConferenceChanges ==
  \/ \E u \in Voices \ called : Joins(u)
  \/ \E u \in voices : Leave(u)
  \/ \E u \in voices, a \in Attributes, v \in BOOLEAN : SetAttribute(u, a, v)
  \/ \E v \in BOOLEAN : SetRoomMuted(v)
  \/ UNCHANGED <<server, toClient>>

ServerStep ==
  /\ ClientUnchanged
  /\ \/ conn = "listening" /\ toServer' = toServer /\ ConferenceChanges
     \/ /\ toServer # <<>> /\ toServer' = Tail(toServer)
        /\ Head(toServer).type # "query" /\ ConferenceChanges
     \/ /\ toServer # <<>> /\ toServer' = Tail(toServer)
        /\ Head(toServer).type = "query" /\ Answer(Head(toServer).name)

\* A step of the server, in terms of what it does to the conference.
LEMMA ServerSteps ==
  ASSUME Types, Server
  PROVE  ServerStep
  <1>a. "muted" \in Attributes
    BY AttributesAssumption
  <1>1. CASE ServerAnswers
    <2>1. /\ ClientUnchanged /\ toServer # <<>> /\ toServer' = Tail(toServer)
          /\ Head(toServer).type = "query" => Answer(Head(toServer).name)
          /\ Head(toServer).type # "query" => Obey(Head(toServer))
      BY <1>1 DEF ServerAnswers
    <2>2. Head(toServer) \in Requests
      BY <2>1, TailFacts DEF Types, WireTypes
    <2>3. ASSUME Obey(Head(toServer)) PROVE ConferenceChanges
      <3> DEFINE m == Head(toServer)
      <3>0. m \in Requests
        BY <2>2
      <3> HIDE DEF m
      <3>1. CASE m.type = "muteUnmuteUser"
        <4>1. m.value \in BOOLEAN
          BY <3>1, <3>0, RequestFields
        <4>2. IF m.who \in voices THEN SetAttribute(m.who, "muted", m.value)
                                  ELSE UNCHANGED <<server, toClient>>
          BY <3>1, <2>3 DEF Obey, m
        <4> QED
          BY <4>1, <4>2, <1>a DEF ConferenceChanges
      <3>2. CASE m.type = "muteAllUsers"
        <4>1. m.value \in BOOLEAN
          BY <3>2, <3>0, RequestFields
        <4>2. SetRoomMuted(m.value)
          BY <3>2, <2>3 DEF Obey, m
        <4> QED
          BY <4>1, <4>2 DEF ConferenceChanges
      <3>3. CASE m.type = "kickUSer"
        <4>2. IF m.who \in voices THEN Leave(m.who) ELSE UNCHANGED <<server, toClient>>
          BY <3>3, <2>3 DEF Obey, m
        <4> QED
          BY <4>2 DEF ConferenceChanges
      <3> QED
        BY <2>3, <3>1, <3>2, <3>3 DEF Obey, m
    <2> QED
      BY <2>1, <2>3 DEF ServerStep
  <1>2. CASE ModeratorMutesRoom
    BY <1>2 DEF ModeratorMutesRoom, Observed, ServerStep, ConferenceChanges
  <1>3. ASSUME NEW u \in Voices, VoiceJoins(u) PROVE ServerStep
    BY <1>3 DEF VoiceJoins, Observed, ServerStep, ConferenceChanges, Joins
  <1>4. ASSUME NEW u \in Voices, VoiceLeaves(u) PROVE ServerStep
    BY <1>4 DEF VoiceLeaves, Observed, ServerStep, ConferenceChanges
  <1>5. ASSUME NEW u \in Voices, NEW a \in Attributes, VoiceChanges(u, a) PROVE ServerStep
    <2>1. SetAttribute(u, a, ~status[u][a]) /\ u \in voices
      BY <1>5 DEF VoiceChanges
    <2>2. (~status[u][a]) \in BOOLEAN
      OBVIOUS
    <2>3. ConferenceChanges
      BY <2>1, <2>2 DEF ConferenceChanges
    <2> QED
      BY <2>3, <1>5 DEF VoiceChanges, Observed, ServerStep
  <1> QED
    BY <1>1, <1>2, <1>3, <1>4, <1>5 DEF Server

\* The runnables.
RunStep ==
  /\ ui # <<>> /\ ui' = Tail(ui) /\ Running /\ UNCHANGED events
  /\ \/ Head(ui).op = "remove" /\ Head(ui).ref = NullListener
        /\ Crash(Fault("listenerLeft", ~Head(ui).listed))
     \/ Head(ui).op = "status" /\ GetUserById(objects[Head(ui).ref].who) = 0
        /\ Crash(Fault("listenerStatus", FALSE))
     \/ /\ UNCHANGED <<server, wire, conn, sessions, module, activity>>
        /\ \/ Head(ui).op = "clear" /\ RunClear
           \/ Head(ui).op = "add" /\ RunAdd(Head(ui).ref)
           \/ /\ Head(ui).op = "remove" /\ Head(ui).ref # NullListener
              /\ RunRemove(Head(ui).ref)
           \/ /\ Head(ui).op = "status" /\ GetUserById(objects[Head(ui).ref].who) # 0
              /\ RunStatus(Head(ui).ref, Head(ui).attr)

\* A runnable, with the circumstances of an uncaught exception.
LEMMA RunSteps == RunPosted => RunStep
  <1> DEFINE task == Head(ui)
  <1>0. SUFFICES ASSUME RunPosted PROVE RunStep
    OBVIOUS
  <1>1. ui # <<>> /\ ui' = Tail(ui) /\ Running /\ UNCHANGED events
    BY <1>0 DEF RunPosted
  <1>2. CASE task.op = "remove" /\ task.ref = NullListener
    <2>1. Crash(Fault("listenerLeft", ~task.listed))
      BY <1>0, <1>2 DEF RunPosted
    <2> QED
      BY <2>1, <1>1, <1>2 DEF RunStep
  <1>3. CASE task.op = "status" /\ GetUserById(objects[task.ref].who) = 0
    <2>1. Crash(Fault("listenerStatus", FALSE))
      BY <1>0, <1>3 DEF RunPosted
    <2> QED
      BY <2>1, <1>1, <1>3 DEF RunStep
  <1>4. CASE ~(task.op = "remove" /\ task.ref = NullListener)
             /\ ~(task.op = "status" /\ GetUserById(objects[task.ref].who) = 0)
    <2>1. /\ UNCHANGED <<server, wire, conn, sessions, module, activity>>
          /\ \/ task.op = "clear" /\ RunClear
             \/ task.op = "add" /\ RunAdd(task.ref)
             \/ task.op = "remove" /\ RunRemove(task.ref)
             \/ task.op = "status" /\ RunStatus(task.ref, task.attr)
      BY <1>0, <1>4 DEF RunPosted
    <2> QED
      BY <2>1, <1>1, <1>4 DEF RunStep
  <1> QED
    BY <1>2, <1>3, <1>4

\* Only the server changes the conference.
LEMMA ServerFrame ==
  ASSUME Next
  PROVE  Server \/ (UNCHANGED <<voices, called, status, allMuted>> /\ subscribed' \in {subscribed, FALSE})
  <1> DEFINE Framed == UNCHANGED <<voices, called, status, allMuted>> /\ subscribed' \in {subscribed, FALSE}
  <1>1. CASE User
    BY <1>1 DEF User, ChooseFromMenu, OpenMenu, MuteRoom, Crash, Hangup, server
  <1>2. CASE Connect \/ ConnectionLost \/ CreateListenersModule
    BY <1>2 DEF Connect, ConnectionLost, CreateListenersModule, Hangup, server
  <1>3. CASE HandleMessage
    BY <1>3 DEF HandleMessage, OnSharedObjectClear, OnGetCurrentUsers, OnUserJoin, OnUserLeft,
                OnAttribute, OnRoomMuted, Receive, server
  <1>4. CASE RunPosted
    BY <1>4, RunSteps DEF RunStep, Crash, Hangup, server
  <1> QED
    BY <1>1, <1>2, <1>3, <1>4 DEF Next

-----------------------------------------------------------------------------
(* The types are kept.                                                     *)
LEMMA ConferenceTypes ==
  ASSUME ServerTypes, toClient \in Seq(Messages), ConferenceChanges
  PROVE  ServerTypes' /\ called \subseteq called'
  <1>1. ASSUME NEW u \in Voices \ called, Joins(u) PROVE ServerTypes' /\ called \subseteq called'
    BY <1>1 DEF Joins, ServerTypes
  <1>2. ASSUME NEW u \in voices, Leave(u) PROVE ServerTypes' /\ called \subseteq called'
    BY <1>2 DEF Leave, ServerTypes
  <1>3. ASSUME NEW u \in voices, NEW a \in Attributes, NEW v \in BOOLEAN, SetAttribute(u, a, v)
        PROVE  ServerTypes' /\ called \subseteq called'
    <2>1. u \in Voices /\ status[u] \in Statuses
      BY DEF ServerTypes
    <2>2. [status[u] EXCEPT ![a] = v] \in Statuses
      BY <2>1 DEF Statuses
    <2>3. status' = [status EXCEPT ![u] = [status[u] EXCEPT ![a] = v]]
      BY <1>3, <2>1 DEF SetAttribute, ServerTypes
    <2>4. status' \in [Voices -> Statuses]
      BY <2>1, <2>2, <2>3 DEF ServerTypes
    <2> QED
      BY <1>3, <2>4 DEF SetAttribute, ServerTypes
  <1>4. ASSUME NEW v \in BOOLEAN, SetRoomMuted(v) PROVE ServerTypes' /\ called \subseteq called'
    BY <1>4 DEF SetRoomMuted, ServerTypes
  <1>5. CASE UNCHANGED <<server, toClient>>
    BY <1>5 DEF server, ServerTypes
  <1> QED
    BY <1>1, <1>2, <1>3, <1>4, <1>5 DEF ConferenceChanges

\* The message the server broadcasts with a change of the conference.
LEMMA ConferenceMessages ==
  ASSUME ServerTypes, toClient \in Seq(Messages), ConferenceChanges
  PROVE  \/ toClient' = toClient
         \/ /\ subscribed
            /\ \E m \in Messages : /\ toClient' = Append(toClient, m)
                                   /\ \A u \in Voices : Mentions(m, u) => u \in called'
                                   /\ m.type \notin {"clear", "users"}
  <1> DEFINE Result == \/ toClient' = toClient
                       \/ /\ subscribed
                          /\ \E m \in Messages : /\ toClient' = Append(toClient, m)
                                                 /\ \A u \in Voices : Mentions(m, u) => u \in called'
                                                 /\ m.type \notin {"clear", "users"}
  <1>0. ASSUME NEW m \in Messages, Broadcast(m), m.type \notin {"clear", "users"},
               \A u \in Voices : Mentions(m, u) => u \in called'
        PROVE  Result
    BY <1>0 DEF Broadcast
  <1>1. ASSUME NEW u \in Voices \ called, Joins(u) PROVE Result
    <2> DEFINE m == [type |-> "userJoin", who |-> u, status |-> status[u]]
    <2>1. m \in Messages
      BY MessageForms DEF ServerTypes
    <2>2. \A w \in Voices : Mentions(m, w) => w \in called'
      BY <1>1 DEF Joins, Mentions
    <2>3. m.type \notin {"clear", "users"} /\ Broadcast(m)
      BY <1>1 DEF Joins
    <2> HIDE DEF m
    <2> QED
      BY <2>1, <2>2, <2>3, <1>0
  <1>2. ASSUME NEW u \in voices, Leave(u) PROVE Result
    <2> DEFINE m == [type |-> "userLeft", who |-> u]
    <2>1. m \in Messages
      BY MessageForms DEF ServerTypes
    <2>2. \A w \in Voices : Mentions(m, w) => w \in called'
      BY <1>2 DEF Leave, Mentions, ServerTypes
    <2>3. m.type \notin {"clear", "users"} /\ Broadcast(m)
      BY <1>2 DEF Leave
    <2> HIDE DEF m
    <2> QED
      BY <2>1, <2>2, <2>3, <1>0
  <1>3. ASSUME NEW u \in voices, NEW a \in Attributes, NEW v \in BOOLEAN, SetAttribute(u, a, v)
        PROVE  Result
    <2> DEFINE m == [type |-> "attribute", who |-> u, attr |-> a, value |-> v]
    <2>1. m \in Messages
      BY MessageForms DEF ServerTypes
    <2>2. \A w \in Voices : Mentions(m, w) => w \in called'
      BY <1>3 DEF SetAttribute, Mentions, ServerTypes
    <2>3. m.type \notin {"clear", "users"} /\ Broadcast(m)
      BY <1>3 DEF SetAttribute
    <2> HIDE DEF m
    <2> QED
      BY <2>1, <2>2, <2>3, <1>0
  <1>4. ASSUME NEW v \in BOOLEAN, SetRoomMuted(v) PROVE Result
    <2> DEFINE m == [type |-> "muteStateCallback", value |-> v]
    <2>1. m \in Messages
      BY MessageForms
    <2>2. \A w \in Voices : Mentions(m, w) => w \in called'
      BY DEF Mentions
    <2>3. m.type \notin {"clear", "users"} /\ Broadcast(m)
      BY <1>4 DEF SetRoomMuted
    <2> HIDE DEF m
    <2> QED
      BY <2>1, <2>2, <2>3, <1>0
  <1> HIDE DEF Result
  <1>5. ASSUME UNCHANGED <<server, toClient>> PROVE Result
    BY <1>5 DEF Result
  <1>6. Result
    BY <1>1, <1>2, <1>3, <1>4, <1>5 DEF ConferenceChanges
  <1> QED
    BY <1>6 DEF Result

\* The answers to the queries.
AnswerTo(name) ==
  IF name = "connectSO" THEN [type |-> "clear"]
  ELSE IF name = "getMeetMeUsers" THEN [type |-> "users", map |-> [u \in voices |-> status[u]]]
  ELSE [type |-> "roomMuted", value |-> allMuted]

\* The answer to a query, of one of the types.
LEMMA AnswerFacts ==
  ASSUME ServerTypes, NEW name \in {"connectSO", "getMeetMeUsers", "isRoomMuted"}, Answer(name)
  PROVE  /\ AnswerTo(name) \in Messages
         /\ toClient' = Append(toClient, AnswerTo(name))
         /\ UNCHANGED <<voices, called, status, allMuted>>
         /\ subscribed' = (subscribed \/ name = "connectSO")
         /\ \A u \in Voices : Mentions(AnswerTo(name), u) => u \in called
  <1>1. CASE name = "connectSO"
    <2>1. AnswerTo(name) = [type |-> "clear"]
      BY <1>1 DEF AnswerTo
    <2>2. /\ toClient' = Append(toClient, AnswerTo(name)) /\ subscribed' = TRUE
          /\ UNCHANGED <<voices, called, status, allMuted>>
      BY <1>1, <2>1 DEF Answer
    <2>3. AnswerTo(name) \in Messages
      BY <2>1, MessageForms
    <2>4. \A u \in Voices : ~Mentions(AnswerTo(name), u)
      BY <2>1 DEF Mentions
    <2>5. subscribed' = (subscribed \/ name = "connectSO")
      BY <2>2, <1>1
    <2> QED
      BY <2>2, <2>3, <2>4, <2>5
  <1>2. CASE name = "getMeetMeUsers"
    <2> DEFINE map == [u \in voices |-> status[u]]
    <2>1. AnswerTo(name) = [type |-> "users", map |-> map]
      BY <1>2 DEF AnswerTo
    <2>2. map \in [voices -> Statuses] /\ voices \in SUBSET Voices
      BY DEF ServerTypes
    <2>3. map \in Maps
      BY <2>2 DEF Maps
    <2>4. DOMAIN map \subseteq called
      BY DEF ServerTypes
    <2>5. UNCHANGED <<voices, called, status, allMuted, subscribed>>
      BY <1>2 DEF Answer, server
    <2>6. toClient' = Append(toClient, AnswerTo(name))
      BY <1>2, <2>1 DEF Answer
    <2> HIDE DEF map
    <2>7. \A u \in Voices : Mentions(AnswerTo(name), u) => u \in called
      BY <2>1, <2>4 DEF Mentions
    <2>8. AnswerTo(name) \in Messages
      BY <2>1, <2>3, MessageForms
    <2>9. subscribed' = (subscribed \/ name = "connectSO")
      BY <2>5, <1>2 DEF ServerTypes
    <2> QED
      BY <2>5, <2>6, <2>7, <2>8, <2>9
  <1>3. CASE name = "isRoomMuted"
    <2>1. AnswerTo(name) = [type |-> "roomMuted", value |-> allMuted]
      BY <1>3 DEF AnswerTo
    <2>2. AnswerTo(name) \in Messages
      BY <2>1, MessageForms DEF ServerTypes
    <2>3. UNCHANGED <<voices, called, status, allMuted, subscribed>> /\ toClient' = Append(toClient, AnswerTo(name))
      BY <1>3, <2>1 DEF Answer, server
    <2>4. subscribed' = (subscribed \/ name = "connectSO")
      BY <2>3, <1>3 DEF ServerTypes
    <2>5. \A u \in Voices : ~Mentions(AnswerTo(name), u)
      BY <2>1 DEF Mentions
    <2> QED
      BY <2>2, <2>3, <2>4, <2>5
  <1> QED
    BY <1>1, <1>2, <1>3

LEMMA HeadRequest ==
  ASSUME Types, toServer # <<>>
  PROVE  /\ Head(toServer) \in Requests /\ Tail(toServer) \in Seq(Requests)
         /\ Head(toServer) = toServer[1]
         /\ Head(toServer).type = "query" =>
              Head(toServer).name \in {"connectSO", "getMeetMeUsers", "isRoomMuted"}
  BY TailFacts, RequestFields DEF Types, WireTypes

LEMMA HeadMessage ==
  ASSUME Types, toClient # <<>>
  PROVE  /\ Head(toClient) \in Messages /\ Tail(toClient) \in Seq(Messages)
         /\ Head(toClient) = toClient[1] /\ 1 \in DOMAIN toClient
  BY TailFacts DEF Types, WireTypes

LEMMA ServerTyped ==
  ASSUME Types, Next
  PROVE  ServerTypes' /\ called \subseteq called'
  <1>1. CASE Server
    <2>1. ServerStep
      BY <1>1, ServerSteps
    <2>2. CASE ConferenceChanges
      BY <2>2, ConferenceTypes DEF Types, WireTypes
    <2>3. CASE /\ toServer # <<>> /\ Head(toServer).type = "query"
               /\ Answer(Head(toServer).name)
      <3>1. Head(toServer).name \in {"connectSO", "getMeetMeUsers", "isRoomMuted"}
        BY <2>3, HeadRequest
      <3> QED
        BY <3>1, <2>3, AnswerFacts DEF Types, ServerTypes
    <2> QED
      BY <2>1, <2>2, <2>3 DEF ServerStep
  <1>2. CASE UNCHANGED <<voices, called, status, allMuted>> /\ subscribed' \in {subscribed, FALSE}
    BY <1>2 DEF Types, ServerTypes
  <1> QED
    BY <1>1, <1>2, ServerFrame

\* The connection is hung up.
LEMMA HangupTypes ==
  ASSUME Hangup, Types
  PROVE  WireTypes'
  <1>1. toServer' = <<>> /\ toClient' = <<>> /\ conn' = "closed" /\ sessions' = sessions
    BY DEF Hangup
  <1>2. toServer' \in Seq(Requests) /\ toClient' \in Seq(Messages) /\ DOMAIN toClient' = {}
    BY <1>1
  <1> QED
    BY <1>1, <1>2 DEF WireTypes, Types

LEMMA WireTyped ==
  ASSUME Types, Next
  PROVE  WireTypes'
  <1> DEFINE Known(q, c) == \A k \in DOMAIN q, u \in Voices : Mentions(q[k], u) => u \in c
  <1>a. called \subseteq called'
    BY ServerTyped
  <1>b. toServer \in Seq(Requests) /\ toClient \in Seq(Messages) /\ Known(toClient, called)
    BY DEF Types, WireTypes
  <1>c. SUFFICES /\ toServer' \in Seq(Requests) /\ toClient' \in Seq(Messages)
                 /\ conn' \in {"closed", "joining", "listening"} /\ sessions' \in 0..MaxSessions
                 /\ Known(toClient', called')
    BY DEF WireTypes
  <1>d. conn \in {"closed", "joining", "listening"} /\ sessions \in 0..MaxSessions
    BY DEF Types, WireTypes
  <1>e. ASSUME NEW c, c = called', NEW m \in Messages, toClient' = Append(toClient, m),
               \A u \in Voices : Mentions(m, u) => u \in c
        PROVE  toClient' \in Seq(Messages) /\ Known(toClient', c)
    <2>1. /\ toClient' \in Seq(Messages)
          /\ DOMAIN toClient' = 1..(Len(toClient) + 1) /\ DOMAIN toClient = 1..Len(toClient)
          /\ Len(toClient) \in Nat
          /\ \A i \in 1..Len(toClient) : toClient'[i] = toClient[i]
          /\ toClient'[Len(toClient) + 1] = m
      BY <1>e, <1>b, AppendFacts
    <2>2. ASSUME NEW k \in DOMAIN toClient', NEW u \in Voices, Mentions(toClient'[k], u)
          PROVE  u \in c
      <3>1. CASE k = Len(toClient) + 1
        BY <3>1, <2>1, <2>2, <1>e
      <3>2. CASE k # Len(toClient) + 1
        <4>1. k \in DOMAIN toClient /\ toClient'[k] = toClient[k]
          BY <3>2, <2>1
        <4> QED
          BY <4>1, <2>2, <1>b, <1>a, <1>e
      <3> QED
        BY <3>1, <3>2
    <2> QED
      BY <2>1, <2>2
  <1>f. ASSUME toClient' = toClient PROVE toClient' \in Seq(Messages) /\ Known(toClient', called')
    BY <1>f, <1>b, <1>a
  <1>g. ASSUME toClient # <<>>, toClient' = Tail(toClient)
        PROVE  toClient' \in Seq(Messages) /\ Known(toClient', called')
    <2>1. /\ toClient' \in Seq(Messages) /\ Len(toClient) \in Nat
          /\ DOMAIN toClient' = 1..(Len(toClient) - 1) /\ DOMAIN toClient = 1..Len(toClient)
          /\ \A i \in 1..(Len(toClient) - 1) : toClient'[i] = toClient[i + 1]
      BY <1>g, <1>b, TailFacts
    <2>2. ASSUME NEW k \in DOMAIN toClient' PROVE k + 1 \in DOMAIN toClient /\ toClient'[k] = toClient[k + 1]
      BY <2>1
    <2> QED
      BY <2>1, <2>2, <1>b, <1>a
  <1>h. ASSUME NEW r \in Seq(Requests), toServer' = toServer \o r PROVE toServer' \in Seq(Requests)
    BY <1>h, <1>b, ConcatFacts
  <1>i. ASSUME Hangup
        PROVE  /\ toServer' \in Seq(Requests) /\ toClient' \in Seq(Messages)
               /\ conn' \in {"closed", "joining", "listening"} /\ sessions' \in 0..MaxSessions
               /\ Known(toClient', called')
    BY <1>i, HangupTypes DEF WireTypes
  <1> HIDE DEF Known
  <1>1. CASE Server
    <2>1. ServerStep
      BY <1>1, ServerSteps
    <2>2. conn' = conn /\ sessions' = sessions
      BY <2>1 DEF ServerStep, ClientUnchanged
    <2>3. toServer' = toServer \/ (toServer # <<>> /\ toServer' = Tail(toServer))
      BY <2>1 DEF ServerStep
    <2>4. toServer' \in Seq(Requests)
      BY <2>3, <1>b, HeadRequest
    <2>5. ASSUME ConferenceChanges PROVE toClient' \in Seq(Messages) /\ Known(toClient', called')
      <3>1. \/ toClient' = toClient
            \/ \E m \in Messages : /\ toClient' = Append(toClient, m)
                                   /\ \A u \in Voices : Mentions(m, u) => u \in called'
        BY <2>5, ConferenceMessages DEF Types, WireTypes
      <3>2. CASE toClient' = toClient
        BY <3>2, <1>f
      <3>3. ASSUME NEW m \in Messages, toClient' = Append(toClient, m),
                   \A u \in Voices : Mentions(m, u) => u \in called'
            PROVE  toClient' \in Seq(Messages) /\ Known(toClient', called')
        BY <3>3, <1>e
      <3> QED
        BY <3>1, <3>2, <3>3
    <2>6. ASSUME toServer # <<>>, Head(toServer).type = "query", Answer(Head(toServer).name)
          PROVE  toClient' \in Seq(Messages) /\ Known(toClient', called')
      <3> DEFINE name == Head(toServer).name
                 m == AnswerTo(name)
      <3>1. name \in {"connectSO", "getMeetMeUsers", "isRoomMuted"}
        BY <2>6, HeadRequest
      <3>2. /\ m \in Messages /\ toClient' = Append(toClient, m) /\ called' = called
            /\ \A u \in Voices : Mentions(m, u) => u \in called
        BY <3>1, <2>6, AnswerFacts DEF Types
      <3> HIDE DEF name, m
      <3> QED
        BY <3>2, <1>e
    <2> QED
      BY <2>1, <2>2, <2>4, <2>5, <2>6, <1>d DEF ServerStep
  <1>2. CASE User
    <2>1. CASE ChooseFromMenu
      <3>1. CASE menu.pos \notin DOMAIN list
        BY <3>1, <2>1, <1>i DEF ChooseFromMenu, Crash
      <3>2. CASE menu.pos \in DOMAIN list
        <4>1. /\ toClient' = toClient /\ conn' = conn /\ sessions' = sessions
              /\ \E request \in MenuRequest(list[menu.pos]) : Send(<<request>>)
          BY <3>2, <2>1 DEF ChooseFromMenu
        <4>2. list[menu.pos] \in Entry
          BY <3>2 DEF Types, ScreenTypes
        <4>3. PICK request \in MenuRequest(list[menu.pos]) : Send(<<request>>)
          BY <4>1
        <4>4. list[menu.pos].who \in Voices /\ (~list[menu.pos].status["muted"]) \in BOOLEAN
          BY <4>2 DEF Entry
        <4>5. request \in Requests
          BY <4>4, RequestForms DEF MenuRequest
        <4>6. <<request>> \in Seq(Requests)
          BY <4>5
        <4>7. toServer' \in Seq(Requests)
          BY <4>3, <4>6, <1>h, <1>b DEF Send, Write
        <4> QED
          BY <4>1, <4>7, <1>d, <1>f
      <3> QED
        BY <3>1, <3>2
    <2>2. ASSUME NEW i \in DOMAIN list, OpenMenu(i)
          PROVE  UNCHANGED <<toServer, toClient, conn, sessions>>
      BY <2>2 DEF OpenMenu, wire
    <2>3. ASSUME NEW mute \in BOOLEAN, MuteRoom(mute)
          PROVE  toServer' \in Seq(Requests) /\ UNCHANGED <<toClient, conn, sessions>>
      <3>1. <<[type |-> "muteAllUsers", value |-> mute],
              [type |-> "query", name |-> "isRoomMuted"]>> \in Seq(Requests)
        BY RequestForms
      <3> QED
        BY <2>3, <3>1, <1>h, <1>b DEF MuteRoom, Send, Write
    <2> QED
      BY <1>2, <2>1, <2>2, <2>3, <1>b, <1>d, <1>f DEF User
  <1>3. CASE Connect
    <2>1. toServer' = toServer /\ toClient' = toClient /\ conn' = "joining" /\ sessions' = sessions + 1
          /\ sessions < MaxSessions
      BY <1>3 DEF Connect, wire
    <2> QED
      BY <2>1, <1>b, <1>d, <1>f, VoicesAssumption
  <1>4. CASE ConnectionLost
    BY <1>4, <1>i DEF ConnectionLost
  <1>5. CASE CreateListenersModule
    <2>1. toServer' = toServer \o Queries(SubscribeRequests) /\ UNCHANGED <<toClient, sessions>> /\ conn' = "listening"
      BY <1>5 DEF CreateListenersModule, Write
    <2> QED
      BY <2>1, <1>d, <1>f, <1>h, QueriesFacts
  <1>6. CASE HandleMessage
    <2>1. toClient # <<>> /\ toClient' = Tail(toClient) /\ conn' = conn /\ sessions' = sessions
      BY <1>6 DEF HandleMessage, OnSharedObjectClear, OnGetCurrentUsers, OnUserJoin, OnUserLeft,
                OnAttribute, OnRoomMuted, Receive
    <2>2. toServer' = toServer \/ toServer' = toServer \o Queries(ClearRequests)
      BY <1>6 DEF HandleMessage, OnSharedObjectClear, OnGetCurrentUsers, OnUserJoin, OnUserLeft,
                OnAttribute, OnRoomMuted, Write
    <2>3. toServer' \in Seq(Requests)
      BY <2>2, <1>b, <1>h, QueriesFacts
    <2> QED
      BY <2>1, <2>3, <1>d, <1>g
  <1>7. CASE RunPosted
    <2>1. RunStep
      BY <1>7, RunSteps
    <2>2. Hangup \/ UNCHANGED <<toServer, toClient, conn, sessions>>
      BY <2>1 DEF RunStep, Crash, wire
    <2> QED
      BY <2>2, <1>i, <1>b, <1>d, <1>f
  <1> QED
    BY <1>1, <1>2, <1>3, <1>4, <1>5, <1>6, <1>7 DEF Next

-----------------------------------------------------------------------------
\* The list of listeners, read in some order.
LEMMA OrderFacts ==
  ASSUME NEW S, IsFiniteSet(S), NEW order \in SetToSeqs(S)
  PROVE  /\ order \in Seq(S) /\ DOMAIN order = 1..Len(order) /\ Len(order) \in Nat
         /\ \A i \in DOMAIN order : order[i] \in S
         /\ \A i, j \in DOMAIN order : order[i] = order[j] => i = j
         /\ \A u \in S : \E i \in DOMAIN order : order[i] = u
  <1> DEFINE n == Cardinality(S)
  <1>0. n \in Nat
    BY FS_CardinalityType
  <1>1. order \in [1..n -> S] /\ \A i, j \in 1..n : i # j => order[i] # order[j]
    BY DEF SetToSeqs
  <1>2. order \in Injection(1..n, S)
    BY <1>1 DEF Injection, IsInjective
  <1>3. Cardinality(1..n) = n
    BY <1>0, FS_Interval
  <1>4. order \in Surjection(1..n, S)
    BY <1>2, <1>3, FS_Injection
  <1>5. \A u \in S : \E i \in 1..n : order[i] = u
    BY <1>4 DEF Surjection
  <1>6. order \in Seq(S)
    BY <1>0, <1>1, IsASeq
  <1>7. DOMAIN order = 1..n /\ Len(order) = n
    BY <1>0, <1>1, <1>6, LenProperties
  <1> HIDE DEF n
  <1> QED
    BY <1>0, <1>1, <1>5, <1>6, <1>7

\* onGetCurrentUsers(): a new object for every caller of the list, which the map
\* refers to, and a runnable that adds it.
ListRead(map, order) ==
  /\ order \in Seq(DOMAIN map) /\ DOMAIN order = 1..Len(order) /\ Len(order) \in Nat
  /\ \A i \in DOMAIN order : order[i] \in DOMAIN map
  /\ \A i, j \in DOMAIN order : order[i] = order[j] => i = j
  /\ Len(objects') = Len(objects) + Len(order)
  /\ \A o \in DOMAIN objects : objects'[o] = objects[o]
  /\ \A i \in DOMAIN order :
       objects'[Len(objects) + i] = [who |-> order[i], status |-> map[order[i]]]
  /\ DOMAIN listeners' = DOMAIN map
  /\ \A u \in DOMAIN map :
       \E i \in DOMAIN order : order[i] = u /\ listeners'[u] = Len(objects) + i
  /\ Len(ui') = Len(ui) + Len(order)
  /\ \A i \in DOMAIN ui : ui'[i] = ui[i]
  /\ \A i \in DOMAIN order : ui'[Len(ui) + i] = Task("add", Len(objects) + i, "none")

\* onGetCurrentUsers(), whatever the order of the map.
LEMMA UsersFacts ==
  ASSUME Types, OnGetCurrentUsers
  PROVE  /\ Head(toClient).type = "users" /\ DOMAIN Head(toClient).map \subseteq Voices
         /\ \A u \in DOMAIN Head(toClient).map : Head(toClient).map[u] \in Statuses
         /\ objects' \in Seq(Entry) /\ ui' \in Seq(Tasks)
         /\ doubled' = DOMAIN listeners \cap DOMAIN Head(toClient).map
         /\ received' = TRUE
         /\ \E order \in Seq(Voices) : ListRead(Head(toClient).map, order)
  <1> DEFINE m == Head(toClient)
             map == m.map
             found == DOMAIN map
             Added(order) == [i \in DOMAIN order |-> [who |-> order[i], status |-> map[order[i]]]]
             Tasked(order) == [i \in DOMAIN order |-> Task("add", Len(objects) + i, "none")]
  <1>1. toClient # <<>> /\ m.type = "users"
    BY DEF OnGetCurrentUsers, Receive
  <1>2. m \in Messages
    BY <1>1, HeadMessage
  <1>3. found \subseteq Voices /\ \A u \in found : map[u] \in Statuses
    BY <1>1, <1>2, MessageFields
  <1>4. IsFiniteSet(found)
    BY <1>3, VoicesAssumption, FS_Subset
  <1>5. PICK order \in SetToSeqs(found) :
          /\ objects' = objects \o Added(order)
          /\ listeners' = [u \in found |-> Len(objects) + CHOOSE i \in DOMAIN order : order[i] = u]
          /\ ui' = ui \o Tasked(order)
          /\ doubled' = DOMAIN listeners \cap found
    BY DEF OnGetCurrentUsers
  <1>6. received' = TRUE
    BY DEF OnGetCurrentUsers
  <1>7. /\ order \in Seq(found) /\ DOMAIN order = 1..Len(order) /\ Len(order) \in Nat
        /\ \A i \in DOMAIN order : order[i] \in found
        /\ \A i, j \in DOMAIN order : order[i] = order[j] => i = j
        /\ \A u \in found : \E i \in DOMAIN order : order[i] = u
    BY <1>4, OrderFacts
  <1>8. objects \in Seq(Entry) /\ ui \in Seq(Tasks) /\ Len(objects) \in Nat /\ received \in BOOLEAN
    BY LenProperties DEF Types, ModuleTypes, ScreenTypes
  <1> HIDE DEF m, map, found
  <1>9. Added(order) \in Seq(Entry) /\ Len(Added(order)) = Len(order)
    <2>1. \A i \in 1..Len(order) : [who |-> order[i], status |-> map[order[i]]] \in Entry
      BY <1>3, <1>7 DEF Entry, Statuses
    <2>2. Added(order) \in Seq(Entry)
      BY <2>1, <1>7, IsASeq
    <2>3. DOMAIN Added(order) = 1..Len(order)
      BY <1>7
    <2> QED
      BY <2>2, <2>3, <1>7, LenProperties
  <1>10. Tasked(order) \in Seq(Tasks) /\ Len(Tasked(order)) = Len(order)
    <2>1. \A i \in 1..Len(order) : Task("add", Len(objects) + i, "none") \in Tasks
      BY <1>7, <1>8 DEF Task, Tasks
    <2>2. Tasked(order) \in Seq(Tasks)
      BY <2>1, <1>7, IsASeq
    <2>3. DOMAIN Tasked(order) = 1..Len(order)
      BY <1>7
    <2> QED
      BY <2>2, <2>3, <1>7, LenProperties
  <1>11. \A i \in DOMAIN order : /\ Added(order)[i] = [who |-> order[i], status |-> map[order[i]]]
                                 /\ Tasked(order)[i] = Task("add", Len(objects) + i, "none")
    OBVIOUS
  <1> DEFINE more == Added(order)
             tasks == Tasked(order)
  <1>12. more \in Seq(Entry) /\ tasks \in Seq(Tasks)
    BY <1>9, <1>10
  <1>13. objects' = objects \o more /\ ui' = ui \o tasks
    BY <1>5
  <1>14. /\ Len(more) = Len(order) /\ Len(tasks) = Len(order)
         /\ \A i \in DOMAIN order : /\ more[i] = [who |-> order[i], status |-> map[order[i]]]
                                    /\ tasks[i] = Task("add", Len(objects) + i, "none")
    BY <1>9, <1>10, <1>11
  <1> HIDE DEF more, tasks, Added, Tasked
  <1>21. /\ objects \o more \in Seq(Entry) /\ Len(objects \o more) = Len(objects) + Len(more)
         /\ DOMAIN objects = 1..Len(objects) /\ DOMAIN more = 1..Len(more)
    BY <1>8, <1>12, ConcatFacts
  <1>22. \A i \in 1..Len(objects) : (objects \o more)[i] = objects[i]
    BY <1>8, <1>12, ConcatFacts
  <1>23. \A i \in 1..Len(more) : (objects \o more)[Len(objects) + i] = more[i]
    BY <1>8, <1>12, ConcatFacts
  <1>15. /\ objects' \in Seq(Entry) /\ Len(objects') = Len(objects) + Len(order)
         /\ \A o \in DOMAIN objects : objects'[o] = objects[o]
         /\ \A i \in DOMAIN order : objects'[Len(objects) + i] = more[i]
    BY <1>7, <1>13, <1>14, <1>21, <1>22, <1>23
  <1>24. /\ ui \o tasks \in Seq(Tasks) /\ Len(ui \o tasks) = Len(ui) + Len(tasks)
         /\ DOMAIN ui = 1..Len(ui) /\ DOMAIN tasks = 1..Len(tasks)
    BY <1>8, <1>12, ConcatFacts
  <1>25. \A i \in 1..Len(ui) : (ui \o tasks)[i] = ui[i]
    BY <1>8, <1>12, ConcatFacts
  <1>26. \A i \in 1..Len(tasks) : (ui \o tasks)[Len(ui) + i] = tasks[i]
    BY <1>8, <1>12, ConcatFacts
  <1>16. /\ ui' \in Seq(Tasks) /\ Len(ui') = Len(ui) + Len(order)
         /\ \A o \in DOMAIN ui : ui'[o] = ui[o]
         /\ \A i \in DOMAIN order : ui'[Len(ui) + i] = tasks[i]
    BY <1>7, <1>13, <1>14, <1>24, <1>25, <1>26
  <1>17. DOMAIN listeners' = found
    BY <1>5
  <1>18. ASSUME NEW u \in found
         PROVE  \E i \in DOMAIN order : order[i] = u /\ listeners'[u] = Len(objects) + i
    <2> DEFINE i == CHOOSE j \in DOMAIN order : order[j] = u
    <2>1. i \in DOMAIN order /\ order[i] = u
      BY <1>7
    <2>2. listeners'[u] = Len(objects) + i
      BY <1>5
    <2> QED
      BY <2>1, <2>2
  <1>19. ListRead(map, order)
    BY <1>7, <1>14, <1>15, <1>16, <1>17, <1>18 DEF ListRead, found
  <1>20. order \in Seq(Voices)
    BY <1>7, <1>3, SeqMonotonic
  <1> QED
    BY <1>1, <1>3, <1>5, <1>6, <1>15, <1>16, <1>19, <1>20 DEF m, map, found

\* userTalk, userMute, userLockedMute: the object of a listener is changed.
LEMMA AttributeFacts ==
  ASSUME Types, OnAttribute
  PROVE  /\ Head(toClient).type = "attribute" /\ Head(toClient).who \in Voices
         /\ Head(toClient).attr \in Attributes /\ Head(toClient).value \in BOOLEAN
         /\ UNCHANGED <<listeners, received, doubled, roomMuted>>
         /\ objects' \in Seq(Entry) /\ Len(objects') = Len(objects)
         /\ \A o \in DOMAIN objects : objects'[o].who = objects[o].who
         /\ Head(toClient).who \notin DOMAIN listeners => UNCHANGED <<objects, ui>>
         /\ Head(toClient).who \in DOMAIN listeners =>
              LET m == Head(toClient)
                  r == listeners[m.who]
              IN  /\ \A o \in DOMAIN objects \ {r} : objects'[o] = objects[o]
                  /\ \A a \in Attributes :
                       objects'[r].status[a] = IF a = m.attr THEN m.value ELSE objects[r].status[a]
                  /\ m.attr # "locked" => ui' = Append(ui, Task("status", r, m.attr))
                  /\ m.attr = "locked" => ui' = ui
  <1> DEFINE m == Head(toClient)
             r == listeners[m.who]
  <1>1. toClient # <<>> /\ m.type = "attribute" /\ UNCHANGED <<listeners, received, doubled, roomMuted>>
    BY DEF OnAttribute, Receive, KeptList
  <1>2. m \in Messages
    BY <1>1, HeadMessage
  <1>3. m.who \in Voices /\ m.attr \in Attributes /\ m.value \in BOOLEAN
    BY <1>1, <1>2, MessageFields
  <1>4. /\ m.who \notin DOMAIN listeners => UNCHANGED <<objects, ui>>
        /\ m.who \in DOMAIN listeners =>
             /\ objects' = [objects EXCEPT ![r].status[m.attr] = m.value]
             /\ ui' = IF Shown(m.attr) THEN Append(ui, Task("status", r, m.attr)) ELSE ui
    BY DEF OnAttribute
  <1>5. objects \in Seq(Entry) /\ Len(objects) \in Nat /\ DOMAIN objects = 1..Len(objects)
    BY LenProperties DEF Types, ModuleTypes
  <1> HIDE DEF m
  <1>6. CASE m.who \in DOMAIN listeners
    <2>1. r \in DOMAIN objects /\ objects[r] \in Entry
      BY <1>6, <1>5, ElementOfSeq DEF Types, ModuleTypes
    <2>2. objects[r].status \in Statuses /\ objects[r].who \in Voices
      BY <2>1 DEF Entry, Statuses
    <2> DEFINE e == [objects[r] EXCEPT !.status = [objects[r].status EXCEPT ![m.attr] = m.value]]
    <2> HIDE DEF r
    <2>3. [objects[r].status EXCEPT ![m.attr] = m.value] \in Statuses
      BY <2>2, <1>3 DEF Statuses
    <2>4. e \in Entry /\ e.who = objects[r].who
          /\ e.status = [objects[r].status EXCEPT ![m.attr] = m.value]
      BY <2>1, <2>2, <2>3 DEF Entry, Statuses
    <2>5. objects' = [objects EXCEPT ![r] = e]
      BY <1>4, <1>6 DEF r
    <2> HIDE DEF e
    <2>6. objects' \in Seq(Entry) /\ Len(objects') = Len(objects)
          /\ objects'[r] = e /\ \A o \in DOMAIN objects \ {r} : objects'[o] = objects[o]
      BY <2>5, <2>4, <2>1, <1>5, ExceptSeq
    <2>7. \A o \in DOMAIN objects : objects'[o].who = objects[o].who
      BY <2>6, <2>4
    <2>8. \A a \in Attributes :
            objects'[r].status[a] = IF a = m.attr THEN m.value ELSE objects[r].status[a]
      BY <2>6, <2>4, <2>2, <1>3 DEF Statuses
    <2>9. /\ m.attr # "locked" => ui' = Append(ui, Task("status", r, m.attr))
          /\ m.attr = "locked" => ui' = ui
      BY <1>4, <1>6 DEF Shown, r
    <2> QED
      BY <1>1, <1>3, <1>6, <2>6, <2>7, <2>8, <2>9 DEF m, r
  <1>7. CASE m.who \notin DOMAIN listeners
    BY <1>1, <1>3, <1>4, <1>5, <1>7 DEF m
  <1> QED
    BY <1>6, <1>7

\* userJoin and userLeft.
LEMMA JoinFacts ==
  ASSUME Types, OnUserJoin
  PROVE  LET m == Head(toClient)
             e == [who |-> m.who, status |-> m.status]
         IN  /\ m.type = "userJoin" /\ m.who \in Voices /\ m.status \in Statuses
             /\ UNCHANGED <<received, doubled, roomMuted>>
             /\ e \in Entry
             /\ objects' \in Seq(Entry) /\ objects' = Append(objects, e)
             /\ Len(objects') = Len(objects) + 1 /\ objects'[Len(objects) + 1] = e
             /\ \A o \in DOMAIN objects : objects'[o] = objects[o]
             /\ DOMAIN listeners' = DOMAIN listeners \cup {m.who}
             /\ listeners'[m.who] = Len(objects) + 1
             /\ \A v \in DOMAIN listeners \ {m.who} : listeners'[v] = listeners[v]
             /\ ui' = Append(ui, Task("add", Len(objects) + 1, "none"))
  <1> DEFINE m == Head(toClient)
             e == [who |-> m.who, status |-> m.status]
  <1>1. toClient # <<>> /\ m.type = "userJoin" /\ UNCHANGED <<received, doubled, roomMuted>>
    BY DEF OnUserJoin, Receive, KeptList
  <1>2. m \in Messages
    BY <1>1, HeadMessage
  <1>3. m.who \in Voices /\ m.status \in Statuses
    BY <1>1, <1>2, MessageFields
  <1>4. e \in Entry
    BY <1>3 DEF Entry, Statuses
  <1>5. objects \in Seq(Entry) /\ DOMAIN objects = 1..Len(objects)
    BY LenProperties DEF Types, ModuleTypes
  <1>6. /\ objects' = Append(objects, e)
        /\ listeners' = [v \in DOMAIN listeners \cup {m.who} |->
                           IF v = m.who THEN Len(objects) + 1 ELSE listeners[v]]
        /\ ui' = Append(ui, Task("add", Len(objects) + 1, "none"))
    BY DEF OnUserJoin
  <1> HIDE DEF e
  <1>7. /\ objects' \in Seq(Entry) /\ Len(objects') = Len(objects) + 1
        /\ objects'[Len(objects) + 1] = e
        /\ \A o \in DOMAIN objects : objects'[o] = objects[o]
    BY <1>4, <1>5, <1>6, AppendFacts
  <1>8. /\ DOMAIN listeners' = DOMAIN listeners \cup {m.who}
        /\ listeners'[m.who] = Len(objects) + 1
        /\ \A v \in DOMAIN listeners \ {m.who} : listeners'[v] = listeners[v]
    BY <1>6
  <1> QED
    BY <1>1, <1>3, <1>4, <1>6, <1>7, <1>8 DEF e

\* userLeft: the runnable is posted also when the lookup found nothing.
LEMMA LeftFacts ==
  ASSUME Types, OnUserLeft
  PROVE  LET u == Head(toClient).who
         IN  /\ Head(toClient).type = "userLeft" /\ u \in Voices
             /\ UNCHANGED <<objects, received, doubled, roomMuted>>
             /\ DOMAIN listeners' = DOMAIN listeners \ {u}
             /\ \A v \in DOMAIN listeners \ {u} : listeners'[v] = listeners[v]
             /\ u \in DOMAIN listeners => ui' = Append(ui, Task("remove", listeners[u], "none"))
             /\ u \notin DOMAIN listeners =>
                  /\ listeners' = listeners
                  /\ ui' = Append(ui, Task("remove", NullListener, "none"))
  <1> DEFINE m == Head(toClient)
  <1>1. toClient # <<>> /\ m.type = "userLeft" /\ UNCHANGED <<objects, received, doubled, roomMuted>>
    BY DEF OnUserLeft, Receive, KeptList
  <1>2. m \in Messages
    BY <1>1, HeadMessage
  <1>3. m.who \in Voices
    BY <1>1, <1>2, MessageFields
  <1>4. CASE m.who \in DOMAIN listeners
    <2>1. listeners' = [v \in DOMAIN listeners \ {m.who} |-> listeners[v]]
          /\ ui' = Append(ui, Task("remove", listeners[m.who], "none"))
      BY <1>4 DEF OnUserLeft, WithoutListener
    <2> QED
      BY <1>1, <1>3, <1>4, <2>1
  <1>5. CASE m.who \notin DOMAIN listeners
    <2>1. listeners' = listeners /\ ui' = Append(ui, Task("remove", NullListener, "none"))
      BY <1>5 DEF OnUserLeft
    <2> QED
      BY <1>1, <1>3, <1>5, <2>1
  <1> QED
    BY <1>4, <1>5

LEMMA ModuleFrame ==
  ASSUME Next
  PROVE  CreateListenersModule \/ HandleMessage \/ UNCHANGED module
  <1>1. CASE Server
    BY <1>1 DEF Server, ServerAnswers, ModeratorMutesRoom, VoiceJoins, VoiceLeaves, VoiceChanges,
                ClientUnchanged
  <1>2. CASE User
    BY <1>2 DEF User, ChooseFromMenu, OpenMenu, MuteRoom, Crash
  <1>3. CASE Connect \/ ConnectionLost
    BY <1>3 DEF Connect, ConnectionLost
  <1>4. CASE RunPosted
    BY <1>4, RunSteps DEF RunStep, Crash
  <1> QED
    BY <1>1, <1>2, <1>3, <1>4 DEF Next

LEMMA ModuleTyped ==
  ASSUME Types, Next
  PROVE  ModuleTypes' /\ DOMAIN objects \subseteq DOMAIN objects'
  <1> DEFINE Referred(L, O) == \A u \in DOMAIN L : L[u] \in DOMAIN O /\ O[L[u]].who = u
             Goal == ModuleTypes' /\ DOMAIN objects \subseteq DOMAIN objects'
  <1>a. called \subseteq called' /\ called' \subseteq Voices
    BY ServerTyped DEF ServerTypes
  <1>b. /\ received \in BOOLEAN /\ roomMuted \in BOOLEAN /\ doubled \subseteq Voices
        /\ objects \in Seq(Entry) /\ Len(objects) \in Nat /\ DOMAIN objects = 1..Len(objects)
        /\ \A o \in DOMAIN objects : objects[o].who \in called
        /\ DOMAIN listeners \subseteq Voices
        /\ Referred(listeners, objects)
    BY LenProperties DEF Types, ModuleTypes
  <1>c. ASSUME objects' \in Seq(Entry)
        PROVE  Len(objects') \in Nat /\ DOMAIN objects' = 1..Len(objects')
    BY <1>c, LenProperties
  <1>1. CASE CreateListenersModule
    <2>1. received' = FALSE /\ roomMuted' = FALSE /\ doubled' = {} /\ objects' = objects /\ DOMAIN listeners' = {}
      BY <1>1 DEF CreateListenersModule, NewListeners, NoList
    <2> QED
      BY <2>1, <1>a, <1>b DEF ModuleTypes
  <1>2. CASE OnSharedObjectClear
    <2>1. UNCHANGED module
      BY <1>2 DEF OnSharedObjectClear, KeptList, module
    <2> QED
      BY <2>1, <1>a, <1>b DEF ModuleTypes, module
  <1>3. CASE OnGetCurrentUsers
    <2> DEFINE map == Head(toClient).map
    <2>1. /\ DOMAIN map \subseteq Voices /\ objects' \in Seq(Entry) /\ received' = TRUE
          /\ doubled' = DOMAIN listeners \cap DOMAIN map /\ roomMuted' = roomMuted
      BY <1>3, UsersFacts DEF OnGetCurrentUsers
    <2>2. PICK order \in Seq(Voices) : ListRead(map, order)
      BY <1>3, UsersFacts
    <2>3. \A u \in DOMAIN map : u \in called
      <3>1. Head(toClient).type = "users" /\ 1 \in DOMAIN toClient /\ Head(toClient) = toClient[1]
        BY <1>3, UsersFacts, HeadMessage DEF OnGetCurrentUsers, Receive
      <3>2. \A u \in DOMAIN map : Mentions(toClient[1], u)
        BY <3>1 DEF Mentions
      <3> QED
        BY <3>1, <3>2, <2>1 DEF Types, WireTypes
    <2>4. Len(objects') \in Nat /\ DOMAIN objects' = 1..Len(objects')
      BY <2>1, <1>c
    <2> HIDE DEF map
    <2>5. DOMAIN objects' = 1..(Len(objects) + Len(order)) /\ Len(order) \in Nat /\ DOMAIN order = 1..Len(order)
      BY <2>2, <2>4 DEF ListRead
    <2>9. ASSUME NEW i \in DOMAIN order
          PROVE  objects'[Len(objects) + i].who = order[i] /\ order[i] \in DOMAIN map
      <3>1. /\ objects'[Len(objects) + i] = [who |-> order[i], status |-> map[order[i]]]
            /\ order[i] \in DOMAIN map
        BY <2>2 DEF ListRead
      <3> QED
        BY <3>1
    <2>6. ASSUME NEW o \in DOMAIN objects' PROVE objects'[o].who \in called
      <3>1. CASE o \in DOMAIN objects
        <4>1. objects'[o] = objects[o]
          BY <3>1, <2>2 DEF ListRead
        <4> QED
          BY <4>1, <3>1, <1>b
      <3>2. CASE o \notin DOMAIN objects
        <4>1. o - Len(objects) \in DOMAIN order /\ Len(objects) + (o - Len(objects)) = o
          BY <3>2, <2>5, <1>b
        <4>2. objects'[o].who = order[o - Len(objects)] /\ order[o - Len(objects)] \in DOMAIN map
          BY <4>1, <2>9
        <4> QED
          BY <4>2, <2>3
      <3> QED
        BY <3>1, <3>2
    <2>7. ASSUME NEW u \in DOMAIN listeners'
          PROVE  listeners'[u] \in DOMAIN objects' /\ objects'[listeners'[u]].who = u
      <3>1. u \in DOMAIN map
        BY <2>2 DEF ListRead
      <3>2. PICK i \in DOMAIN order : order[i] = u /\ listeners'[u] = Len(objects) + i
        BY <2>2, <3>1 DEF ListRead
      <3>3. objects'[Len(objects) + i].who = order[i]
        BY <2>9
      <3> QED
        BY <3>2, <3>3, <2>5, <1>b
    <2>8. DOMAIN listeners' \subseteq Voices /\ doubled' \subseteq Voices
      BY <2>1, <2>2 DEF ListRead
    <2> QED
      BY <2>1, <2>5, <2>6, <2>7, <2>8, <1>a, <1>b DEF ModuleTypes
  <1>4. CASE OnUserJoin
    <2> DEFINE m == Head(toClient)
               e == [who |-> m.who, status |-> m.status]
    <2>1. /\ m.type = "userJoin" /\ m.who \in Voices
          /\ UNCHANGED <<received, doubled, roomMuted>>
          /\ objects' \in Seq(Entry)
          /\ Len(objects') = Len(objects) + 1 /\ objects'[Len(objects) + 1] = e
          /\ \A o \in DOMAIN objects : objects'[o] = objects[o]
          /\ DOMAIN listeners' = DOMAIN listeners \cup {m.who}
          /\ listeners'[m.who] = Len(objects) + 1
          /\ \A v \in DOMAIN listeners \ {m.who} : listeners'[v] = listeners[v]
      BY <1>4, JoinFacts
    <2>2. m.who \in called
      <3>1. 1 \in DOMAIN toClient /\ m = toClient[1]
        BY <1>4, HeadMessage DEF OnUserJoin, Receive
      <3>2. Mentions(toClient[1], m.who)
        BY <3>1, <2>1 DEF Mentions
      <3> QED
        BY <3>1, <3>2, <2>1 DEF Types, WireTypes
    <2>3. e.who = m.who
      OBVIOUS
    <2> HIDE DEF e, m
    <2>4. DOMAIN objects' = 1..(Len(objects) + 1)
      BY <2>1, <1>c
    <2>5. \A o \in DOMAIN objects' : objects'[o].who \in called
      BY <2>1, <2>2, <2>3, <2>4, <1>b
    <2>6. Referred(listeners', objects')
      BY <2>1, <2>3, <2>4, <1>b
    <2> QED
      BY <2>1, <2>4, <2>5, <2>6, <1>a, <1>b DEF ModuleTypes
  <1>5. CASE OnUserLeft
    <2> DEFINE u == Head(toClient).who
    <2>1. /\ UNCHANGED <<objects, received, doubled, roomMuted>>
          /\ DOMAIN listeners' = DOMAIN listeners \ {u}
          /\ \A v \in DOMAIN listeners \ {u} : listeners'[v] = listeners[v]
      BY <1>5, LeftFacts
    <2> HIDE DEF u
    <2> QED
      BY <2>1, <1>a, <1>b DEF ModuleTypes
  <1>6. CASE OnAttribute
    <2>1. /\ UNCHANGED <<listeners, received, doubled, roomMuted>>
          /\ objects' \in Seq(Entry) /\ Len(objects') = Len(objects)
          /\ \A o \in DOMAIN objects : objects'[o].who = objects[o].who
      BY <1>6, AttributeFacts
    <2>2. DOMAIN objects' = DOMAIN objects
      BY <2>1, <1>b, <1>c
    <2> QED
      BY <2>1, <2>2, <1>a, <1>b DEF ModuleTypes
  <1>7. ASSUME NEW type \in {"roomMuted", "muteStateCallback"}, OnRoomMuted(type) PROVE Goal
    <2>1. /\ toClient # <<>> /\ Head(toClient).type = type /\ roomMuted' = Head(toClient).value
          /\ UNCHANGED <<objects, listeners, received, doubled>>
      BY <1>7 DEF OnRoomMuted, Receive, KeptList
    <2>2. roomMuted' \in BOOLEAN
      BY <2>1, HeadMessage, MessageFields
    <2> QED
      BY <2>1, <2>2, <1>a, <1>b DEF ModuleTypes
  <1>8. CASE UNCHANGED module
    BY <1>8, <1>a, <1>b DEF ModuleTypes, module
  <1> QED
    BY <1>1, <1>2, <1>3, <1>4, <1>5, <1>6, <1>7, <1>8, ModuleFrame DEF HandleMessage

\* getUserById() finds the first entry with the id, if there is one.
LEMMA FirstFacts ==
  ASSUME list \in Seq(Entry), NEW u
  PROVE  /\ GetUserById(u) = 0 => \A i \in DOMAIN list : list[i].who # u
         /\ GetUserById(u) # 0 =>
              /\ GetUserById(u) \in DOMAIN list /\ list[GetUserById(u)].who = u
              /\ \A i \in DOMAIN list : list[i].who = u => GetUserById(u) <= i
  <1>0. Len(list) \in Nat /\ DOMAIN list = 1..Len(list) /\ Positions(u) \subseteq Nat
    BY LenProperties DEF Positions
  <1>1. CASE Positions(u) = {}
    BY <1>0, <1>1 DEF GetUserById, Positions
  <1>2. CASE Positions(u) # {}
    <2> DEFINE lt == OpToRel(<, Nat)
               S == Positions(u)
    <2>1. IsWellFoundedOn(lt, Nat)
      BY NatLessThanWellFounded
    <2>2. \A m, n \in Nat : m < n => <<m, n>> \in lt
      BY Zenon DEF OpToRel
    <2>0. S \in SUBSET Nat /\ S # {}
      BY <1>0, <1>2
    <2> HIDE DEF lt, S
    <2>3. PICK x \in S : \A y \in S : ~(<<y, x>> \in lt)
      BY <2>0, <2>1, WFMin, Zenon
    <2>4. ASSUME NEW y \in S PROVE x <= y
      <3>1. x \in Nat /\ y \in Nat
        BY <2>0
      <3>2. ~(y < x)
        BY <2>2, <2>3, <3>1, Zenon
      <3> QED
        BY <3>1, <3>2
    <2>5. GetUserById(u) = CHOOSE i \in S : \A j \in S : i <= j
      BY <1>2 DEF GetUserById, S
    <2>6. GetUserById(u) \in S /\ \A j \in S : GetUserById(u) <= j
      BY <2>4, <2>5
    <2> QED
      BY <2>6, <1>0 DEF S, Positions
  <1> QED
    BY <1>1, <1>2

\* The runnables that change the list.
LEMMA AddFacts ==
  ASSUME Types, NEW p \in DOMAIN objects, RunAdd(p)
  PROVE  /\ list' \in Seq(Entry) /\ Len(list') = Len(list) + 1 /\ menu' = menu
         /\ \A i \in DOMAIN list : list'[i] = list[i]
         /\ list'[Len(list) + 1] = objects[p]
  <1>1. list' = Append(list, objects[p]) /\ menu' = menu
    BY DEF RunAdd, AddSection
  <1>2. list \in Seq(Entry) /\ objects[p] \in Entry
    BY ElementOfSeq, LenProperties DEF Types, ModuleTypes, ScreenTypes
  <1> QED
    BY <1>1, <1>2, AppendFacts

LEMMA StatusFacts ==
  ASSUME Types, NEW p \in DOMAIN objects, NEW a \in Attributes, RunStatus(p, a),
         GetUserById(objects[p].who) # 0
  PROVE  LET g == GetUserById(objects[p].who)
         IN  /\ list' \in Seq(Entry) /\ Len(list') = Len(list) /\ menu' = menu
             /\ g \in DOMAIN list
             /\ \A i \in DOMAIN list \ {g} : list'[i] = list[i]
             /\ list'[g].who = list[g].who
             /\ \A b \in Attributes :
                  list'[g].status[b] = IF b = a THEN objects[p].status[a] ELSE list[g].status[b]
  <1> DEFINE g == GetUserById(objects[p].who)
             v == objects[p].status[a]
             e == [list[g] EXCEPT !.status = [list[g].status EXCEPT ![a] = v]]
  <1>1. list \in Seq(Entry) /\ objects[p] \in Entry
    BY ElementOfSeq, LenProperties DEF Types, ModuleTypes, ScreenTypes
  <1>2. g \in DOMAIN list /\ list[g] \in Entry
    BY <1>1, FirstFacts, ElementOfSeq, LenProperties
  <1>3. v \in BOOLEAN /\ list[g].status \in Statuses
    BY <1>1, <1>2 DEF Entry, Statuses
  <1>4. list' = [list EXCEPT ![g] = e] /\ menu' = menu
    BY DEF RunStatus
  <1> HIDE DEF g, v
  <1>5. [list[g].status EXCEPT ![a] = v] \in Statuses
    BY <1>3 DEF Statuses
  <1>6. e \in Entry /\ e.who = list[g].who
        /\ e.status = [list[g].status EXCEPT ![a] = v]
    BY <1>2, <1>3, <1>5 DEF Entry, Statuses
  <1> HIDE DEF e
  <1>7. list' \in Seq(Entry) /\ Len(list') = Len(list)
        /\ list'[g] = e /\ \A i \in DOMAIN list \ {g} : list'[i] = list[i]
    BY <1>1, <1>2, <1>4, <1>6, ExceptSeq
  <1>8. \A b \in Attributes : list'[g].status[b] = IF b = a THEN v ELSE list[g].status[b]
    BY <1>3, <1>6, <1>7 DEF Statuses
  <1> QED
    BY <1>2, <1>4, <1>6, <1>7, <1>8 DEF g, v

LEMMA ShiftFacts ==
  ASSUME Types, Shift
  PROVE  menu' \in Menus /\ (menu' = NoMenu \/ menu'.shifted)
  <1>1. CASE menu = NoMenu
    BY <1>1 DEF Shift, Types, ScreenTypes
  <1>2. CASE menu # NoMenu
    <2>1. menu' = [menu EXCEPT !.shifted = TRUE] /\ menu \in Menus
      BY <1>2 DEF Shift, Types, ScreenTypes
    <2> QED
      BY <2>1 DEF Menus
  <1> QED
    BY <1>1, <1>2

LEMMA RemoveFacts ==
  ASSUME Types, NEW p \in DOMAIN objects, RunRemove(p)
  PROVE  LET g == GetUserById(objects[p].who)
         IN  /\ g = 0 => UNCHANGED <<list, menu>>
             /\ g # 0 => /\ g \in 1..Len(list)
                         /\ list' \in Seq(Entry) /\ Len(list') = Len(list) - 1 /\ Shift
                         /\ \A i \in 1..(Len(list) - 1) :
                              list'[i] = IF i < g THEN list[i] ELSE list[i + 1]
  <1> DEFINE g == GetUserById(objects[p].who)
  <1>1. g = 0 => UNCHANGED <<list, menu>>
    BY DEF RunRemove
  <1>2. ASSUME g # 0 PROVE list' = RemoveAt(list, g) /\ Shift
    BY <1>2 DEF RunRemove
  <1>3. list \in Seq(Entry) /\ DOMAIN list = 1..Len(list)
    BY LenProperties DEF Types, ScreenTypes
  <1>4. ASSUME g # 0 PROVE g \in 1..Len(list)
    BY <1>3, <1>4, FirstFacts
  <1> HIDE DEF g
  <1>5. ASSUME g # 0
        PROVE  /\ list' \in Seq(Entry) /\ Len(list') = Len(list) - 1
               /\ \A i \in 1..(Len(list) - 1) : list'[i] = IF i < g THEN list[i] ELSE list[i + 1]
    BY <1>2, <1>3, <1>4, <1>5, RemoveAtFacts
  <1> QED
    BY <1>1, <1>2, <1>4, <1>5 DEF g

LEMMA HeadTask ==
  ASSUME Types, ui # <<>>
  PROVE  /\ Head(ui) \in Tasks /\ Tail(ui) \in Seq(Tasks) /\ Head(ui) = ui[1] /\ 1 \in DOMAIN ui
         /\ Head(ui).op \in {"clear", "add", "remove", "status"}
         /\ Head(ui).ref \in DOMAIN objects \cup {NullListener}
         /\ Head(ui).op \in {"add", "status"} => Head(ui).ref \in DOMAIN objects
         /\ Head(ui).op = "status" => Head(ui).attr \in Attributes \ {"locked"}
  <1>1. Head(ui) \in Tasks /\ Tail(ui) \in Seq(Tasks) /\ Head(ui) = ui[1] /\ 1 \in DOMAIN ui
    BY TailFacts DEF Types, ScreenTypes
  <1> QED
    BY <1>1 DEF Types, ScreenTypes, Tasks

\* The steps that change what the UI thread holds.
LEMMA ScreenFrame ==
  ASSUME Next
  PROVE  Connect \/ HandleMessage \/ RunPosted \/ User \/ UNCHANGED screen
  <1>1. CASE Server
    BY <1>1 DEF Server, ServerAnswers, ModeratorMutesRoom, VoiceJoins, VoiceLeaves, VoiceChanges,
                ClientUnchanged
  <1>2. CASE ConnectionLost \/ CreateListenersModule
    BY <1>2 DEF ConnectionLost, CreateListenersModule
  <1> QED
    BY <1>1, <1>2 DEF Next

LEMMA ScreenTyped ==
  ASSUME Types, Next
  PROVE  ScreenTypes'
  <1> DEFINE Backs(U, O) == \A i \in DOMAIN U :
                              /\ U[i].ref \in DOMAIN O \cup {NullListener}
                              /\ U[i].op \in {"add", "status"} => U[i].ref # NullListener
                              /\ U[i].op = "status" => U[i].attr \in Attributes \ {"locked"}
             Names(l, c) == \A i \in DOMAIN l : l[i].who \in c
  <1>a. called \subseteq called' /\ DOMAIN objects \subseteq DOMAIN objects'
        /\ objects' \in Seq(Entry)
    BY ServerTyped, ModuleTyped DEF ModuleTypes
  <1>b. /\ ui \in Seq(Tasks) /\ Backs(ui, objects) /\ list \in Seq(Entry) /\ Names(list, called)
        /\ menu \in Menus /\ received \in BOOLEAN
        /\ Len(list) \in Nat /\ DOMAIN list = 1..Len(list) /\ Len(ui) \in Nat
    BY LenProperties DEF Types, ScreenTypes, ModuleTypes
  <1>c. SUFFICES /\ ui' \in Seq(Tasks) /\ Backs(ui', objects')
                 /\ list' \in Seq(Entry) /\ Names(list', called') /\ menu' \in Menus
    BY DEF ScreenTypes
  <1>d. ASSUME UNCHANGED <<list, menu>>
        PROVE  list' \in Seq(Entry) /\ Names(list', called') /\ menu' \in Menus
    BY <1>a, <1>b, <1>d
  <1>e. ASSUME UNCHANGED ui PROVE ui' \in Seq(Tasks) /\ Backs(ui', objects')
    BY <1>a, <1>b, <1>e
  <1>f. ASSUME NEW op \in {"clear", "add", "remove", "status"}, NEW ref \in Nat,
               NEW attr \in Attributes \cup {"none"},
               ui' = Append(ui, Task(op, ref, attr)),
               ref \in DOMAIN objects' \cup {NullListener},
               op \in {"add", "status"} => ref # NullListener,
               op = "status" => attr \in Attributes \ {"locked"}
        PROVE  ui' \in Seq(Tasks) /\ Backs(ui', objects')
    <2> DEFINE t == Task(op, ref, attr)
    <2>1. t \in Tasks /\ t.op = op /\ t.ref = ref /\ t.attr = attr
      BY <1>b DEF Task, Tasks
    <2> HIDE DEF t
    <2>2. /\ Append(ui, t) \in Seq(Tasks) /\ DOMAIN Append(ui, t) = 1..(Len(ui) + 1)
          /\ DOMAIN ui = 1..Len(ui)
          /\ \A i \in 1..Len(ui) : Append(ui, t)[i] = ui[i]
          /\ Append(ui, t)[Len(ui) + 1] = t
      BY <2>1, <1>b, AppendFacts
    <2>3. ui' = Append(ui, t)
      BY <1>f DEF t
    <2> QED
      BY <2>1, <2>2, <2>3, <1>a, <1>b, <1>f
  <1>g. ASSUME ui # <<>>, ui' = Tail(ui) PROVE ui' \in Seq(Tasks) /\ Backs(ui', objects')
    <2>1. /\ Tail(ui) \in Seq(Tasks) /\ DOMAIN Tail(ui) = 1..(Len(ui) - 1) /\ DOMAIN ui = 1..Len(ui)
          /\ \A i \in 1..(Len(ui) - 1) : Tail(ui)[i] = ui[i + 1]
      BY <1>b, <1>g, TailFacts
    <2>2. ASSUME NEW i \in DOMAIN ui' PROVE i + 1 \in DOMAIN ui /\ ui'[i] = ui[i + 1]
      BY <2>1, <1>b, <1>g
    <2> QED
      BY <2>1, <2>2, <1>a, <1>b, <1>g
  <1>h. "none" \in Attributes \cup {"none"} /\ NullListener \in Nat
    BY DEF NullListener
  <1> HIDE DEF Backs, Names
  <1>1. CASE Connect
    <2>1. UNCHANGED <<list, menu>> /\ ui' = Append(ui, Task("clear", NullListener, "none"))
      BY <1>1 DEF Connect
    <2>2. ui' \in Seq(Tasks) /\ Backs(ui', objects')
      BY <2>1, <1>h, <1>f DEF NullListener
    <2> QED
      BY <2>1, <2>2, <1>d
  <1>2. CASE HandleMessage
    <2>0. UNCHANGED <<list, menu>>
      BY <1>2 DEF HandleMessage, OnSharedObjectClear, OnGetCurrentUsers, OnUserJoin, OnUserLeft,
                  OnAttribute, OnRoomMuted, Receive
    <2>1. SUFFICES ui' \in Seq(Tasks) /\ Backs(ui', objects')
      BY <2>0, <1>d
    <2>2. CASE UNCHANGED ui
      BY <2>2, <1>e
    <2>3. CASE OnGetCurrentUsers
      <3>1. ui' \in Seq(Tasks)
        BY <2>3, UsersFacts
      <3>2. PICK order \in Seq(Voices) : ListRead(Head(toClient).map, order)
        BY <2>3, UsersFacts
      <3>3. DOMAIN objects' = 1..(Len(objects) + Len(order)) /\ Len(objects) \in Nat
            /\ Len(order) \in Nat /\ DOMAIN order = 1..Len(order)
        BY <3>2, <1>a, LenProperties DEF ListRead, Types, ModuleTypes
      <3>4. DOMAIN ui' = 1..(Len(ui) + Len(order)) /\ DOMAIN ui = 1..Len(ui)
        BY <3>1, <3>2, <1>b, LenProperties DEF ListRead
      <3>5. ASSUME NEW i \in DOMAIN ui'
            PROVE  /\ ui'[i].ref \in DOMAIN objects' \cup {NullListener}
                   /\ ui'[i].op \in {"add", "status"} => ui'[i].ref # NullListener
                   /\ ui'[i].op = "status" => ui'[i].attr \in Attributes \ {"locked"}
        <4>1. CASE i \in DOMAIN ui
          <5>1. ui'[i] = ui[i]
            BY <4>1, <3>2 DEF ListRead
          <5> QED
            BY <5>1, <4>1, <1>a, <1>b DEF Backs
        <4>2. CASE i \notin DOMAIN ui
          <5>1. i - Len(ui) \in DOMAIN order /\ Len(ui) + (i - Len(ui)) = i
            BY <4>2, <3>3, <3>4, <1>b
          <5>2. ui'[i] = Task("add", Len(objects) + (i - Len(ui)), "none")
            BY <5>1, <3>2 DEF ListRead
          <5>3. Len(objects) + (i - Len(ui)) \in DOMAIN objects'
                /\ Len(objects) + (i - Len(ui)) # 0
            BY <5>1, <3>3, <1>b
          <5> QED
            BY <5>2, <5>3 DEF Task, NullListener
        <4> QED
          BY <4>1, <4>2
      <3> QED
        BY <3>1, <3>5 DEF Backs
    <2>4. CASE OnUserJoin
      <3>1. ui' = Append(ui, Task("add", Len(objects) + 1, "none")) /\ Len(objects') = Len(objects) + 1
        BY <2>4, JoinFacts
      <3>2. Len(objects) \in Nat /\ DOMAIN objects' = 1..(Len(objects) + 1)
        BY <3>1, <1>a, LenProperties DEF Types, ModuleTypes
      <3>3. Len(objects) + 1 \in Nat /\ Len(objects) + 1 \in DOMAIN objects' /\ Len(objects) + 1 # 0
        BY <3>2
      <3> QED
        BY <3>1, <3>3, <1>h, <1>f DEF NullListener
    <2>5. CASE OnUserLeft
      <3> DEFINE u == Head(toClient).who
      <3>1. \/ u \in DOMAIN listeners /\ ui' = Append(ui, Task("remove", listeners[u], "none"))
            \/ ui' = Append(ui, Task("remove", NullListener, "none"))
        BY <2>5, LeftFacts
      <3>2. CASE ui' = Append(ui, Task("remove", NullListener, "none"))
        BY <3>2, <1>h, <1>f
      <3>3. CASE u \in DOMAIN listeners /\ ui' = Append(ui, Task("remove", listeners[u], "none"))
        <4>1. listeners[u] \in DOMAIN objects /\ listeners[u] \in Nat
          BY <3>3, LenProperties DEF Types, ModuleTypes
        <4>2. listeners[u] \in DOMAIN objects' \cup {NullListener}
          BY <4>1, <1>a
        <4> QED
          BY <3>3, <4>1, <4>2, <1>h, <1>f
      <3> QED
        BY <3>1, <3>2, <3>3
    <2>6. CASE OnAttribute /\ ~UNCHANGED ui
      <3> DEFINE m == Head(toClient)
                 r == listeners[m.who]
      <3>1. m.who \in DOMAIN listeners /\ m.attr \in Attributes \ {"locked"}
            /\ ui' = Append(ui, Task("status", r, m.attr))
        BY <2>6, AttributeFacts
      <3>2. r \in DOMAIN objects /\ r \in Nat /\ r # 0
        BY <3>1, LenProperties DEF Types, ModuleTypes
      <3>3. r \in DOMAIN objects' \cup {NullListener}
        BY <3>2, <1>a
      <3> QED
        BY <3>1, <3>2, <3>3, <1>f DEF NullListener
    <2> QED
      BY <1>2, <2>2, <2>3, <2>4, <2>5, <2>6 DEF HandleMessage, OnSharedObjectClear, OnRoomMuted
  <1>3. CASE RunPosted
    <2>1. RunStep
      BY <1>3, RunSteps
    <2>2. ui # <<>> /\ ui' = Tail(ui)
      BY <2>1 DEF RunStep
    <2>3. ui' \in Seq(Tasks) /\ Backs(ui', objects')
      BY <2>2, <1>g
    <2>4. CASE UNCHANGED <<list, menu>>
      BY <2>3, <2>4, <1>d
    <2>5. CASE RunClear
      <3>1. list' = <<>> /\ menu' \in Menus
        BY <2>5, ShiftFacts DEF RunClear
      <3>2. list' \in Seq(Entry) /\ Names(list', called')
        BY <3>1 DEF Names
      <3> QED
        BY <2>3, <3>1, <3>2
    <2>6. ASSUME NEW p \in DOMAIN objects, RunAdd(p)
          PROVE  list' \in Seq(Entry) /\ Names(list', called') /\ menu' \in Menus
      <3>1. /\ list' \in Seq(Entry) /\ Len(list') = Len(list) + 1 /\ menu' = menu
            /\ \A i \in DOMAIN list : list'[i] = list[i]
            /\ list'[Len(list) + 1] = objects[p]
        BY <2>6, AddFacts
      <3>2. DOMAIN list' = 1..(Len(list) + 1)
        BY <3>1, LenProperties
      <3>3. objects[p].who \in called
        BY DEF Types, ModuleTypes
      <3> QED
        BY <3>1, <3>2, <3>3, <1>a, <1>b DEF Names
    <2>7. ASSUME NEW p \in DOMAIN objects, RunRemove(p)
          PROVE  list' \in Seq(Entry) /\ Names(list', called') /\ menu' \in Menus
      <3> DEFINE g == GetUserById(objects[p].who)
      <3>1. CASE g = 0
        BY <3>1, <2>7, <1>d, RemoveFacts
      <3>2. CASE g # 0
        <4>1. /\ g \in 1..Len(list)
              /\ list' \in Seq(Entry) /\ Len(list') = Len(list) - 1 /\ Shift
              /\ \A i \in 1..(Len(list) - 1) : list'[i] = IF i < g THEN list[i] ELSE list[i + 1]
          BY <3>2, <2>7, RemoveFacts
        <4>2. DOMAIN list' = 1..(Len(list) - 1)
          BY <4>1, LenProperties
        <4>3. ASSUME NEW i \in DOMAIN list' PROVE list'[i].who \in called
          BY <4>1, <4>2, <4>3, <1>b DEF Names
        <4>4. menu' \in Menus
          BY <4>1, ShiftFacts
        <4> QED
          BY <4>1, <4>3, <4>4, <1>a DEF Names
      <3> QED
        BY <3>1, <3>2
    <2>8. ASSUME NEW p \in DOMAIN objects, NEW a \in Attributes, RunStatus(p, a),
                 GetUserById(objects[p].who) # 0
          PROVE  list' \in Seq(Entry) /\ Names(list', called') /\ menu' \in Menus
      <3> DEFINE g == GetUserById(objects[p].who)
      <3>1. /\ list' \in Seq(Entry) /\ Len(list') = Len(list) /\ menu' = menu
            /\ g \in DOMAIN list
            /\ \A i \in DOMAIN list \ {g} : list'[i] = list[i]
            /\ list'[g].who = list[g].who
        BY <2>8, StatusFacts
      <3>2. DOMAIN list' = DOMAIN list
        BY <3>1, <1>b, LenProperties
      <3> HIDE DEF g
      <3> QED
        BY <3>1, <3>2, <1>a, <1>b DEF Names
    <2>9. /\ Head(ui).op \in {"add", "status"} => Head(ui).ref \in DOMAIN objects
          /\ Head(ui).ref # NullListener => Head(ui).ref \in DOMAIN objects
          /\ Head(ui).op = "status" => Head(ui).attr \in Attributes
      BY <2>2, HeadTask
    <2> QED
      BY <2>1, <2>3, <2>4, <2>5, <2>6, <2>7, <2>8, <2>9 DEF RunStep, Crash
  <1>4. CASE User
    <2>1. UNCHANGED <<ui, list>>
      BY <1>4 DEF User, ChooseFromMenu, OpenMenu, MuteRoom, Crash, screen
    <2>2. ASSUME NEW i \in DOMAIN list, OpenMenu(i) PROVE menu' \in Menus
      <3>1. list[i] \in Entry
        BY <1>b, ElementOfSeq
      <3>2. menu' = [pos |-> i, who |-> list[i].who, shifted |-> FALSE]
        BY <2>2 DEF OpenMenu
      <3> QED
        BY <3>1, <3>2, <1>b DEF Menus, Entry
    <2>3. NoMenu \in Menus
      BY DEF NoMenu, Menus
    <2>4. menu' \in Menus
      BY <1>4, <1>b, <2>2, <2>3 DEF User, ChooseFromMenu, MuteRoom, Crash, screen
    <2> QED
      BY <2>1, <2>4, <1>a, <1>b, <1>e DEF Names
  <1>5. CASE UNCHANGED screen
    BY <1>5, <1>d, <1>e DEF screen
  <1> QED
    BY <1>1, <1>2, <1>3, <1>4, <1>5, ScreenFrame

LEMMA RestTyped ==
  ASSUME Types, Next
  PROVE  RestTypes'
  <1> DEFINE Faults == [site : Sites, known : BOOLEAN]
  <1>b. /\ app \in {"running", "crashed"} /\ faults \subseteq Faults /\ events \in 0..MaxEvents
        /\ MaxEvents \in Nat
    BY VoicesAssumption DEF Types, RestTypes
  <1>c. Event => events' \in 0..MaxEvents
    BY <1>b DEF Event
  <1>d. ASSUME NEW site \in Sites, NEW known \in BOOLEAN, Crash(Fault(site, known))
        PROVE  app' \in {"running", "crashed"} /\ faults' \subseteq Faults
    <2>1. Fault(site, known) \in Faults
      BY DEF Fault
    <2>2. app' = "crashed" /\ faults' = faults \cup {Fault(site, known)}
      BY <1>d DEF Crash
    <2> QED
      BY <2>1, <2>2, <1>b
  <1>1. CASE Server
    BY <1>1, <1>b, <1>c DEF Server, ServerAnswers, ModeratorMutesRoom, VoiceJoins, VoiceLeaves,
                VoiceChanges, ClientUnchanged, activity, RestTypes
  <1>2. CASE User
    <2>1. CASE ChooseFromMenu
      <3>1. CASE menu.pos \notin DOMAIN list
        <4>1. Crash(Fault("listenerMenu", menu.shifted)) /\ events' = events
          BY <3>1, <2>1 DEF ChooseFromMenu
        <4>2. menu.shifted \in BOOLEAN
          BY DEF Types, ScreenTypes, Menus
        <4> QED
          BY <4>1, <4>2, <1>b, <1>d DEF RestTypes, Sites
      <3>2. CASE menu.pos \in DOMAIN list
        BY <3>2, <2>1, <1>b DEF ChooseFromMenu, activity, RestTypes
      <3> QED
        BY <3>1, <3>2
    <2>2. CASE ~ChooseFromMenu
      BY <1>2, <2>2, <1>b, <1>c DEF User, OpenMenu, MuteRoom, activity, RestTypes
    <2> QED
      BY <2>1, <2>2
  <1>3. CASE Connect \/ ConnectionLost \/ CreateListenersModule
    BY <1>3, <1>b DEF Connect, ConnectionLost, CreateListenersModule, activity, RestTypes
  <1>4. CASE HandleMessage
    BY <1>4, <1>b DEF HandleMessage, OnSharedObjectClear, OnGetCurrentUsers, OnUserJoin, OnUserLeft,
                OnAttribute, OnRoomMuted, Receive, activity, RestTypes
  <1>5. CASE RunPosted
    <2>1. RunStep
      BY <1>5, RunSteps
    <2>2. events' = events
      BY <2>1 DEF RunStep
    <2>3. ui # <<>> => (~Head(ui).listed) \in BOOLEAN
      OBVIOUS
    <2>4. app' \in {"running", "crashed"} /\ faults' \subseteq Faults
      BY <2>1, <2>3, <1>b, <1>d DEF RunStep, Sites, activity
    <2> QED
      BY <2>2, <2>4, <1>b DEF RestTypes
  <1> QED
    BY <1>1, <1>2, <1>3, <1>4, <1>5 DEF Next

LEMMA TypesInit == Init => Types
  <1> SUFFICES ASSUME Init PROVE Types
    OBVIOUS
  <1>0. Quiet \in Statuses /\ NoMenu \in Menus
    BY DEF Quiet, Statuses, NoMenu, Menus
  <1>1. ServerTypes
    BY <1>0 DEF Init, ServerTypes
  <1>2. WireTypes
    BY VoicesAssumption DEF Init, WireTypes
  <1>3. ModuleTypes
    <2>1. /\ DOMAIN listeners = {} /\ objects \in Seq(Entry) /\ DOMAIN objects = {}
          /\ received = FALSE /\ roomMuted = FALSE /\ doubled = {}
      BY DEF Init, NoList
    <2> QED
      BY <2>1 DEF ModuleTypes
  <1>4. ScreenTypes
    BY <1>0 DEF Init, ScreenTypes
  <1>5. RestTypes
    BY VoicesAssumption DEF Init, RestTypes
  <1> QED
    BY <1>1, <1>2, <1>3, <1>4, <1>5 DEF Types

LEMMA TypesNext ==
  ASSUME Types, [Next]_vars
  PROVE  Types'
  <1>1. CASE Next
    BY <1>1, ServerTyped, WireTyped, ModuleTyped, ScreenTyped, RestTyped DEF Types
  <1>2. CASE UNCHANGED vars
    BY <1>2 DEF vars, server, wire, module, screen, activity, Types, ServerTypes, WireTypes,
                ModuleTypes, ScreenTypes, RestTypes, Mentions
  <1> QED
    BY <1>1, <1>2

LEMMA TypesImply == Types => TypeOK
  BY DEF Types, ServerTypes, WireTypes, ModuleTypes, ScreenTypes, RestTypes, TypeOK, Statuses

\* Types: in every reachable state, every reference the map of the module or a
\* runnable of the UI thread holds is one of an object that exists.
THEOREM TypeCorrect == Spec => []TypeOK
  <1>1. Init => Types
    BY TypesInit
  <1>2. Types /\ [Next]_vars => Types'
    BY TypesNext
  <1> QED
    BY <1>1, <1>2, TypesImply, PTL DEF Spec

-----------------------------------------------------------------------------
(* The context menu: entries are only ever added behind the others.        *)
LEMMA MenuNext ==
  ASSUME Types, MenuKeepsListener, [Next]_vars
  PROVE  MenuKeepsListener'
  <1> DEFINE Kept(n, l) == n # NoMenu /\ ~n.shifted => n.pos \in DOMAIN l /\ l[n.pos].who = n.who
             Blamed(F) == \A f \in F : f.site = "listenerMenu" => f.known
  <1>b. Kept(menu, list) /\ Blamed(faults)
    BY DEF MenuKeepsListener
  <1>c. SUFFICES Kept(menu', list') /\ Blamed(faults')
    BY DEF MenuKeepsListener
  <1>t. list \in Seq(Entry) /\ Len(list) \in Nat /\ DOMAIN list = 1..Len(list)
    BY LenProperties DEF Types, ScreenTypes
  <1>1. CASE UNCHANGED <<menu, list, faults>>
    BY <1>1, <1>b
  <1>2. CASE RunPosted
    <2>1. RunStep
      BY <1>2, RunSteps
    <2>0. ui # <<>>
      BY <2>1 DEF RunStep
    <2>2. ASSUME NEW site \in {"listenerLeft", "listenerStatus"}, NEW known, Crash(Fault(site, known))
          PROVE  Kept(menu', list') /\ Blamed(faults')
      <3>1. UNCHANGED <<list, menu>> /\ faults' = faults \cup {Fault(site, known)}
        BY <2>2 DEF Crash
      <3>2. Fault(site, known).site # "listenerMenu"
        BY DEF Fault
      <3> QED
        BY <3>1, <3>2, <1>b
    <2>3. CASE UNCHANGED activity
      <3>0. SUFFICES Kept(menu', list')
        BY <2>3, <1>b DEF activity
      <3>1. ASSUME Shift PROVE Kept(menu', list')
        BY <3>1, ShiftFacts
      <3>2. CASE RunClear
        BY <3>1, <3>2 DEF RunClear
      <3>3. ASSUME NEW p \in DOMAIN objects, RunAdd(p) PROVE Kept(menu', list')
        <4>1. /\ list' \in Seq(Entry) /\ Len(list') = Len(list) + 1 /\ menu' = menu
              /\ \A i \in DOMAIN list : list'[i] = list[i]
          BY <3>3, AddFacts
        <4>2. DOMAIN list' = 1..(Len(list) + 1)
          BY <4>1, LenProperties
        <4> QED
          BY <4>1, <4>2, <1>b, <1>t
      <3>4. ASSUME NEW p \in DOMAIN objects, RunRemove(p) PROVE Kept(menu', list')
        BY <3>1, <3>4, <1>b, RemoveFacts
      <3>5. ASSUME NEW p \in DOMAIN objects, NEW a \in Attributes, RunStatus(p, a),
                   GetUserById(objects[p].who) # 0
            PROVE  Kept(menu', list')
        <4> DEFINE g == GetUserById(objects[p].who)
        <4>1. /\ list' \in Seq(Entry) /\ Len(list') = Len(list) /\ menu' = menu
              /\ g \in DOMAIN list
              /\ \A i \in DOMAIN list \ {g} : list'[i] = list[i]
              /\ list'[g].who = list[g].who
          BY <3>5, StatusFacts
        <4>2. DOMAIN list' = DOMAIN list
          BY <4>1, <1>t, LenProperties
        <4> HIDE DEF g
        <4> QED
          BY <4>1, <4>2, <1>b
      <3>6. /\ Head(ui).op \in {"add", "status"} => Head(ui).ref \in DOMAIN objects
            /\ Head(ui).ref # NullListener => Head(ui).ref \in DOMAIN objects
            /\ Head(ui).op = "status" => Head(ui).attr \in Attributes
        BY <2>0, HeadTask
      <3>7. ASSUME Crash(Fault("listenerLeft", ~Head(ui).listed)) PROVE Kept(menu', list')
        BY <3>7, <2>2
      <3>8. ASSUME Crash(Fault("listenerStatus", FALSE)) PROVE Kept(menu', list')
        BY <3>8, <2>2
      <3> QED
        BY <2>1, <3>2, <3>3, <3>4, <3>5, <3>6, <3>7, <3>8 DEF RunStep
    <2> QED
      BY <2>1, <2>2, <2>3 DEF RunStep
  <1>3. CASE ChooseFromMenu
    <2>1. CASE menu.pos \notin DOMAIN list
      <3>1. /\ UNCHANGED <<list, menu>> /\ menu # NoMenu
            /\ faults' = faults \cup {Fault("listenerMenu", menu.shifted)}
        BY <2>1, <1>3 DEF ChooseFromMenu, Crash
      <3>2. menu.shifted
        BY <3>1, <2>1, <1>b
      <3> QED
        BY <3>1, <3>2, <1>b DEF Fault
    <2>2. CASE menu.pos \in DOMAIN list
      BY <2>2, <1>3, <1>b DEF ChooseFromMenu, activity
    <2> QED
      BY <2>1, <2>2
  <1>4. ASSUME NEW i \in DOMAIN list, OpenMenu(i) PROVE Kept(menu', list') /\ Blamed(faults')
    <2>1. /\ menu' = [pos |-> i, who |-> list[i].who, shifted |-> FALSE]
          /\ UNCHANGED <<list, faults>>
      BY <1>4 DEF OpenMenu, activity
    <2> QED
      BY <2>1, <1>b
  <1>5. [Next]_vars => ChooseFromMenu \/ RunPosted \/ (\E i \in DOMAIN list : OpenMenu(i))
                       \/ UNCHANGED <<menu, list, faults>>
    <2>1. CASE Server
      BY <2>1 DEF Server, ServerAnswers, ModeratorMutesRoom, VoiceJoins, VoiceLeaves, VoiceChanges,
                ClientUnchanged, screen, activity
    <2>2. CASE Connect \/ ConnectionLost \/ CreateListenersModule
      BY <2>2 DEF Connect, ConnectionLost, CreateListenersModule, screen, activity
    <2>3. CASE HandleMessage
      BY <2>3 DEF HandleMessage, OnSharedObjectClear, OnGetCurrentUsers, OnUserJoin, OnUserLeft,
                OnAttribute, OnRoomMuted, Receive, activity
    <2>4. CASE User
      BY <2>4 DEF User, MuteRoom, screen, activity
    <2>5. CASE UNCHANGED vars
      BY <2>5 DEF vars, screen, activity
    <2> QED
      BY <2>1, <2>2, <2>3, <2>4, <2>5 DEF Next
  <1> QED
    BY <1>1, <1>2, <1>3, <1>4, <1>5

\* The position a context menu was opened at names the same listener when a
\* command is chosen, unless an entry was taken out meanwhile, for any number of
\* callers and connections.
THEOREM MenuKeeps == Spec => []MenuKeepsListener
  <1>1. Init => Types /\ MenuKeepsListener
    BY TypesInit DEF Init, MenuKeepsListener, NoMenu
  <1>2. Types /\ MenuKeepsListener /\ [Next]_vars => Types' /\ MenuKeepsListener'
    BY TypesNext, MenuNext
  <1> QED
    BY <1>1, <1>2, PTL DEF Spec

-----------------------------------------------------------------------------
(* The handshake: the module subscribes, is told to clear, asks for the    *)
(* list, is given it.  One of the four is on its way, or none.             *)
Asks(r, name) == r.type = "query" /\ r.name = name
Opens(r) == Asks(r, "connectSO") \/ Asks(r, "getMeetMeUsers")
Replies(m) == m.type \in {"clear", "users"}

Wire ==
  /\ conn # "listening" => toServer = <<>> /\ toClient = <<>> /\ subscribed = FALSE
  /\ conn = "listening" /\ subscribed = FALSE =>
       /\ toServer # <<>> /\ Asks(toServer[1], "connectSO")
       /\ toClient = <<>> /\ DOMAIN listeners = {}
  /\ received = FALSE => doubled = {}

Handshake ==
  /\ \A i, j \in DOMAIN toServer : Opens(toServer[i]) /\ Opens(toServer[j]) => i = j
  /\ \A i, j \in DOMAIN toClient : Replies(toClient[i]) /\ Replies(toClient[j]) => i = j
  /\ \A i \in DOMAIN toServer, j \in DOMAIN toClient : ~(Opens(toServer[i]) /\ Replies(toClient[j]))
  /\ \A i \in DOMAIN toServer : Opens(toServer[i]) => received = FALSE
  /\ \A j \in DOMAIN toClient : Replies(toClient[j]) => received = FALSE

\* A step, seen from the two channels: commands are written, or none of the
\* parts below is concerned.
Commands ==
  /\ conn = "listening" /\ UNCHANGED <<server, toClient, conn, module>>
  /\ \E r \in Seq(Requests) : /\ toServer' = toServer \o r
                              /\ \A i \in DOMAIN r : ~Opens(r[i])

WireStep ==
  \/ Hangup /\ UNCHANGED module
  \/ CreateListenersModule
  \/ HandleMessage
  \/ ServerStep
  \/ Commands
  \/ conn = "closed" /\ conn' = "joining" /\ UNCHANGED <<server, wire, module>>
  \/ UNCHANGED <<server, wire, conn, module>>

\* Every step is one of these.
LEMMA WireSteps ==
  ASSUME Types, [Next]_vars
  PROVE  WireStep
  <1>1. CASE Server
    BY <1>1, ServerSteps DEF WireStep
  <1>2. CASE ChooseFromMenu
    <2>1. CASE menu.pos \notin DOMAIN list
      BY <2>1, <1>2 DEF ChooseFromMenu, Crash, WireStep
    <2>2. CASE menu.pos \in DOMAIN list
      <3>1. list[menu.pos] \in Entry
        BY <2>2, ElementOfSeq, LenProperties DEF Types, ScreenTypes
      <3>2. UNCHANGED <<server, toClient, conn, module>>
            /\ \E request \in MenuRequest(list[menu.pos]) : Send(<<request>>)
        BY <2>2, <1>2 DEF ChooseFromMenu
      <3>3. PICK request \in MenuRequest(list[menu.pos]) : Send(<<request>>)
        BY <3>2
      <3>4. list[menu.pos].who \in Voices /\ (~list[menu.pos].status["muted"]) \in BOOLEAN
        BY <3>1 DEF Entry
      <3>5. request \in Requests /\ ~Opens(request)
        <4> DEFINE who == list[menu.pos].who
                   value == ~list[menu.pos].status["muted"]
        <4>1. \/ request = [type |-> "muteUnmuteUser", who |-> who, value |-> value]
              \/ request = [type |-> "kickUSer", who |-> who]
          BY DEF MenuRequest
        <4>2. who \in Voices /\ value \in BOOLEAN
          BY <3>4
        <4> HIDE DEF who, value
        <4>3. request \in Requests
          BY <4>1, <4>2, RequestForms
        <4>4. request.type # "query"
          BY <4>1
        <4> QED
          BY <4>3, <4>4 DEF Opens, Asks
      <3> DEFINE r == <<request>>
      <3>6. r \in Seq(Requests) /\ \A i \in DOMAIN r : ~Opens(r[i])
        BY <3>5
      <3> HIDE DEF r
      <3>7. CASE conn = "listening"
        <4>1. toServer' = toServer \o r
          BY <3>3, <3>7 DEF Send, Write, r
        <4> QED
          BY <4>1, <3>2, <3>6, <3>7 DEF WireStep, Commands
      <3>8. CASE conn # "listening"
        BY <3>3, <3>8, <3>2 DEF Send, WireStep, wire
      <3> QED
        BY <3>7, <3>8
    <2> QED
      BY <2>1, <2>2
  <1>3. ASSUME NEW i \in DOMAIN list, OpenMenu(i) PROVE WireStep
    BY <1>3 DEF OpenMenu, WireStep
  <1>4. ASSUME NEW mute \in BOOLEAN, MuteRoom(mute) PROVE WireStep
    <2> DEFINE r == <<[type |-> "muteAllUsers", value |-> mute], [type |-> "query", name |-> "isRoomMuted"]>>
    <2>1. r \in Seq(Requests) /\ \A i \in DOMAIN r : ~Opens(r[i])
      BY RequestForms DEF Opens, Asks
    <2>2. conn = "listening" /\ toServer' = toServer \o r /\ UNCHANGED <<server, toClient, conn, module>>
      BY <1>4 DEF MuteRoom, Send, Write
    <2> HIDE DEF r
    <2> QED
      BY <2>1, <2>2 DEF WireStep, Commands
  <1>5. CASE Connect
    BY <1>5 DEF Connect, WireStep
  <1>6. CASE ConnectionLost
    BY <1>6 DEF ConnectionLost, WireStep
  <1>7. CASE RunPosted
    BY <1>7, RunSteps DEF RunStep, Crash, WireStep
  <1>8. CASE UNCHANGED vars
    BY <1>8 DEF vars, WireStep
  <1> QED
    BY <1>1, <1>2, <1>3, <1>4, <1>5, <1>6, <1>7, <1>8 DEF Next, User, WireStep

\* One message is handled.
LEMMA HandleFacts ==
  ASSUME Types, HandleMessage
  PROVE  /\ toClient # <<>> /\ toClient' = Tail(toClient) /\ Head(toClient) = toClient[1]
         /\ toClient[1] \in Messages /\ toClient' \in Seq(Messages)
         /\ Len(toClient) \in Nat /\ Len(toClient) >= 1
         /\ DOMAIN toClient = 1..Len(toClient) /\ DOMAIN toClient' = 1..(Len(toClient) - 1)
         /\ Len(toClient') = Len(toClient) - 1
         /\ \A k \in DOMAIN toClient' : k + 1 \in DOMAIN toClient /\ toClient'[k] = toClient[k + 1]
         /\ UNCHANGED <<voices, called, status, allMuted, subscribed, conn>>
         /\ toClient[1].type = "clear" => OnSharedObjectClear
         /\ toClient[1].type = "users" => OnGetCurrentUsers
         /\ toClient[1].type = "userJoin" => OnUserJoin
         /\ toClient[1].type = "userLeft" => OnUserLeft
         /\ toClient[1].type = "attribute" => OnAttribute
         /\ toClient[1].type = "roomMuted" => OnRoomMuted("roomMuted")
         /\ toClient[1].type = "muteStateCallback" => OnRoomMuted("muteStateCallback")
         /\ toClient[1].type # "clear" => toServer' = toServer
         /\ toClient[1].type # "users" => UNCHANGED <<received, doubled>>
  <1>1. /\ toClient # <<>> /\ toClient' = Tail(toClient)
        /\ UNCHANGED <<voices, called, status, allMuted, subscribed, conn>>
    BY DEF HandleMessage, OnSharedObjectClear, OnGetCurrentUsers, OnUserJoin, OnUserLeft,
           OnAttribute, OnRoomMuted, Receive, server
  <1>2. toClient \in Seq(Messages)
    BY DEF Types, WireTypes
  <1>3. /\ Tail(toClient) \in Seq(Messages) /\ Len(Tail(toClient)) = Len(toClient) - 1
        /\ Len(toClient) \in Nat /\ Len(toClient) >= 1 /\ DOMAIN toClient = 1..Len(toClient)
        /\ DOMAIN Tail(toClient) = 1..(Len(toClient) - 1)
        /\ Head(toClient) = toClient[1] /\ toClient[1] \in Messages
        /\ \A i \in 1..(Len(toClient) - 1) : Tail(toClient)[i] = toClient[i + 1]
    BY <1>1, <1>2, TailFacts
  <1>4. \A k \in DOMAIN toClient' : k + 1 \in DOMAIN toClient /\ toClient'[k] = toClient[k + 1]
    BY <1>1, <1>3
  <1>5. /\ OnSharedObjectClear => toClient[1].type = "clear"
        /\ OnGetCurrentUsers => toClient[1].type = "users"
        /\ OnUserJoin => toClient[1].type = "userJoin"
        /\ OnUserLeft => toClient[1].type = "userLeft"
        /\ OnAttribute => toClient[1].type = "attribute"
        /\ OnRoomMuted("roomMuted") => toClient[1].type = "roomMuted"
        /\ OnRoomMuted("muteStateCallback") => toClient[1].type = "muteStateCallback"
    BY <1>3 DEF OnSharedObjectClear, OnGetCurrentUsers, OnUserJoin, OnUserLeft,
           OnAttribute, OnRoomMuted, Receive
  <1>6. /\ toClient[1].type = "clear" => OnSharedObjectClear
        /\ toClient[1].type = "users" => OnGetCurrentUsers
        /\ toClient[1].type = "userJoin" => OnUserJoin
        /\ toClient[1].type = "userLeft" => OnUserLeft
        /\ toClient[1].type = "attribute" => OnAttribute
        /\ toClient[1].type = "roomMuted" => OnRoomMuted("roomMuted")
        /\ toClient[1].type = "muteStateCallback" => OnRoomMuted("muteStateCallback")
    BY <1>5 DEF HandleMessage
  <1>7. toClient[1].type # "clear" => toServer' = toServer
    BY <1>5 DEF HandleMessage, OnGetCurrentUsers, OnUserJoin, OnUserLeft, OnAttribute, OnRoomMuted
  <1>8. toClient[1].type # "users" => UNCHANGED <<received, doubled>>
    BY <1>5 DEF HandleMessage, OnSharedObjectClear, OnUserJoin, OnUserLeft, OnAttribute, OnRoomMuted, KeptList
  <1> QED
    BY <1>1, <1>3, <1>4, <1>6, <1>7, <1>8

\* The server, seen from the channels.
LEMMA ServerWire ==
  ASSUME Types, Wire, ServerStep
  PROVE  /\ conn = "listening" /\ ClientUnchanged
         /\ toServer' = toServer \/ (toServer # <<>> /\ toServer' = Tail(toServer))
         /\ \/ ConferenceChanges /\ subscribed' = subscribed
            \/ /\ toServer # <<>> /\ toServer' = Tail(toServer)
               /\ Asks(toServer[1], "connectSO") /\ AnswerTo("connectSO") \in Messages
               /\ toClient' = Append(toClient, AnswerTo("connectSO"))
               /\ UNCHANGED <<voices, called, status, allMuted>> /\ subscribed' = TRUE
            \/ \E name \in {"getMeetMeUsers", "isRoomMuted"} :
               /\ toServer # <<>> /\ toServer' = Tail(toServer)
               /\ Asks(toServer[1], name) /\ AnswerTo(name) \in Messages
               /\ toClient' = Append(toClient, AnswerTo(name))
               /\ UNCHANGED <<voices, called, status, allMuted, subscribed>>
  <1>1. conn = "listening" /\ ClientUnchanged
    BY DEF ServerStep, Wire
  <1>2. toServer' = toServer \/ (toServer # <<>> /\ toServer' = Tail(toServer))
    BY DEF ServerStep
  <1>3. ASSUME ConferenceChanges PROVE subscribed' = subscribed
    BY <1>3 DEF ConferenceChanges, Joins, Leave, SetAttribute, SetRoomMuted, server
  <1>4. ASSUME toServer # <<>>, toServer' = Tail(toServer), Head(toServer).type = "query",
               Answer(Head(toServer).name)
        PROVE  \/ /\ Asks(toServer[1], "connectSO") /\ AnswerTo("connectSO") \in Messages
                  /\ toClient' = Append(toClient, AnswerTo("connectSO"))
                  /\ UNCHANGED <<voices, called, status, allMuted>> /\ subscribed' = TRUE
               \/ \E name \in {"getMeetMeUsers", "isRoomMuted"} :
                  /\ Asks(toServer[1], name) /\ AnswerTo(name) \in Messages
                  /\ toClient' = Append(toClient, AnswerTo(name))
                  /\ UNCHANGED <<voices, called, status, allMuted, subscribed>>
    <2> DEFINE name == Head(toServer).name
    <2>1. Head(toServer) = toServer[1] /\ name \in {"connectSO", "getMeetMeUsers", "isRoomMuted"}
      BY <1>4, HeadRequest
    <2>2. Asks(toServer[1], name)
      BY <2>1, <1>4 DEF Asks
    <2>3. Answer(name) /\ ServerTypes
      BY <1>4 DEF Types
    <2> HIDE DEF name
    <2>4. /\ AnswerTo(name) \in Messages
          /\ toClient' = Append(toClient, AnswerTo(name))
          /\ UNCHANGED <<voices, called, status, allMuted>>
      BY <2>1, <2>3, AnswerFacts
    <2>5. CASE name = "connectSO"
      <3>1. subscribed' = TRUE
        BY <2>3, <2>5 DEF Answer
      <3> QED
        BY <2>2, <2>4, <2>5, <3>1
    <2>6. CASE name # "connectSO"
      <3>1. subscribed' = subscribed
        BY <2>1, <2>3, <2>6 DEF Answer, server
      <3>2. name \in {"getMeetMeUsers", "isRoomMuted"}
        BY <2>1, <2>6
      <3> QED
        BY <2>2, <2>4, <3>1, <3>2
    <2> QED
      BY <2>5, <2>6
  <1>5. CASE ConferenceChanges
    BY <1>1, <1>2, <1>3, <1>5
  <1>6. CASE /\ toServer # <<>> /\ toServer' = Tail(toServer) /\ Head(toServer).type = "query"
             /\ Answer(Head(toServer).name)
    BY <1>1, <1>2, <1>4, <1>6
  <1> QED
    BY <1>5, <1>6 DEF ServerStep

LEMMA AnswerTypes ==
  /\ AnswerTo("connectSO").type = "clear" /\ AnswerTo("getMeetMeUsers").type = "users"
  /\ AnswerTo("getMeetMeUsers").map = [u \in voices |-> status[u]]
  /\ AnswerTo("isRoomMuted").type = "roomMuted" /\ AnswerTo("isRoomMuted").value = allMuted
  BY DEF AnswerTo

LEMMA WireNext ==
  ASSUME Types, Wire, Handshake, [Next]_vars
  PROVE  Wire'
  <1>1. CASE Hangup /\ UNCHANGED module
    BY <1>1 DEF Hangup, module, Wire
  <1>2. CASE CreateListenersModule
    <2>1. /\ toServer = <<>> /\ toClient = <<>> /\ toClient' = toClient /\ DOMAIN listeners' = {}
          /\ toServer' = toServer \o Queries(SubscribeRequests)
          /\ conn' = "listening" /\ doubled' = {}
      BY <1>2 DEF CreateListenersModule, Write, NewListeners, NoList, Wire
    <2>2. toServer' = Queries(SubscribeRequests)
      BY <2>1, QueriesFacts, ConcatEmptySeq
    <2>3. toServer' # <<>> /\ Asks(toServer'[1], "connectSO")
      <3> DEFINE q == Queries(SubscribeRequests)
      <3>1. q \in Seq(Requests) /\ Len(q) = 1 /\ q[1] = [type |-> "query", name |-> "connectSO"]
        BY QueriesFacts
      <3> HIDE DEF q
      <3>5. Len(q) = 1
        BY <3>1
      <3>2. q # <<>>
        BY <3>5
      <3>3. Asks(q[1], "connectSO")
        BY <3>1 DEF Asks
      <3>4. toServer' = q
        BY <2>2 DEF q
      <3> QED
        BY <3>2, <3>3, <3>4
    <2> QED
      BY <2>1, <2>3 DEF Wire
  <1>3. CASE HandleMessage
    <2>1. /\ toClient # <<>> /\ UNCHANGED <<conn, subscribed>>
          /\ toClient[1].type = "users" => OnGetCurrentUsers
          /\ toClient[1].type # "users" => UNCHANGED <<received, doubled>>
      BY <1>3, HandleFacts
    <2>2. conn = "listening" /\ subscribed # FALSE
      BY <2>1 DEF Wire
    <2>3. received' = FALSE => doubled' = {}
      BY <2>1, UsersFacts DEF Wire
    <2> QED
      BY <2>1, <2>2, <2>3 DEF Wire
  <1>4. CASE ServerStep
    <2>1. conn = "listening" /\ UNCHANGED <<conn, listeners, received, doubled>>
      BY <1>4, ServerWire DEF ClientUnchanged, module
    <2>2. CASE subscribed' # FALSE
      BY <2>1, <2>2 DEF Wire
    <2>3. CASE subscribed' = FALSE
      <3>1. ConferenceChanges /\ subscribed = FALSE
        <4>1. \/ ConferenceChanges /\ subscribed' = subscribed
              \/ subscribed' = TRUE
              \/ /\ subscribed' = subscribed
                 /\ \E name \in {"getMeetMeUsers", "isRoomMuted"} : Asks(toServer[1], name)
          BY <1>4, ServerWire
        <4> QED
          BY <4>1, <2>1, <2>3 DEF Asks, Wire
      <3>2. toServer # <<>> /\ Asks(toServer[1], "connectSO") /\ toClient = <<>> /\ DOMAIN listeners = {}
        BY <2>1, <3>1 DEF Wire
      <3>3. toClient' = toClient
        BY <3>1, ConferenceMessages DEF Types, WireTypes
      <3>4. toServer' = toServer
        BY <1>4, <3>2, HeadRequest, <2>3 DEF ServerStep, Asks, Answer
      <3> QED
        BY <2>1, <3>2, <3>3, <3>4 DEF Wire
    <2> QED
      BY <2>2, <2>3
  <1>5. CASE Commands
    <2>1. /\ conn = "listening" /\ UNCHANGED <<subscribed, toClient, conn, received, doubled, listeners>>
      BY <1>5 DEF Commands, server, module
    <2>2. PICK r \in Seq(Requests) : toServer' = toServer \o r
      BY <1>5 DEF Commands
    <2>3. CASE subscribed = FALSE
      <3>1. toServer # <<>> /\ Asks(toServer[1], "connectSO") /\ toServer \in Seq(Requests)
        BY <2>1, <2>3 DEF Wire, Types, WireTypes
      <3>2. Len(toServer) \in Nat /\ Len(toServer) >= 1
        BY <3>1, TailFacts
      <3>3. (toServer \o r)[1] = toServer[1] /\ Len(toServer \o r) = Len(toServer) + Len(r) /\ Len(r) \in Nat
        BY <3>1, <3>2, ConcatFacts
      <3>4. toServer' # <<>> /\ toServer'[1] = toServer[1]
        BY <2>2, <3>2, <3>3
      <3> QED
        BY <2>1, <3>1, <3>4 DEF Wire
    <2>4. CASE subscribed # FALSE
      BY <2>1, <2>4 DEF Wire
    <2> QED
      BY <2>3, <2>4
  <1>6. CASE conn = "closed" /\ conn' = "joining" /\ UNCHANGED <<server, wire, module>>
    BY <1>6 DEF server, wire, module, Wire
  <1>7. CASE UNCHANGED <<server, wire, conn, module>>
    BY <1>7 DEF server, wire, module, Wire
  <1> QED
    BY <1>1, <1>2, <1>3, <1>4, <1>5, <1>6, <1>7, WireSteps DEF WireStep

LEMMA HandshakeNext ==
  ASSUME Types, Wire, Handshake, [Next]_vars
  PROVE  Handshake'
  <1>a. toServer \in Seq(Requests) /\ toClient \in Seq(Messages)
        /\ Len(toServer) \in Nat /\ DOMAIN toServer = 1..Len(toServer)
        /\ Len(toClient) \in Nat /\ DOMAIN toClient = 1..Len(toClient)
    BY LenProperties DEF Types, WireTypes
  <1>1. CASE Hangup /\ UNCHANGED module
    <2>1. DOMAIN toServer' = {} /\ DOMAIN toClient' = {}
      BY <1>1 DEF Hangup
    <2> QED
      BY <2>1 DEF Handshake
  <1>2. CASE CreateListenersModule
    <2> DEFINE q == Queries(SubscribeRequests)
    <2>1. /\ toServer = <<>> /\ toClient = <<>> /\ toClient' = toClient
          /\ toServer' = toServer \o q /\ received' = FALSE
      BY <1>2 DEF CreateListenersModule, Write, Wire
    <2>2. q \in Seq(Requests) /\ Len(q) = 1
      BY QueriesFacts
    <2> HIDE DEF q
    <2>3. toServer' = q /\ DOMAIN q = 1..1
      BY <2>1, <2>2, ConcatEmptySeq, LenProperties
    <2>4. DOMAIN toClient' = {}
      BY <2>1
    <2> QED
      BY <2>1, <2>3, <2>4 DEF Handshake
  <1>3. CASE HandleMessage
    <2>1. /\ toClient # <<>>
          /\ Len(toClient) >= 1 /\ DOMAIN toClient' = 1..(Len(toClient) - 1)
          /\ \A k \in DOMAIN toClient' : k + 1 \in DOMAIN toClient /\ toClient'[k] = toClient[k + 1]
          /\ toClient[1].type = "clear" => OnSharedObjectClear
          /\ toClient[1].type # "clear" => toServer' = toServer
          /\ toClient[1].type = "users" => OnGetCurrentUsers
          /\ toClient[1].type # "users" => UNCHANGED <<received, doubled>>
      BY <1>3, HandleFacts
    <2>2. CASE Replies(toClient[1])
      <3>1. /\ \A k \in DOMAIN toClient' : ~Replies(toClient'[k])
            /\ \A i \in DOMAIN toServer : ~Opens(toServer[i])
            /\ received = FALSE
        BY <2>1, <2>2, <1>a DEF Handshake
      <3>2. CASE toClient[1].type = "users"
        BY <3>1, <3>2, <2>1 DEF Handshake
      <3>3. CASE toClient[1].type = "clear"
        <4> DEFINE q == Queries(ClearRequests)
        <4>1. toServer' = toServer \o q /\ received' = received
          BY <2>1, <3>3 DEF OnSharedObjectClear, Write, KeptList
        <4>2. /\ q \in Seq(Requests) /\ Len(q) = 2
              /\ q[1] = [type |-> "query", name |-> "getMeetMeUsers"]
              /\ q[2] = [type |-> "query", name |-> "isRoomMuted"]
          BY QueriesFacts
        <4> HIDE DEF q
        <4>0. toServer \in Seq(Requests) /\ q \in Seq(Requests)
          BY <1>a, <4>2
        <4>8. DOMAIN (toServer \o q) = 1..(Len(toServer) + Len(q))
          BY <4>0, ConcatFacts
        <4>9. \A i \in 1..Len(toServer) : (toServer \o q)[i] = toServer[i]
          BY <4>0, ConcatFacts
        <4>10. \A i \in 1..Len(q) : (toServer \o q)[Len(toServer) + i] = q[i]
          BY <4>0, ConcatFacts
        <4>3. /\ DOMAIN (toServer \o q) = 1..(Len(toServer) + Len(q))
              /\ \A i \in 1..Len(toServer) : (toServer \o q)[i] = toServer[i]
              /\ \A i \in 1..Len(q) : (toServer \o q)[Len(toServer) + i] = q[i]
          BY <4>8, <4>9, <4>10
        <4>4. DOMAIN toServer' = 1..(Len(toServer) + 2)
              /\ \A i \in 1..Len(toServer) : toServer'[i] = toServer[i]
          BY <4>1, <4>2, <4>3
        <4>5. toServer'[Len(toServer) + 1] = q[1] /\ toServer'[Len(toServer) + 2] = q[2]
          BY <4>1, <4>2, <4>3
        <4>6. ~Opens(q[2])
          BY <4>2 DEF Opens, Asks
        <4>7. \A i \in DOMAIN toServer' : Opens(toServer'[i]) => i = Len(toServer) + 1
          <5> SUFFICES ASSUME NEW i \in DOMAIN toServer', Opens(toServer'[i])
                       PROVE  i = Len(toServer) + 1
            OBVIOUS
          <5>1. i \notin 1..Len(toServer)
            BY <3>1, <4>4, <1>a
          <5>2. i # Len(toServer) + 2
            BY <4>5, <4>6
          <5> QED
            BY <5>1, <5>2, <4>4, <1>a
        <4> QED
          BY <3>1, <4>1, <4>7 DEF Handshake
      <3> QED
        BY <2>2, <3>2, <3>3 DEF Replies
    <2>3. CASE ~Replies(toClient[1])
      <3>1. toServer' = toServer /\ received' = received
        BY <2>1, <2>3 DEF Replies
      <3>2. \A k \in DOMAIN toClient' : k \in Nat /\ k + 1 \in DOMAIN toClient /\ toClient'[k] = toClient[k + 1]
        BY <2>1, <1>a
      <3> QED
        BY <3>1, <3>2 DEF Handshake
    <2> QED
      BY <2>2, <2>3
  <1>4. CASE ServerStep
    <2>1. /\ received' = received
          /\ toServer' = toServer \/ (toServer # <<>> /\ toServer' = Tail(toServer))
      BY <1>4, ServerWire DEF ClientUnchanged, module
    <2>2. ASSUME toServer # <<>>, toServer' = Tail(toServer)
          PROVE  /\ Len(toServer) >= 1 /\ DOMAIN toServer' = 1..(Len(toServer) - 1)
                 /\ \A i \in DOMAIN toServer' : i \in Nat /\ i + 1 \in DOMAIN toServer /\ toServer'[i] = toServer[i + 1]
      <3>1. Len(toServer) >= 1 /\ DOMAIN Tail(toServer) = 1..(Len(toServer) - 1)
            /\ \A i \in 1..(Len(toServer) - 1) : Tail(toServer)[i] = toServer[i + 1]
        BY <2>2, <1>a, TailFacts
      <3> QED
        BY <3>1, <2>2, <1>a
    <2>3. ASSUME NEW m \in Messages, toClient' = Append(toClient, m)
          PROVE  /\ DOMAIN toClient' = 1..(Len(toClient) + 1)
                 /\ \A k \in DOMAIN toClient : toClient'[k] = toClient[k]
                 /\ toClient'[Len(toClient) + 1] = m
      BY <2>3, <1>a, AppendFacts
    <2> DEFINE Same == \A i \in DOMAIN toServer' :
                         \E j \in DOMAIN toServer : toServer'[i] = toServer[j]
    <2>4. /\ \A i, j \in DOMAIN toServer' : Opens(toServer'[i]) /\ Opens(toServer'[j]) => i = j
          /\ Same
      <3>1. CASE toServer' = toServer
        BY <3>1 DEF Handshake
      <3>2. CASE toServer # <<>> /\ toServer' = Tail(toServer)
        <4>1. /\ \A i \in DOMAIN toServer' : i \in Nat /\ i + 1 \in DOMAIN toServer /\ toServer'[i] = toServer[i + 1]
          BY <2>2, <3>2
        <4> QED
          BY <4>1 DEF Handshake
      <3> QED
        BY <2>1, <3>1, <3>2
    <2>5. ASSUME NEW m \in Messages, toClient' = Append(toClient, m), ~Replies(m)
          PROVE  Handshake'
      <3>1. \A k \in DOMAIN toClient' : Replies(toClient'[k]) => k \in DOMAIN toClient /\ toClient'[k] = toClient[k]
        BY <2>3, <2>5, <1>a
      <3> QED
        BY <3>1, <2>1, <2>4 DEF Handshake
    <2>6. ASSUME toClient' = toClient PROVE Handshake'
      BY <2>6, <2>1, <2>4 DEF Handshake
    <2>7. CASE ConferenceChanges
      <3>1. \/ toClient' = toClient
            \/ \E m \in Messages : toClient' = Append(toClient, m) /\ m.type \notin {"clear", "users"}
        BY <2>7, ConferenceMessages DEF Types, WireTypes
      <3> QED
        BY <3>1, <2>5, <2>6 DEF Replies
    <2>8. ASSUME NEW name \in {"connectSO", "getMeetMeUsers", "isRoomMuted"},
                 toServer # <<>>, toServer' = Tail(toServer), Asks(toServer[1], name),
                 AnswerTo(name) \in Messages, toClient' = Append(toClient, AnswerTo(name))
          PROVE  Handshake'
      <3>1. CASE name = "isRoomMuted"
        BY <3>1, <2>5, <2>8, AnswerTypes DEF Replies
      <3>2. CASE name # "isRoomMuted"
        <4>1. Opens(toServer[1]) /\ 1 \in DOMAIN toServer
          BY <3>2, <2>8, <2>2, <1>a DEF Opens
        <4>2. /\ received = FALSE /\ \A k \in DOMAIN toClient : ~Replies(toClient[k])
              /\ \A i \in DOMAIN toServer : Opens(toServer[i]) => i = 1
          BY <4>1 DEF Handshake
        <4>3. \A i \in DOMAIN toServer' : ~Opens(toServer'[i])
          BY <4>2, <2>2, <2>8, <1>a
        <4>4. \A k \in DOMAIN toClient' : Replies(toClient'[k]) => k = Len(toClient) + 1
          BY <4>2, <2>3, <2>8, <1>a
        <4> QED
          BY <4>2, <4>3, <4>4, <2>1 DEF Handshake
      <3> QED
        BY <3>1, <3>2
    <2> QED
      BY <2>7, <2>8, <1>4, ServerWire
  <1>5. CASE Commands
    <2>1. UNCHANGED <<toClient, received>>
      BY <1>5 DEF Commands, module
    <2>2. PICK r \in Seq(Requests) : toServer' = toServer \o r /\ \A i \in DOMAIN r : ~Opens(r[i])
      BY <1>5 DEF Commands
    <2>3. /\ DOMAIN (toServer \o r) = 1..(Len(toServer) + Len(r)) /\ Len(r) \in Nat
          /\ DOMAIN r = 1..Len(r)
          /\ \A i \in 1..Len(toServer) : (toServer \o r)[i] = toServer[i]
          /\ \A i \in 1..Len(r) : (toServer \o r)[Len(toServer) + i] = r[i]
      BY <1>a, ConcatFacts
    <2>4. \A i \in DOMAIN toServer' : Opens(toServer'[i]) => i \in DOMAIN toServer /\ toServer'[i] = toServer[i]
      <3> SUFFICES ASSUME NEW i \in DOMAIN toServer', Opens(toServer'[i])
                   PROVE  i \in DOMAIN toServer /\ toServer'[i] = toServer[i]
        OBVIOUS
      <3>1. CASE i \in 1..Len(toServer)
        BY <3>1, <2>2, <2>3, <1>a
      <3>2. CASE i \notin 1..Len(toServer)
        <4>1. i - Len(toServer) \in 1..Len(r) /\ Len(toServer) + (i - Len(toServer)) = i
          BY <3>2, <2>2, <2>3, <1>a
        <4>2. toServer'[i] = r[i - Len(toServer)]
          BY <4>1, <2>2, <2>3
        <4> QED
          BY <4>1, <4>2, <2>2, <2>3
      <3> QED
        BY <3>1, <3>2
    <2> QED
      BY <2>1, <2>4 DEF Handshake
  <1>6. CASE conn = "closed" /\ conn' = "joining" /\ UNCHANGED <<server, wire, module>>
    BY <1>6 DEF wire, module, Handshake
  <1>7. CASE UNCHANGED <<server, wire, conn, module>>
    BY <1>7 DEF wire, module, Handshake
  <1> QED
    BY <1>1, <1>2, <1>3, <1>4, <1>5, <1>6, <1>7, WireSteps DEF WireStep

-----------------------------------------------------------------------------
(* What the messages on their way say: of a topic, the last one that is    *)
(* about it decides, and when none is, the module knows already.           *)
Presence(u) == [of |-> "presence", who |-> u, attr |-> "none"]
State(u, a) == [of |-> "state", who |-> u, attr |-> a]
Room == [of |-> "room", who |-> "nobody", attr |-> "none"]

InOut(u, S) == IF u \in S THEN "in" ELSE "out"

Decides(m, t) ==
  \/ t.of = "presence" /\ \/ m.type \in {"userJoin", "userLeft"} /\ m.who = t.who
                          \/ m.type = "users"
  \/ t.of = "state" /\ \/ m.type = "attribute" /\ m.who = t.who /\ m.attr = t.attr
                       \/ m.type = "userJoin" /\ m.who = t.who
                       \/ m.type = "users" /\ t.who \in DOMAIN m.map
  \/ t.of = "room" /\ m.type \in {"roomMuted", "muteStateCallback"}

Says(m, t) ==
  IF m.type = "users"
  THEN IF t.of = "presence" THEN InOut(t.who, DOMAIN m.map) ELSE m.map[t.who][t.attr]
  ELSE IF m.type = "userJoin"
  THEN IF t.of = "presence" THEN "in" ELSE m.status[t.attr]
  ELSE IF m.type = "userLeft" THEN "out" ELSE m.value

Silent(q, n, t) == \A k \in 1..n : ~Decides(q[k], t)
LastSays(q, n, t, v) ==
  \E k \in 1..n : /\ Decides(q[k], t) /\ Says(q[k], t) = v
                  /\ \A l \in (k + 1)..n : ~Decides(q[l], t)

\* What the module knows: a caller in its map is in the conference, and every
\* caller is in its map once it was given the list.
KnownIn(u, v) ==
  /\ u \in DOMAIN listeners => v = "in"
  /\ received = TRUE /\ v = "in" => u \in DOMAIN listeners
Shows(u, a, v) == u \in DOMAIN listeners => objects[listeners[u]].status[a] = v

Present(n, u, v) ==
  \/ LastSays(toClient, n, Presence(u), v)
  \/ Silent(toClient, n, Presence(u)) /\ KnownIn(u, v)
Brings(n, u, a, v) ==
  \/ LastSays(toClient, n, State(u, a), v)
  \/ Silent(toClient, n, State(u, a)) /\ Shows(u, a, v)
RoomBrings(v) ==
  \/ LastSays(toClient, Len(toClient), Room, v)
  \/ Silent(toClient, Len(toClient), Room) /\ roomMuted = v

\* Which messages are about which topic, and what they say.
LEMMA TopicFacts ==
  ASSUME NEW m, NEW u, NEW a
  PROVE  /\ m.type = "users" =>
              /\ Decides(m, Presence(u)) /\ Says(m, Presence(u)) = InOut(u, DOMAIN m.map)
              /\ Decides(m, State(u, a)) <=> u \in DOMAIN m.map
              /\ Says(m, State(u, a)) = m.map[u][a]
              /\ ~Decides(m, Room)
         /\ m.type = "userJoin" =>
              /\ Decides(m, Presence(u)) <=> m.who = u
              /\ Says(m, Presence(u)) = "in"
              /\ Decides(m, State(u, a)) <=> m.who = u
              /\ Says(m, State(u, a)) = m.status[a]
              /\ ~Decides(m, Room)
         /\ m.type = "userLeft" =>
              /\ Decides(m, Presence(u)) <=> m.who = u
              /\ Says(m, Presence(u)) = "out"
              /\ ~Decides(m, State(u, a)) /\ ~Decides(m, Room)
         /\ m.type = "attribute" =>
              /\ ~Decides(m, Presence(u))
              /\ Decides(m, State(u, a)) <=> (m.who = u /\ m.attr = a)
              /\ Says(m, State(u, a)) = m.value
              /\ ~Decides(m, Room)
         /\ m.type = "clear" =>
              ~Decides(m, Presence(u)) /\ ~Decides(m, State(u, a)) /\ ~Decides(m, Room)
         /\ m.type \in {"roomMuted", "muteStateCallback"} =>
              /\ ~Decides(m, Presence(u)) /\ ~Decides(m, State(u, a))
              /\ Decides(m, Room) /\ Says(m, Room) = m.value
  <1>1. /\ Presence(u).of = "presence" /\ Presence(u).who = u
        /\ State(u, a).of = "state" /\ State(u, a).who = u /\ State(u, a).attr = a
        /\ Room.of = "room"
    BY DEF Presence, State, Room
  <1> DEFINE p == Presence(u)
             s == State(u, a)
             r == Room
  <1>2. p.of = "presence" /\ p.who = u /\ s.of = "state" /\ s.who = u /\ s.attr = a /\ r.of = "room"
    BY <1>1
  <1> HIDE DEF p, s, r
  <1>3. CASE m.type = "users"
    BY <1>2, <1>3 DEF Decides, Says, p, s, r
  <1>4. CASE m.type = "userJoin"
    BY <1>2, <1>4 DEF Decides, Says, p, s, r
  <1>5. CASE m.type = "userLeft"
    BY <1>2, <1>5 DEF Decides, Says, p, s, r
  <1>6. CASE m.type = "attribute"
    BY <1>2, <1>6 DEF Decides, Says, p, s, r
  <1>7. CASE m.type = "clear"
    BY <1>2, <1>7 DEF Decides, Says, p, s, r
  <1>8. CASE m.type \in {"roomMuted", "muteStateCallback"}
    BY <1>2, <1>8 DEF Decides, Says, p, s, r
  <1> QED
    BY <1>3, <1>4, <1>5, <1>6, <1>7, <1>8

\* The messages of a queue without its first one, and with one more.
LEMMA ToldTail ==
  ASSUME NEW q \in Seq(Messages), q # <<>>, NEW n \in 1..Len(q), NEW t, NEW v
  PROVE  /\ LastSays(q, n, t, v) =>
              \/ LastSays(Tail(q), n - 1, t, v)
              \/ Silent(Tail(q), n - 1, t) /\ Decides(q[1], t) /\ Says(q[1], t) = v
         /\ Silent(q, n, t) => Silent(Tail(q), n - 1, t) /\ ~Decides(q[1], t)
  <1>1. Len(q) \in Nat /\ \A i \in 1..(Len(q) - 1) : Tail(q)[i] = q[i + 1]
    BY TailFacts
  <1>2. ASSUME LastSays(q, n, t, v)
        PROVE  \/ LastSays(Tail(q), n - 1, t, v)
               \/ Silent(Tail(q), n - 1, t) /\ Decides(q[1], t) /\ Says(q[1], t) = v
    <2>1. PICK k \in 1..n : /\ Decides(q[k], t) /\ Says(q[k], t) = v
                            /\ \A l \in (k + 1)..n : ~Decides(q[l], t)
      BY <1>2 DEF LastSays
    <2>2. CASE k = 1
      <3>1. \A l \in 1..(n - 1) : ~Decides(Tail(q)[l], t)
        BY <2>1, <2>2, <1>1
      <3> QED
        BY <3>1, <2>1, <2>2 DEF Silent
    <2>3. CASE k # 1
      <3>1. k - 1 \in 1..(n - 1) /\ Tail(q)[k - 1] = q[k]
        BY <2>3, <1>1
      <3>2. \A l \in ((k - 1) + 1)..(n - 1) : ~Decides(Tail(q)[l], t)
        BY <2>1, <2>3, <1>1
      <3> QED
        BY <3>1, <3>2, <2>1 DEF LastSays
    <2> QED
      BY <2>2, <2>3
  <1>3. ASSUME Silent(q, n, t) PROVE Silent(Tail(q), n - 1, t) /\ ~Decides(q[1], t)
    BY <1>1, <1>3 DEF Silent
  <1> QED
    BY <1>2, <1>3

LEMMA ToldAppend ==
  ASSUME NEW q \in Seq(Messages), NEW m \in Messages, NEW t, NEW v
  PROVE  /\ \A n \in 0..Len(q) : /\ LastSays(q, n, t, v) => LastSays(Append(q, m), n, t, v)
                                 /\ Silent(q, n, t) => Silent(Append(q, m), n, t)
         /\ Decides(m, t) /\ Says(m, t) = v => LastSays(Append(q, m), Len(q) + 1, t, v)
         /\ ~Decides(m, t) =>
              /\ LastSays(q, Len(q), t, v) => LastSays(Append(q, m), Len(q) + 1, t, v)
              /\ Silent(q, Len(q), t) => Silent(Append(q, m), Len(q) + 1, t)
  <1>1. /\ Len(q) \in Nat /\ Append(q, m)[Len(q) + 1] = m
        /\ \A i \in 1..Len(q) : Append(q, m)[i] = q[i]
    BY AppendFacts
  <1>2. ASSUME NEW n \in 0..Len(q), LastSays(q, n, t, v) PROVE LastSays(Append(q, m), n, t, v)
    BY <1>1, <1>2 DEF LastSays
  <1>3. ASSUME NEW n \in 0..Len(q), Silent(q, n, t) PROVE Silent(Append(q, m), n, t)
    BY <1>1, <1>3 DEF Silent
  <1>4. ASSUME Decides(m, t), Says(m, t) = v PROVE LastSays(Append(q, m), Len(q) + 1, t, v)
    <2>1. Len(q) + 1 \in 1..(Len(q) + 1) /\ \A l \in ((Len(q) + 1) + 1)..(Len(q) + 1) : FALSE
      BY <1>1
    <2> QED
      BY <2>1, <1>1, <1>4 DEF LastSays
  <1>5. ASSUME ~Decides(m, t), LastSays(q, Len(q), t, v)
        PROVE  LastSays(Append(q, m), Len(q) + 1, t, v)
    <2>1. PICK k \in 1..Len(q) : /\ Decides(q[k], t) /\ Says(q[k], t) = v
                                 /\ \A l \in (k + 1)..Len(q) : ~Decides(q[l], t)
      BY <1>5 DEF LastSays
    <2>2. \A l \in (k + 1)..(Len(q) + 1) : ~Decides(Append(q, m)[l], t)
      BY <2>1, <1>1, <1>5
    <2>3. k \in 1..(Len(q) + 1) /\ Append(q, m)[k] = q[k]
      BY <1>1
    <2> QED
      BY <2>1, <2>2, <2>3 DEF LastSays
  <1>6. ASSUME ~Decides(m, t), Silent(q, Len(q), t) PROVE Silent(Append(q, m), Len(q) + 1, t)
    <2>1. \A k \in 1..(Len(q) + 1) : k \in 1..Len(q) \/ k = Len(q) + 1
      BY <1>1
    <2> QED
      BY <2>1, <1>1, <1>6 DEF Silent
  <1> QED
    BY <1>2, <1>3, <1>4, <1>5, <1>6

\* One message less: what it said, the module knows.
LEMMA PresentPop ==
  ASSUME Types, HandleMessage, NEW n \in 1..Len(toClient), NEW u, NEW v, Present(n, u, v)
  PROVE  Present(n - 1, u, v)'
  <1> DEFINE q == toClient
             m == q[1]
             t == Presence(u)
  <1>1. /\ q # <<>> /\ toClient' = Tail(q) /\ Head(q) = m /\ m \in Messages /\ q \in Seq(Messages)
        /\ m.type = "clear" => OnSharedObjectClear
        /\ m.type = "users" => OnGetCurrentUsers
        /\ m.type = "userJoin" => OnUserJoin
        /\ m.type = "userLeft" => OnUserLeft
        /\ m.type = "attribute" => OnAttribute
        /\ m.type = "roomMuted" => OnRoomMuted("roomMuted")
        /\ m.type = "muteStateCallback" => OnRoomMuted("muteStateCallback")
        /\ m.type # "users" => UNCHANGED received
    BY HandleFacts DEF Types, WireTypes
  <1>2. /\ LastSays(q, n, t, v) =>
              \/ LastSays(Tail(q), n - 1, t, v)
              \/ Silent(Tail(q), n - 1, t) /\ Decides(m, t) /\ Says(m, t) = v
        /\ Silent(q, n, t) => Silent(Tail(q), n - 1, t) /\ ~Decides(m, t)
    BY <1>1, ToldTail
  <1>3. m.type \in {"clear", "users", "roomMuted", "muteStateCallback", "userJoin", "userLeft", "attribute"}
    BY <1>1, MessageFields
  <1>4. ASSUME \/ Decides(m, t) /\ Says(m, t) = v
               \/ ~Decides(m, t) /\ KnownIn(u, v)
        PROVE  KnownIn(u, v)'
    <2>1. CASE m.type = "users"
      <3>1. Decides(m, t) /\ Says(m, t) = InOut(u, DOMAIN m.map)
        BY <2>1, TopicFacts
      <3>2. DOMAIN listeners' = DOMAIN m.map
        <4>1. \E order \in Seq(Voices) : ListRead(m.map, order)
          BY <2>1, <1>1, UsersFacts
        <4> QED
          BY <4>1 DEF ListRead
      <3> QED
        BY <3>1, <3>2, <1>4 DEF KnownIn, InOut
    <2>2. CASE m.type = "userJoin"
      <3>1. (Decides(m, t) <=> m.who = u) /\ Says(m, t) = "in"
        BY <2>2, TopicFacts
      <3>2. DOMAIN listeners' = DOMAIN listeners \cup {m.who} /\ received' = received
        BY <2>2, <1>1, JoinFacts
      <3> QED
        BY <3>1, <3>2, <1>4 DEF KnownIn
    <2>3. CASE m.type = "userLeft"
      <3>1. (Decides(m, t) <=> m.who = u) /\ Says(m, t) = "out"
        BY <2>3, TopicFacts
      <3>2. DOMAIN listeners' = DOMAIN listeners \ {m.who} /\ received' = received
        BY <2>3, <1>1, LeftFacts
      <3> QED
        BY <3>1, <3>2, <1>4 DEF KnownIn
    <2>4. CASE m.type \in {"clear", "roomMuted", "muteStateCallback", "attribute"}
      <3>1. ~Decides(m, t)
        BY <2>4, TopicFacts
      <3>2. UNCHANGED <<listeners, received>>
        BY <2>4, <1>1 DEF OnSharedObjectClear, OnRoomMuted, OnAttribute, KeptList
      <3> QED
        BY <3>1, <3>2, <1>4 DEF KnownIn
    <2> QED
      BY <1>3, <2>1, <2>2, <2>3, <2>4
  <1> HIDE DEF m
  <1>5. LastSays(Tail(q), n - 1, t, v) \/ (Silent(Tail(q), n - 1, t) /\ KnownIn(u, v)')
    BY <1>2, <1>4 DEF Present
  <1>6. toClient' = Tail(q)
    BY <1>1
  <1> QED
    BY <1>5, <1>6 DEF Present

LEMMA BringsPop ==
  ASSUME Types, HandleMessage, NEW n \in 1..Len(toClient), NEW u, NEW a \in Attributes, NEW v,
         Brings(n, u, a, v)
  PROVE  Brings(n - 1, u, a, v)'
  <1> DEFINE q == toClient
             m == q[1]
             t == State(u, a)
  <1>1. /\ q # <<>> /\ toClient' = Tail(q) /\ Head(q) = m /\ m \in Messages /\ q \in Seq(Messages)
        /\ m.type = "clear" => OnSharedObjectClear
        /\ m.type = "users" => OnGetCurrentUsers
        /\ m.type = "userJoin" => OnUserJoin
        /\ m.type = "userLeft" => OnUserLeft
        /\ m.type = "attribute" => OnAttribute
        /\ m.type = "roomMuted" => OnRoomMuted("roomMuted")
        /\ m.type = "muteStateCallback" => OnRoomMuted("muteStateCallback")
    BY HandleFacts DEF Types, WireTypes
  <1>2. /\ LastSays(q, n, t, v) =>
              \/ LastSays(Tail(q), n - 1, t, v)
              \/ Silent(Tail(q), n - 1, t) /\ Decides(m, t) /\ Says(m, t) = v
        /\ Silent(q, n, t) => Silent(Tail(q), n - 1, t) /\ ~Decides(m, t)
    BY <1>1, ToldTail
  <1>3. m.type \in {"clear", "users", "roomMuted", "muteStateCallback", "userJoin", "userLeft", "attribute"}
    BY <1>1, MessageFields
  <1>r. /\ \A w \in DOMAIN listeners : listeners[w] \in DOMAIN objects /\ objects[listeners[w]].who = w
        /\ Len(objects) \in Nat /\ DOMAIN objects = 1..Len(objects)
    BY LenProperties DEF Types, ModuleTypes
  <1>4. ASSUME \/ Decides(m, t) /\ Says(m, t) = v
               \/ ~Decides(m, t) /\ Shows(u, a, v),
               u \in DOMAIN listeners'
        PROVE  objects'[listeners'[u]].status[a] = v
    <2>1. CASE m.type = "users"
      <3>1. (Decides(m, t) <=> u \in DOMAIN m.map) /\ Says(m, t) = m.map[u][a]
        BY <2>1, TopicFacts
      <3> DEFINE map == m.map
      <3>2. PICK order \in Seq(Voices) : ListRead(map, order)
        BY <2>1, <1>1, UsersFacts
      <3> HIDE DEF map, m
      <3>3. u \in DOMAIN map
        BY <3>2, <1>4 DEF ListRead
      <3>4. PICK i \in DOMAIN order : order[i] = u /\ listeners'[u] = Len(objects) + i
        BY <3>2, <3>3 DEF ListRead
      <3>5. objects'[Len(objects) + i] = [who |-> order[i], status |-> map[order[i]]]
        BY <3>2 DEF ListRead
      <3>6. objects'[listeners'[u]].status = map[u]
        BY <3>4, <3>5
      <3> QED
        BY <3>1, <3>3, <3>6, <1>4 DEF map
    <2>2. CASE m.type = "userJoin"
      <3>1. (Decides(m, t) <=> m.who = u) /\ Says(m, t) = m.status[a]
        BY <2>2, TopicFacts
      <3> DEFINE e == [who |-> m.who, status |-> m.status]
      <3>2. /\ DOMAIN listeners' = DOMAIN listeners \cup {m.who}
            /\ listeners'[m.who] = Len(objects) + 1
            /\ \A w \in DOMAIN listeners \ {m.who} : listeners'[w] = listeners[w]
            /\ \A o \in DOMAIN objects : objects'[o] = objects[o]
            /\ objects'[Len(objects) + 1] = e
        BY <2>2, <1>1, JoinFacts
      <3>3. e.status = m.status
        OBVIOUS
      <3> HIDE DEF e, m
      <3>4. CASE m.who = u
        BY <3>1, <3>2, <3>3, <3>4, <1>4
      <3>5. CASE m.who # u
        <4>1. u \in DOMAIN listeners /\ listeners'[u] = listeners[u] /\ objects'[listeners[u]] = objects[listeners[u]]
          BY <3>2, <3>5, <1>4, <1>r
        <4> QED
          BY <4>1, <3>1, <3>5, <1>4 DEF Shows
      <3> QED
        BY <3>4, <3>5
    <2>3. CASE m.type = "userLeft"
      <3>1. ~Decides(m, t)
        BY <2>3, TopicFacts
      <3>2. /\ DOMAIN listeners' = DOMAIN listeners \ {m.who} /\ objects' = objects
            /\ \A w \in DOMAIN listeners \ {m.who} : listeners'[w] = listeners[w]
        BY <2>3, <1>1, LeftFacts
      <3> HIDE DEF m
      <3> QED
        BY <3>1, <3>2, <1>4 DEF Shows
    <2>4. CASE m.type = "attribute"
      <3>1. (Decides(m, t) <=> (m.who = u /\ m.attr = a)) /\ Says(m, t) = m.value
        BY <2>4, TopicFacts
      <3> DEFINE r == listeners[m.who]
      <3>2. /\ listeners' = listeners /\ m.attr \in Attributes
            /\ m.who \notin DOMAIN listeners => UNCHANGED objects
            /\ m.who \in DOMAIN listeners =>
                  /\ \A o \in DOMAIN objects \ {r} : objects'[o] = objects[o]
                  /\ \A b \in Attributes :
                       objects'[r].status[b] = IF b = m.attr THEN m.value ELSE objects[r].status[b]
        BY <2>4, <1>1, AttributeFacts
      <3>3. u \in DOMAIN listeners
        BY <3>2, <1>4
      <3> HIDE DEF m
      <3>4. CASE m.who \notin DOMAIN listeners
        BY <3>1, <3>2, <3>3, <3>4, <1>4 DEF Shows
      <3>5. CASE m.who \in DOMAIN listeners /\ m.who # u
        <4>1. listeners[u] # r /\ listeners[u] \in DOMAIN objects
          BY <3>3, <3>5, <1>r
        <4>2. objects'[listeners[u]] = objects[listeners[u]]
          BY <4>1, <3>2, <3>5
        <4> QED
          BY <4>2, <3>1, <3>2, <3>3, <3>5, <1>4 DEF Shows
      <3>6. CASE m.who = u
        <4>1. objects'[listeners[u]].status[a] = IF a = m.attr THEN m.value ELSE objects[listeners[u]].status[a]
          BY <3>2, <3>3, <3>6
        <4> QED
          BY <4>1, <3>1, <3>2, <3>3, <3>6, <1>4 DEF Shows
      <3> QED
        BY <3>4, <3>5, <3>6
    <2>5. CASE m.type \in {"clear", "roomMuted", "muteStateCallback"}
      <3>1. ~Decides(m, t)
        BY <2>5, TopicFacts
      <3>2. UNCHANGED <<listeners, objects>>
        BY <2>5, <1>1 DEF OnSharedObjectClear, OnRoomMuted
      <3> QED
        BY <3>1, <3>2, <1>4 DEF Shows
    <2> QED
      BY <1>3, <2>1, <2>2, <2>3, <2>4, <2>5
  <1> HIDE DEF m
  <1>5. ASSUME \/ Decides(m, t) /\ Says(m, t) = v
               \/ ~Decides(m, t) /\ Shows(u, a, v)
        PROVE  Shows(u, a, v)'
    BY <1>4, <1>5 DEF Shows
  <1>6. LastSays(Tail(q), n - 1, t, v) \/ (Silent(Tail(q), n - 1, t) /\ Shows(u, a, v)')
    BY <1>2, <1>5 DEF Brings
  <1>7. toClient' = Tail(q)
    BY <1>1
  <1> QED
    BY <1>6, <1>7 DEF Brings

LEMMA RoomPop ==
  ASSUME Types, HandleMessage, NEW v, RoomBrings(v)
  PROVE  RoomBrings(v)'
  <1> DEFINE q == toClient
             m == q[1]
             n == Len(q)
             t == Room
  <1>1. /\ q # <<>> /\ toClient' = Tail(q) /\ Head(q) = m /\ m \in Messages /\ q \in Seq(Messages)
        /\ Len(toClient') = n - 1 /\ n \in Nat /\ n >= 1
        /\ m.type = "clear" => OnSharedObjectClear
        /\ m.type = "users" => OnGetCurrentUsers
        /\ m.type = "userJoin" => OnUserJoin
        /\ m.type = "userLeft" => OnUserLeft
        /\ m.type = "attribute" => OnAttribute
        /\ m.type = "roomMuted" => OnRoomMuted("roomMuted")
        /\ m.type = "muteStateCallback" => OnRoomMuted("muteStateCallback")
    BY HandleFacts DEF Types, WireTypes
  <1>0. n \in 1..Len(q)
    BY <1>1
  <1>2. /\ LastSays(q, n, t, v) =>
              \/ LastSays(Tail(q), n - 1, t, v)
              \/ Silent(Tail(q), n - 1, t) /\ Decides(m, t) /\ Says(m, t) = v
        /\ Silent(q, n, t) => Silent(Tail(q), n - 1, t) /\ ~Decides(m, t)
    BY <1>0, <1>1, ToldTail
  <1>3. m.type \in {"clear", "users", "roomMuted", "muteStateCallback", "userJoin", "userLeft", "attribute"}
    BY <1>1, MessageFields
  <1>4. ASSUME \/ Decides(m, t) /\ Says(m, t) = v
               \/ ~Decides(m, t) /\ roomMuted = v
        PROVE  roomMuted' = v
    <2>1. CASE m.type \in {"roomMuted", "muteStateCallback"}
      <3>1. Decides(m, t) /\ Says(m, t) = m.value
        BY <2>1, TopicFacts
      <3>2. roomMuted' = m.value
        BY <2>1, <1>1 DEF OnRoomMuted
      <3> QED
        BY <3>1, <3>2, <1>4
    <2>2. CASE m.type \notin {"roomMuted", "muteStateCallback"}
      <3>1. ~Decides(m, t)
        BY <2>2, <1>3, TopicFacts
      <3>2. roomMuted' = roomMuted
        BY <2>2, <1>1, <1>3 DEF OnSharedObjectClear, OnGetCurrentUsers, OnUserJoin, OnUserLeft, OnAttribute
      <3> QED
        BY <3>1, <3>2, <1>4
    <2> QED
      BY <2>1, <2>2
  <1> HIDE DEF m
  <1>5. LastSays(Tail(q), n - 1, t, v) \/ (Silent(Tail(q), n - 1, t) /\ roomMuted' = v)
    BY <1>2, <1>4 DEF RoomBrings
  <1>6. toClient' = Tail(q) /\ Len(toClient') = n - 1
    BY <1>1
  <1> QED
    BY <1>5, <1>6 DEF RoomBrings

\* One message more, or none.
LEMMA ToldSame ==
  ASSUME UNCHANGED <<toClient, listeners, received, objects, roomMuted>>
  PROVE  /\ \A n, u, v : Present(n, u, v) => Present(n, u, v)'
         /\ \A n, u, a, v : Brings(n, u, a, v) => Brings(n, u, a, v)'
         /\ \A v : RoomBrings(v) => RoomBrings(v)'
  BY DEF Present, Brings, RoomBrings, KnownIn, Shows

LEMMA PresentAppend ==
  ASSUME Types, NEW m \in Messages, toClient' = Append(toClient, m), UNCHANGED module,
         NEW u, NEW v
  PROVE  /\ \A n \in 0..Len(toClient) : Present(n, u, v) => Present(n, u, v)'
         /\ Decides(m, Presence(u)) /\ Says(m, Presence(u)) = v => Present(Len(toClient), u, v)'
         /\ ~Decides(m, Presence(u)) /\ Present(Len(toClient), u, v) => Present(Len(toClient), u, v)'
  <1> DEFINE q == toClient
             r == Append(q, m)
             t == Presence(u)
  <1>1. /\ \A n \in 0..Len(q) : /\ LastSays(q, n, t, v) => LastSays(r, n, t, v)
                                /\ Silent(q, n, t) => Silent(r, n, t)
        /\ Decides(m, t) /\ Says(m, t) = v => LastSays(r, Len(q) + 1, t, v)
        /\ ~Decides(m, t) =>
             /\ LastSays(q, Len(q), t, v) => LastSays(r, Len(q) + 1, t, v)
             /\ Silent(q, Len(q), t) => Silent(r, Len(q) + 1, t)
    BY ToldAppend DEF Types, WireTypes
  <1>2. toClient' = r /\ KnownIn(u, v)' = KnownIn(u, v)
    BY DEF module, KnownIn
  <1> HIDE DEF q, r, t
  <1>3. \A n : Present(n, u, v)' <=> (LastSays(r, n, t, v) \/ (Silent(r, n, t) /\ KnownIn(u, v)))
    BY <1>2 DEF Present, t
  <1>4. \A n : Present(n, u, v) <=> (LastSays(q, n, t, v) \/ (Silent(q, n, t) /\ KnownIn(u, v)))
    BY DEF Present, t, q
  <1>5. \A n \in 0..Len(q) : Present(n, u, v) => Present(n, u, v)'
    BY <1>1, <1>3, <1>4
  <1>8. \A n : n = Len(q) + 1 /\ Decides(m, t) /\ Says(m, t) = v => Present(n, u, v)'
    BY <1>1, <1>3
  <1>9. \A n : n = Len(q) + 1 /\ ~Decides(m, t) /\ Present(Len(q), u, v) => Present(n, u, v)'
    <2> SUFFICES ASSUME NEW n, n = Len(q) + 1, ~Decides(m, t), Present(Len(q), u, v)
                 PROVE  Present(n, u, v)'
      OBVIOUS
    <2>1. LastSays(r, n, t, v) \/ (Silent(r, n, t) /\ KnownIn(u, v))
      BY <1>1, <1>4
    <2> QED
      BY <2>1, <1>3
  <1>10. Len(toClient') = Len(q) + 1
    BY <1>2, AppendFacts DEF Types, WireTypes, q, r
  <1>6. Decides(m, t) /\ Says(m, t) = v => Present(Len(toClient), u, v)'
    BY <1>8, <1>10
  <1>7. ~Decides(m, t) /\ Present(Len(q), u, v) => Present(Len(toClient), u, v)'
    BY <1>9, <1>10
  <1> QED
    BY <1>5, <1>6, <1>7 DEF q, t

LEMMA BringsAppend ==
  ASSUME Types, NEW m \in Messages, toClient' = Append(toClient, m), UNCHANGED module,
         NEW u, NEW a, NEW v
  PROVE  /\ \A n \in 0..Len(toClient) : Brings(n, u, a, v) => Brings(n, u, a, v)'
         /\ Decides(m, State(u, a)) /\ Says(m, State(u, a)) = v => Brings(Len(toClient), u, a, v)'
         /\ ~Decides(m, State(u, a)) /\ Brings(Len(toClient), u, a, v) => Brings(Len(toClient), u, a, v)'
  <1> DEFINE q == toClient
             r == Append(q, m)
             t == State(u, a)
  <1>1. /\ \A n \in 0..Len(q) : /\ LastSays(q, n, t, v) => LastSays(r, n, t, v)
                                /\ Silent(q, n, t) => Silent(r, n, t)
        /\ Decides(m, t) /\ Says(m, t) = v => LastSays(r, Len(q) + 1, t, v)
        /\ ~Decides(m, t) =>
             /\ LastSays(q, Len(q), t, v) => LastSays(r, Len(q) + 1, t, v)
             /\ Silent(q, Len(q), t) => Silent(r, Len(q) + 1, t)
    BY ToldAppend DEF Types, WireTypes
  <1>2. toClient' = r /\ Shows(u, a, v)' = Shows(u, a, v)
    BY DEF module, Shows
  <1> HIDE DEF q, r, t
  <1>3. \A n : Brings(n, u, a, v)' <=> (LastSays(r, n, t, v) \/ (Silent(r, n, t) /\ Shows(u, a, v)))
    BY <1>2 DEF Brings, t
  <1>4. \A n : Brings(n, u, a, v) <=> (LastSays(q, n, t, v) \/ (Silent(q, n, t) /\ Shows(u, a, v)))
    BY DEF Brings, t, q
  <1>5. \A n \in 0..Len(q) : Brings(n, u, a, v) => Brings(n, u, a, v)'
    BY <1>1, <1>3, <1>4
  <1>8. \A n : n = Len(q) + 1 /\ Decides(m, t) /\ Says(m, t) = v => Brings(n, u, a, v)'
    BY <1>1, <1>3
  <1>9. \A n : n = Len(q) + 1 /\ ~Decides(m, t) /\ Brings(Len(q), u, a, v) => Brings(n, u, a, v)'
    <2> SUFFICES ASSUME NEW n, n = Len(q) + 1, ~Decides(m, t), Brings(Len(q), u, a, v)
                 PROVE  Brings(n, u, a, v)'
      OBVIOUS
    <2>1. LastSays(r, n, t, v) \/ (Silent(r, n, t) /\ Shows(u, a, v))
      BY <1>1, <1>4
    <2> QED
      BY <2>1, <1>3
  <1>10. Len(toClient') = Len(q) + 1
    BY <1>2, AppendFacts DEF Types, WireTypes, q, r
  <1>6. Decides(m, t) /\ Says(m, t) = v => Brings(Len(toClient), u, a, v)'
    BY <1>8, <1>10
  <1>7. ~Decides(m, t) /\ Brings(Len(q), u, a, v) => Brings(Len(toClient), u, a, v)'
    BY <1>9, <1>10
  <1> QED
    BY <1>5, <1>6, <1>7 DEF q, t

LEMMA RoomAppend ==
  ASSUME Types, NEW m \in Messages, toClient' = Append(toClient, m), UNCHANGED module, NEW v
  PROVE  /\ Decides(m, Room) /\ Says(m, Room) = v => RoomBrings(v)'
         /\ ~Decides(m, Room) /\ RoomBrings(v) => RoomBrings(v)'
  <1> DEFINE q == toClient
             r == Append(q, m)
             t == Room
  <1>0. q \in Seq(Messages) /\ Len(r) = Len(q) + 1
    BY AppendFacts DEF Types, WireTypes
  <1>1. /\ Decides(m, t) /\ Says(m, t) = v => LastSays(r, Len(q) + 1, t, v)
        /\ ~Decides(m, t) =>
             /\ LastSays(q, Len(q), t, v) => LastSays(r, Len(q) + 1, t, v)
             /\ Silent(q, Len(q), t) => Silent(r, Len(q) + 1, t)
    BY <1>0, ToldAppend
  <1>2. toClient' = r /\ roomMuted' = roomMuted
    BY DEF module
  <1> HIDE DEF q, r, t
  <1>3. RoomBrings(v)' <=> (LastSays(r, Len(q) + 1, t, v) \/ (Silent(r, Len(q) + 1, t) /\ roomMuted = v))
    BY <1>0, <1>2 DEF RoomBrings, t
  <1>4. RoomBrings(v) <=> (LastSays(q, Len(q), t, v) \/ (Silent(q, Len(q), t) /\ roomMuted = v))
    BY DEF RoomBrings, t, q
  <1>5. ASSUME Decides(m, t), Says(m, t) = v PROVE RoomBrings(v)'
    <2>1. LastSays(r, Len(q) + 1, t, v)
      BY <1>1, <1>5
    <2> QED
      BY <2>1, <1>3
  <1>6. ASSUME ~Decides(m, t), RoomBrings(v) PROVE RoomBrings(v)'
    <2>1. LastSays(r, Len(q) + 1, t, v) \/ (Silent(r, Len(q) + 1, t) /\ roomMuted = v)
      BY <1>1, <1>6, <1>4
    <2> QED
      BY <2>1, <1>3
  <1> QED
    BY <1>5, <1>6 DEF t

\* The invariant of the channels.  What was sent is the state of the conference;
\* and when a list or a departure was sent, the messages before it led there.
RoomDue ==
  /\ subscribed = TRUE
  /\ \A k \in DOMAIN toClient : toClient[k].type # "clear"
  /\ \A i \in DOMAIN toServer : ~Asks(toServer[i], "isRoomMuted")

Current ==
  /\ \A u \in Voices : Present(Len(toClient), u, InOut(u, voices))
  /\ \A u \in Voices, a \in Attributes : Brings(Len(toClient), u, a, status[u][a])

Snapshot(k) ==
  /\ toClient[k].type = "users" =>
       /\ \A u \in Voices : Present(k - 1, u, InOut(u, DOMAIN toClient[k].map))
       /\ \A u \in DOMAIN toClient[k].map, a \in Attributes :
            Brings(k - 1, u, a, toClient[k].map[u][a])
  /\ toClient[k].type = "userLeft" => Present(k - 1, toClient[k].who, "in")

Channel ==
  conn = "listening" =>
    /\ Current
    /\ \A k \in DOMAIN toClient : Snapshot(k)
    /\ RoomDue => RoomBrings(allMuted)

\* A message is written: the lists and departures before it are as they were.
LEMMA SnapshotAppend ==
  ASSUME Types, NEW m \in Messages, toClient' = Append(toClient, m), UNCHANGED module,
         \A k \in DOMAIN toClient : Snapshot(k),
         m.type = "users" =>
           /\ \A u \in Voices : Present(Len(toClient), u, InOut(u, DOMAIN m.map))
           /\ \A u \in DOMAIN m.map, a \in Attributes : Brings(Len(toClient), u, a, m.map[u][a]),
         m.type = "userLeft" => Present(Len(toClient), m.who, "in")
  PROVE  \A k \in DOMAIN toClient' : Snapshot(k)'
  <1>1. /\ DOMAIN toClient' = 1..(Len(toClient) + 1) /\ DOMAIN toClient = 1..Len(toClient)
        /\ Len(toClient) \in Nat
        /\ \A i \in 1..Len(toClient) : toClient'[i] = toClient[i]
        /\ toClient'[Len(toClient) + 1] = m
    BY AppendFacts DEF Types, WireTypes
  <1>2. /\ \A u, v : \A n \in 0..Len(toClient) : Present(n, u, v) => Present(n, u, v)'
        /\ \A u, a, v : \A n \in 0..Len(toClient) : Brings(n, u, a, v) => Brings(n, u, a, v)'
    BY PresentAppend, BringsAppend
  <1> SUFFICES ASSUME NEW k \in DOMAIN toClient' PROVE Snapshot(k)'
    OBVIOUS
  <1>3. CASE k \in DOMAIN toClient
    <2>1. toClient'[k] = toClient[k] /\ k - 1 \in 0..Len(toClient) /\ Snapshot(k)
      BY <1>1, <1>3
    <2> QED
      BY <2>1, <1>2 DEF Snapshot
  <1>4. CASE k \notin DOMAIN toClient
    <2>1. toClient'[k] = m /\ k - 1 = Len(toClient) /\ Len(toClient) \in 0..Len(toClient)
      BY <1>1, <1>4
    <2> QED
      BY <2>1, <1>2 DEF Snapshot
  <1> QED
    BY <1>3, <1>4

\* A change of the conference, told to this connection.
LEMMA ConferenceChannel ==
  ASSUME Types, Channel, conn = "listening", conn' = conn, UNCHANGED module,
         subscribed = TRUE, subscribed' = subscribed, ConferenceChanges,
         \A i \in DOMAIN toServer : Asks(toServer[i], "isRoomMuted") =>
            \E j \in DOMAIN toServer' : Asks(toServer'[j], "isRoomMuted")
  PROVE  Channel'
  <1>a. /\ Current /\ (\A k \in DOMAIN toClient : Snapshot(k))
        /\ RoomDue => RoomBrings(allMuted)
    BY DEF Channel
  <1>b. /\ toClient \in Seq(Messages) /\ status \in [Voices -> Statuses]
        /\ voices \subseteq called /\ called \subseteq Voices
    BY DEF Types, WireTypes, ServerTypes
  <1>c. SUFFICES Current' /\ (\A k \in DOMAIN toClient' : Snapshot(k)') /\ (RoomDue' => RoomBrings(allMuted)')
    BY DEF Channel
  <1>d. ASSUME NEW m \in Messages, toClient' = Append(toClient, m) PROVE RoomDue' => RoomDue
    <2>1. \A k \in DOMAIN toClient : k \in DOMAIN toClient' /\ toClient'[k] = toClient[k]
      BY <1>b, <1>d, AppendFacts
    <2>2. ASSUME RoomDue', NEW i \in DOMAIN toServer PROVE ~Asks(toServer[i], "isRoomMuted")
      BY <2>2 DEF RoomDue
    <2> QED
      BY <2>1, <2>2 DEF RoomDue
  <1>1. ASSUME NEW u \in Voices \ called, Joins(u)
        PROVE  Current' /\ (\A k \in DOMAIN toClient' : Snapshot(k)') /\ (RoomDue' => RoomBrings(allMuted)')
    <2> DEFINE m == [type |-> "userJoin", who |-> u, status |-> status[u]]
    <2>1. /\ m \in Messages /\ m.type = "userJoin" /\ m.who = u /\ m.status = status[u]
      BY <1>b, MessageForms
    <2>2. /\ toClient' = Append(toClient, m) /\ voices' = voices \cup {u}
          /\ status' = status /\ allMuted' = allMuted
      BY <1>1 DEF Joins, Broadcast
    <2> HIDE DEF m
    <2>3. ASSUME NEW w \in Voices PROVE Present(Len(toClient), w, InOut(w, voices))'
      <3>1. InOut(w, voices)' = IF w = u THEN "in" ELSE InOut(w, voices)
        BY <2>2 DEF InOut
      <3>2. (Decides(m, Presence(w)) <=> u = w) /\ Says(m, Presence(w)) = "in"
        BY <2>1, TopicFacts
      <3>3. ASSUME NEW v, v = InOut(w, voices') PROVE Present(Len(toClient), w, v)'
        <4>1. CASE w = u
          BY <4>1, <3>1, <3>2, <3>3, <2>1, <2>2, PresentAppend
        <4>2. CASE w # u
          <5>1. v = InOut(w, voices) /\ ~Decides(m, Presence(w))
            BY <4>2, <3>1, <3>2, <3>3
          <5>2. Present(Len(toClient), w, v)
            BY <5>1, <1>a DEF Current
          <5> QED
            BY <5>1, <5>2, <2>1, <2>2, PresentAppend
        <4> QED
          BY <4>1, <4>2
      <3> QED
        BY <3>3
    <2>4. ASSUME NEW w \in Voices, NEW a \in Attributes PROVE Brings(Len(toClient), w, a, status[w][a])'
      <3>1. (Decides(m, State(w, a)) <=> u = w) /\ Says(m, State(w, a)) = status[u][a]
        BY <2>1, TopicFacts
      <3>2. ASSUME NEW v, v = status[w][a] PROVE Brings(Len(toClient), w, a, v)'
        <4>1. CASE w = u
          BY <4>1, <3>1, <3>2, <2>1, <2>2, BringsAppend
        <4>2. CASE w # u
          <5>1. Brings(Len(toClient), w, a, v) /\ ~Decides(m, State(w, a))
            BY <3>1, <3>2, <4>2, <1>a DEF Current
          <5> QED
            BY <5>1, <2>1, <2>2, BringsAppend
        <4> QED
          BY <4>1, <4>2
      <3> QED
        BY <3>2, <2>2
    <2>5. \A k \in DOMAIN toClient' : Snapshot(k)'
      BY <2>1, <2>2, <1>a, SnapshotAppend
    <2>6. ~Decides(m, Room)
      BY <2>1, TopicFacts
    <2>7. RoomDue' => RoomBrings(allMuted)'
      <3> SUFFICES ASSUME RoomDue' PROVE RoomBrings(allMuted)'
        OBVIOUS
      <3>1. ASSUME NEW v, v = allMuted PROVE RoomBrings(v)'
        BY <2>1, <2>2, <2>6, <1>a, <1>d, <3>1, RoomAppend
      <3> QED
        BY <3>1, <2>2
    <2> QED
      BY <2>3, <2>4, <2>5, <2>7 DEF Current
  <1>2. ASSUME NEW u \in voices, Leave(u)
        PROVE  Current' /\ (\A k \in DOMAIN toClient' : Snapshot(k)') /\ (RoomDue' => RoomBrings(allMuted)')
    <2> DEFINE m == [type |-> "userLeft", who |-> u]
    <2>1. /\ m \in Messages /\ m.type = "userLeft" /\ m.who = u /\ u \in Voices
      BY <1>b, MessageForms
    <2>2. /\ toClient' = Append(toClient, m) /\ voices' = voices \ {u}
          /\ status' = status /\ allMuted' = allMuted
      BY <1>2 DEF Leave, Broadcast
    <2> HIDE DEF m
    <2>3. ASSUME NEW w \in Voices PROVE Present(Len(toClient), w, InOut(w, voices))'
      <3>1. InOut(w, voices)' = IF w = u THEN "out" ELSE InOut(w, voices)
        BY <2>2 DEF InOut
      <3>2. (Decides(m, Presence(w)) <=> u = w) /\ Says(m, Presence(w)) = "out"
        BY <2>1, TopicFacts
      <3>3. ASSUME NEW v, v = InOut(w, voices') PROVE Present(Len(toClient), w, v)'
        <4>1. CASE w = u
          BY <4>1, <3>1, <3>2, <3>3, <2>1, <2>2, PresentAppend
        <4>2. CASE w # u
          <5>1. v = InOut(w, voices) /\ ~Decides(m, Presence(w))
            BY <4>2, <3>1, <3>2, <3>3
          <5>2. Present(Len(toClient), w, v)
            BY <5>1, <1>a DEF Current
          <5> QED
            BY <5>1, <5>2, <2>1, <2>2, PresentAppend
        <4> QED
          BY <4>1, <4>2
      <3> QED
        BY <3>3
    <2>4. ASSUME NEW w \in Voices, NEW a \in Attributes PROVE Brings(Len(toClient), w, a, status[w][a])'
      <3>1. ~Decides(m, State(w, a))
        BY <2>1, TopicFacts
      <3>2. ASSUME NEW v, v = status[w][a] PROVE Brings(Len(toClient), w, a, v)'
        <4>1. Brings(Len(toClient), w, a, v)
          BY <3>2, <1>a DEF Current
        <4> QED
          BY <4>1, <3>1, <2>1, <2>2, BringsAppend
      <3> QED
        BY <3>2, <2>2
    <2>5. \A k \in DOMAIN toClient' : Snapshot(k)'
      <3>1. Present(Len(toClient), u, "in")
        BY <2>1, <1>a DEF Current, InOut
      <3> QED
        BY <3>1, <2>1, <2>2, <1>a, SnapshotAppend
    <2>6. ~Decides(m, Room)
      BY <2>1, TopicFacts
    <2>7. RoomDue' => RoomBrings(allMuted)'
      <3> SUFFICES ASSUME RoomDue' PROVE RoomBrings(allMuted)'
        OBVIOUS
      <3>1. ASSUME NEW v, v = allMuted PROVE RoomBrings(v)'
        BY <2>1, <2>2, <2>6, <1>a, <1>d, <3>1, RoomAppend
      <3> QED
        BY <3>1, <2>2
    <2> QED
      BY <2>3, <2>4, <2>5, <2>7 DEF Current
  <1>3. ASSUME NEW u \in voices, NEW b \in Attributes, NEW x \in BOOLEAN, SetAttribute(u, b, x)
        PROVE  Current' /\ (\A k \in DOMAIN toClient' : Snapshot(k)') /\ (RoomDue' => RoomBrings(allMuted)')
    <2> DEFINE m == [type |-> "attribute", who |-> u, attr |-> b, value |-> x]
    <2>1. /\ m \in Messages /\ m.type = "attribute" /\ m.who = u /\ m.attr = b /\ m.value = x /\ u \in Voices
      BY <1>b, MessageForms
    <2>2. /\ toClient' = Append(toClient, m) /\ voices' = voices /\ allMuted' = allMuted
          /\ status' = [status EXCEPT ![u][b] = x]
      BY <1>3 DEF SetAttribute, Broadcast
    <2> HIDE DEF m
    <2>3. ASSUME NEW w \in Voices PROVE Present(Len(toClient), w, InOut(w, voices))'
      <3>1. ~Decides(m, Presence(w))
        BY <2>1, TopicFacts
      <3>2. ASSUME NEW v, v = InOut(w, voices) PROVE Present(Len(toClient), w, v)'
        <4>1. Present(Len(toClient), w, v)
          BY <3>2, <1>a DEF Current
        <4> QED
          BY <4>1, <3>1, <2>1, <2>2, PresentAppend
      <3> QED
        BY <3>2, <2>2
    <2>4. ASSUME NEW w \in Voices, NEW a \in Attributes PROVE Brings(Len(toClient), w, a, status[w][a])'
      <3>1. (Decides(m, State(w, a)) <=> (u = w /\ b = a)) /\ Says(m, State(w, a)) = x
        BY <2>1, TopicFacts
      <3>0. status'[w][a] = IF w = u /\ a = b THEN x ELSE status[w][a]
        BY <2>1, <2>2, <1>b DEF Statuses
      <3>2. ASSUME NEW v, v = status'[w][a] PROVE Brings(Len(toClient), w, a, v)'
        <4>1. CASE w = u /\ a = b
          BY <4>1, <3>0, <3>1, <3>2, <2>1, <2>2, BringsAppend
        <4>2. CASE ~(w = u /\ a = b)
          <5>1. Brings(Len(toClient), w, a, v) /\ ~Decides(m, State(w, a))
            BY <3>0, <3>1, <3>2, <4>2, <1>a DEF Current
          <5> QED
            BY <5>1, <2>1, <2>2, BringsAppend
        <4> QED
          BY <4>1, <4>2
      <3> QED
        BY <3>2
    <2>5. \A k \in DOMAIN toClient' : Snapshot(k)'
      BY <2>1, <2>2, <1>a, SnapshotAppend
    <2>6. ~Decides(m, Room)
      BY <2>1, TopicFacts
    <2>7. RoomDue' => RoomBrings(allMuted)'
      <3> SUFFICES ASSUME RoomDue' PROVE RoomBrings(allMuted)'
        OBVIOUS
      <3>1. ASSUME NEW v, v = allMuted PROVE RoomBrings(v)'
        BY <2>1, <2>2, <2>6, <1>a, <1>d, <3>1, RoomAppend
      <3> QED
        BY <3>1, <2>2
    <2> QED
      BY <2>3, <2>4, <2>5, <2>7 DEF Current
  <1>4. ASSUME NEW x \in BOOLEAN, SetRoomMuted(x)
        PROVE  Current' /\ (\A k \in DOMAIN toClient' : Snapshot(k)') /\ (RoomDue' => RoomBrings(allMuted)')
    <2> DEFINE m == [type |-> "muteStateCallback", value |-> x]
    <2>1. m \in Messages /\ m.type = "muteStateCallback" /\ m.value = x
      BY MessageForms
    <2>2. toClient' = Append(toClient, m) /\ voices' = voices /\ allMuted' = x /\ status' = status
      BY <1>4 DEF SetRoomMuted, Broadcast
    <2> HIDE DEF m
    <2>3. ASSUME NEW w \in Voices PROVE Present(Len(toClient), w, InOut(w, voices))'
      <3>1. ~Decides(m, Presence(w))
        BY <2>1, TopicFacts
      <3>2. ASSUME NEW v, v = InOut(w, voices) PROVE Present(Len(toClient), w, v)'
        <4>1. Present(Len(toClient), w, v)
          BY <3>2, <1>a DEF Current
        <4> QED
          BY <4>1, <3>1, <2>1, <2>2, PresentAppend
      <3> QED
        BY <3>2, <2>2
    <2>4. ASSUME NEW w \in Voices, NEW a \in Attributes PROVE Brings(Len(toClient), w, a, status[w][a])'
      <3>1. ~Decides(m, State(w, a))
        BY <2>1, TopicFacts
      <3>2. ASSUME NEW v, v = status[w][a] PROVE Brings(Len(toClient), w, a, v)'
        <4>1. Brings(Len(toClient), w, a, v)
          BY <3>2, <1>a DEF Current
        <4> QED
          BY <4>1, <3>1, <2>1, <2>2, BringsAppend
      <3> QED
        BY <3>2, <2>2
    <2>5. \A k \in DOMAIN toClient' : Snapshot(k)'
      BY <2>1, <2>2, <1>a, SnapshotAppend
    <2>6. Decides(m, Room) /\ Says(m, Room) = x
      BY <2>1, TopicFacts
    <2>7. RoomBrings(allMuted)'
      <3>1. RoomBrings(x)'
        BY <2>1, <2>2, <2>6, RoomAppend
      <3> QED
        BY <3>1, <2>2
    <2> QED
      BY <2>3, <2>4, <2>5, <2>7 DEF Current
  <1>5. ASSUME UNCHANGED <<server, toClient>>
        PROVE  Current' /\ (\A k \in DOMAIN toClient' : Snapshot(k)') /\ (RoomDue' => RoomBrings(allMuted)')
    <2>1. UNCHANGED <<toClient, voices, status, allMuted, listeners, received, objects, roomMuted>>
      BY <1>5 DEF server, module
    <2>2. RoomDue' => RoomDue
      BY <2>1 DEF RoomDue
    <2> QED
      BY <2>1, <2>2, <1>a DEF Current, Snapshot, Present, Brings, RoomBrings, KnownIn, Shows
  <1> QED
    BY <1>1, <1>2, <1>3, <1>4, <1>5 DEF ConferenceChanges

\* The list that answers getMeetMeUsers, written when it is asked for.
LEMMA ListChannel ==
  ASSUME Types, Channel, conn = "listening", conn' = conn, UNCHANGED module,
         NEW m \in Messages, toClient' = Append(toClient, m),
         UNCHANGED <<voices, status, allMuted>>,
         \/ m.type = "users" /\ m.map = [u \in voices |-> status[u]]
         \/ m.type = "roomMuted" /\ m.value = allMuted
         \/ m.type = "clear",
         RoomDue' => RoomDue \/ m.type = "roomMuted"
  PROVE  Channel'
  <1>a. /\ Current /\ (\A k \in DOMAIN toClient : Snapshot(k))
        /\ RoomDue => RoomBrings(allMuted)
    BY DEF Channel
  <1>b. /\ toClient \in Seq(Messages) /\ status \in [Voices -> Statuses]
        /\ voices \subseteq Voices
    BY DEF Types, WireTypes, ServerTypes
  <1>c. SUFFICES Current' /\ (\A k \in DOMAIN toClient' : Snapshot(k)') /\ (RoomDue' => RoomBrings(allMuted)')
    BY DEF Channel
  <1>d. m.type = "users" => DOMAIN m.map = voices /\ \A u \in voices : m.map[u] = status[u]
    OBVIOUS
  <1>1. ASSUME NEW w \in Voices PROVE Present(Len(toClient), w, InOut(w, voices))'
    <2>1. ASSUME NEW v, v = InOut(w, voices) PROVE Present(Len(toClient), w, v)'
      <3>1. Present(Len(toClient), w, v)
        BY <2>1, <1>a DEF Current
      <3>2. CASE m.type = "users"
        <4>1. Decides(m, Presence(w)) /\ Says(m, Presence(w)) = v
          BY <3>2, <2>1, <1>d, TopicFacts
        <4> QED
          BY <4>1, PresentAppend
      <3>3. CASE m.type # "users"
        <4>1. ~Decides(m, Presence(w))
          BY <3>3, TopicFacts
        <4> QED
          BY <4>1, <3>1, PresentAppend
      <3> QED
        BY <3>2, <3>3
    <2> QED
      BY <2>1
  <1>2. ASSUME NEW w \in Voices, NEW a \in Attributes PROVE Brings(Len(toClient), w, a, status[w][a])'
    <2>1. ASSUME NEW v, v = status[w][a] PROVE Brings(Len(toClient), w, a, v)'
      <3>1. Brings(Len(toClient), w, a, v)
        BY <2>1, <1>a DEF Current
      <3>2. CASE Decides(m, State(w, a))
        <4>1. m.type = "users" /\ w \in voices
          BY <3>2, <1>d, TopicFacts
        <4>2. Says(m, State(w, a)) = v
          BY <4>1, <2>1, <1>d, TopicFacts
        <4> QED
          BY <4>2, <3>2, BringsAppend
      <3>3. CASE ~Decides(m, State(w, a))
        BY <3>3, <3>1, BringsAppend
      <3> QED
        BY <3>2, <3>3
    <2> QED
      BY <2>1
  <1>3. \A k \in DOMAIN toClient' : Snapshot(k)'
    <2>1. ASSUME m.type = "users"
          PROVE  /\ \A u \in Voices : Present(Len(toClient), u, InOut(u, DOMAIN m.map))
                 /\ \A u \in DOMAIN m.map, a \in Attributes : Brings(Len(toClient), u, a, m.map[u][a])
      BY <2>1, <1>a, <1>b, <1>d DEF Current
    <2>2. m.type # "userLeft"
      OBVIOUS
    <2> QED
      BY <2>1, <2>2, <1>a, SnapshotAppend
  <1>4. ASSUME RoomDue' PROVE RoomBrings(allMuted)'
    <2>1. ASSUME NEW v, v = allMuted PROVE RoomBrings(v)'
      <3>1. CASE m.type = "roomMuted"
        <4>1. Decides(m, Room) /\ Says(m, Room) = v
          BY <3>1, <2>1, TopicFacts
        <4> QED
          BY <4>1, RoomAppend
      <3>2. CASE m.type # "roomMuted"
        <4>1. ~Decides(m, Room) /\ RoomBrings(v)
          BY <3>2, <2>1, <1>4, <1>a, TopicFacts
        <4> QED
          BY <4>1, RoomAppend
      <3> QED
        BY <3>1, <3>2
    <2> QED
      BY <2>1
  <1> QED
    BY <1>1, <1>2, <1>3, <1>4 DEF Current

LEMMA EmptyChannel ==
  ASSUME toClient' = <<>>, DOMAIN listeners' = {}, received' = FALSE, subscribed' = FALSE
  PROVE  Channel'
  <1>1. Len(toClient') = 0 /\ DOMAIN toClient' = {}
    OBVIOUS
  <1>2. \A u, v : Present(Len(toClient), u, v)'
    BY <1>1 DEF Present, Silent, KnownIn
  <1>3. \A u, a, v : Brings(Len(toClient), u, a, v)'
    BY <1>1 DEF Brings, Silent, Shows
  <1> QED
    BY <1>1, <1>2, <1>3 DEF Channel, Current, RoomDue

\* The first message is handled.
LEMMA HandleChannel ==
  ASSUME Types, Wire, Channel, HandleMessage
  PROVE  Channel'
  <1>1. /\ toClient # <<>> /\ Len(toClient) \in Nat /\ Len(toClient) >= 1
        /\ DOMAIN toClient = 1..Len(toClient) /\ DOMAIN toClient' = 1..(Len(toClient) - 1)
        /\ Len(toClient') = Len(toClient) - 1
        /\ \A k \in DOMAIN toClient' : k + 1 \in DOMAIN toClient /\ toClient'[k] = toClient[k + 1]
        /\ UNCHANGED <<voices, called, status, allMuted, subscribed, conn>>
        /\ toClient[1].type = "clear" => OnSharedObjectClear
        /\ toClient[1].type # "clear" => toServer' = toServer
    BY HandleFacts
  <1>a. /\ Current /\ (\A k \in DOMAIN toClient : Snapshot(k))
        /\ RoomDue => RoomBrings(allMuted)
    BY <1>1 DEF Channel, Wire
  <1>b. toServer \in Seq(Requests) /\ Len(toServer) \in Nat
    BY LenProperties DEF Types, WireTypes
  <1>2. ASSUME NEW u \in Voices PROVE Present(Len(toClient), u, InOut(u, voices))'
    <2>1. ASSUME NEW v, v = InOut(u, voices), NEW n, n = Len(toClient), NEW k, k = n - 1
          PROVE  Present(k, u, v)'
      <3>1. Present(n, u, v) /\ n \in 1..Len(toClient)
        BY <2>1, <1>1, <1>a DEF Current
      <3>2. Present(n - 1, u, v)'
        BY <3>1, PresentPop
      <3> QED
        BY <3>2, <2>1
    <2> QED
      BY <2>1, <1>1
  <1>3. ASSUME NEW u \in Voices, NEW a \in Attributes PROVE Brings(Len(toClient), u, a, status[u][a])'
    <2>1. ASSUME NEW v, v = status[u][a], NEW n, n = Len(toClient), NEW k, k = n - 1
          PROVE  Brings(k, u, a, v)'
      <3>1. Brings(n, u, a, v) /\ n \in 1..Len(toClient)
        BY <2>1, <1>1, <1>a DEF Current
      <3>2. Brings(n - 1, u, a, v)'
        BY <3>1, BringsPop
      <3> QED
        BY <3>2, <2>1
    <2> QED
      BY <2>1, <1>1
  <1>4. ASSUME NEW k \in DOMAIN toClient' PROVE Snapshot(k)'
    <2>1. /\ k + 1 \in DOMAIN toClient /\ toClient'[k] = toClient[k + 1] /\ k \in 1..Len(toClient)
          /\ (k + 1) - 1 = k /\ Snapshot(k + 1)
      BY <1>1, <1>a
    <2>2. ASSUME NEW u, NEW v, Present(k, u, v) PROVE Present(k - 1, u, v)'
      BY <2>1, <2>2, PresentPop
    <2>3. ASSUME NEW u, NEW a \in Attributes, NEW v, Brings(k, u, a, v) PROVE Brings(k - 1, u, a, v)'
      BY <2>1, <2>3, BringsPop
    <2> QED
      BY <2>1, <2>2, <2>3 DEF Snapshot
  <1>5. ASSUME RoomDue' PROVE RoomBrings(allMuted)'
    <2>1. CASE toClient[1].type = "clear"
      <3> DEFINE q == Queries(ClearRequests)
      <3>1. toServer' = toServer \o q
        BY <1>1, <2>1 DEF OnSharedObjectClear, Write
      <3>2. q \in Seq(Requests) /\ Len(q) = 2 /\ q[2] = [type |-> "query", name |-> "isRoomMuted"]
        BY QueriesFacts
      <3> HIDE DEF q
      <3>0. toServer \in Seq(Requests) /\ q \in Seq(Requests)
        BY <1>b, <3>2
      <3>3. \A i \in 1..Len(q) : (toServer \o q)[Len(toServer) + i] = q[i]
        BY <3>0, ConcatFacts
      <3>4. DOMAIN (toServer \o q) = 1..(Len(toServer) + Len(q))
        BY <3>0, ConcatFacts
      <3>5. Len(toServer) + 2 \in DOMAIN toServer' /\ toServer'[Len(toServer) + 2] = q[2]
        BY <1>b, <3>1, <3>2, <3>3, <3>4
      <3>6. Asks(q[2], "isRoomMuted")
        BY <3>2 DEF Asks
      <3> QED
        BY <3>5, <3>6, <1>5 DEF RoomDue
    <2>2. CASE toClient[1].type # "clear"
      <3>1. ASSUME NEW k \in DOMAIN toClient PROVE toClient[k].type # "clear"
        <4>1. CASE k = 1
          BY <4>1, <2>2
        <4>2. CASE k # 1
          <5>1. k - 1 \in DOMAIN toClient' /\ toClient'[k - 1] = toClient[(k - 1) + 1] /\ (k - 1) + 1 = k
            BY <4>2, <1>1
          <5> QED
            BY <5>1, <1>5 DEF RoomDue
        <4> QED
          BY <4>1, <4>2
      <3>2. RoomDue
        BY <3>1, <1>1, <1>5, <2>2 DEF RoomDue
      <3>3. ASSUME NEW v, v = allMuted PROVE RoomBrings(v)'
        BY <3>2, <3>3, <1>a, RoomPop
      <3> QED
        BY <3>3, <1>1
    <2> QED
      BY <2>1, <2>2
  <1> QED
    BY <1>2, <1>3, <1>4, <1>5 DEF Channel, Current

\* The server changes, or answers.
LEMMA ServerChannel ==
  ASSUME Types, Wire, Handshake, Channel, ServerStep
  PROVE  Channel'
  <1>1. conn = "listening" /\ conn' = conn /\ UNCHANGED module
    BY ServerWire DEF ClientUnchanged
  <1>b. /\ toServer \in Seq(Requests) /\ toClient \in Seq(Messages)
        /\ DOMAIN toClient = 1..Len(toClient) /\ DOMAIN toServer = 1..Len(toServer)
        /\ Len(toServer) \in Nat
    BY LenProperties DEF Types, WireTypes
  <1>2. ASSUME ConferenceChanges,
               \/ toServer' = toServer
               \/ toServer # <<>> /\ toServer' = Tail(toServer) /\ Head(toServer).type # "query"
        PROVE  Channel'
    <2>1. subscribed' = subscribed
      BY <1>2 DEF ConferenceChanges, Joins, Leave, SetAttribute, SetRoomMuted, server
    <2>2. CASE subscribed = TRUE
      <3>1. ASSUME NEW i \in DOMAIN toServer, Asks(toServer[i], "isRoomMuted")
            PROVE  \E j \in DOMAIN toServer' : Asks(toServer'[j], "isRoomMuted")
        <4>1. CASE toServer' = toServer
          BY <3>1, <4>1
        <4>2. CASE toServer # <<>> /\ toServer' = Tail(toServer) /\ Head(toServer).type # "query"
          <5>1. /\ DOMAIN Tail(toServer) = 1..(Len(toServer) - 1) /\ Head(toServer) = toServer[1]
                /\ \A k \in 1..(Len(toServer) - 1) : Tail(toServer)[k] = toServer[k + 1]
            BY <4>2, <1>b, TailFacts
          <5>2. i # 1
            BY <5>1, <4>2, <3>1 DEF Asks
          <5>3. i - 1 \in DOMAIN toServer' /\ toServer'[i - 1] = toServer[(i - 1) + 1] /\ (i - 1) + 1 = i
            BY <5>1, <5>2, <4>2, <1>b
          <5> QED
            BY <5>3, <3>1
        <4> QED
          BY <4>1, <4>2, <1>2
      <3> QED
        BY <1>1, <1>2, <2>1, <2>2, <3>1, ConferenceChannel
    <2>3. CASE subscribed = FALSE
      <3>1. toServer # <<>> /\ Asks(toServer[1], "connectSO") /\ toClient = <<>> /\ DOMAIN listeners = {}
        BY <1>1, <2>3 DEF Wire
      <3>2. toClient' = toClient
        BY <1>2, <2>3, ConferenceMessages DEF Types, WireTypes
      <3>3. 1 \in DOMAIN toServer
        BY <3>1, <1>b, TailFacts
      <3>4. received = FALSE
        BY <3>1, <3>3 DEF Handshake, Opens
      <3> QED
        BY <3>1, <3>2, <3>4, <2>1, <2>3, <1>1, EmptyChannel DEF module
    <2> QED
      BY <2>2, <2>3 DEF Types, ServerTypes
  <1>3. ASSUME toServer # <<>>, toServer' = Tail(toServer), Head(toServer).type = "query",
               Answer(Head(toServer).name)
        PROVE  Channel'
    <2> DEFINE name == Head(toServer).name
               m == AnswerTo(name)
    <2>1. name \in {"connectSO", "getMeetMeUsers", "isRoomMuted"} /\ Head(toServer) = toServer[1]
      BY <1>3, HeadRequest
    <2>2. /\ m \in Messages /\ toClient' = Append(toClient, m)
          /\ UNCHANGED <<voices, called, status, allMuted>>
          /\ name # "connectSO" => subscribed' = subscribed
      BY <1>3, <2>1, AnswerFacts DEF Types, ServerTypes
    <2>3. /\ name = "connectSO" => m.type = "clear"
          /\ name = "getMeetMeUsers" => m.type = "users" /\ m.map = [u \in voices |-> status[u]]
          /\ name = "isRoomMuted" => m.type = "roomMuted" /\ m.value = allMuted
      BY AnswerTypes
    <2>4. /\ \A k \in DOMAIN toClient : k \in DOMAIN toClient' /\ toClient'[k] = toClient[k]
          /\ Len(toClient) + 1 \in DOMAIN toClient' /\ toClient'[Len(toClient) + 1] = m
      BY <2>2, <1>b, AppendFacts
    <2>5. ASSUME NEW i \in DOMAIN toServer
          PROVE  i = 1 \/ (i - 1 \in DOMAIN toServer' /\ toServer'[i - 1] = toServer[i])
      <3>1. /\ DOMAIN Tail(toServer) = 1..(Len(toServer) - 1)
            /\ \A k \in 1..(Len(toServer) - 1) : Tail(toServer)[k] = toServer[k + 1]
        BY <1>3, <1>b, TailFacts
      <3>2. CASE i # 1
        <4>1. i - 1 \in 1..(Len(toServer) - 1) /\ (i - 1) + 1 = i
          BY <3>2, <1>b
        <4> QED
          BY <4>1, <3>1, <1>3
      <3> QED
        BY <3>2
    <2>6. toServer[1].name = name
      BY <2>1
    <2> HIDE DEF name, m
    <2>7. ASSUME RoomDue' PROVE RoomDue \/ m.type = "roomMuted"
      <3>1. CASE name = "connectSO"
        BY <3>1, <2>3, <2>4, <2>7 DEF RoomDue
      <3>2. CASE name = "getMeetMeUsers"
        <4>1. ~Asks(toServer[1], "isRoomMuted")
          BY <3>2, <2>6 DEF Asks
        <4>2. \A i \in DOMAIN toServer : ~Asks(toServer[i], "isRoomMuted")
          BY <4>1, <2>5, <2>7 DEF RoomDue
        <4> QED
          BY <4>2, <3>2, <2>2, <2>4, <2>7 DEF RoomDue
      <3>3. CASE name = "isRoomMuted"
        BY <3>3, <2>3
      <3> QED
        BY <2>1, <3>1, <3>2, <3>3
    <2>8. \/ m.type = "users" /\ m.map = [u \in voices |-> status[u]]
          \/ m.type = "roomMuted" /\ m.value = allMuted
          \/ m.type = "clear"
      BY <2>1, <2>3
    <2> QED
      BY <2>2, <2>7, <2>8, <1>1, ListChannel
  <1> QED
    BY <1>2, <1>3 DEF ServerStep

LEMMA ChannelNext ==
  ASSUME Types, Wire, Handshake, Channel, [Next]_vars
  PROVE  Channel'
  <1>1. CASE Hangup /\ UNCHANGED module
    BY <1>1 DEF Hangup, Channel
  <1>2. CASE CreateListenersModule
    <2>1. toClient' = toClient /\ DOMAIN listeners' = {} /\ received' = FALSE /\ subscribed' = subscribed
          /\ conn # "listening"
      BY <1>2 DEF CreateListenersModule, NewListeners, NoList, server
    <2>2. toClient = <<>> /\ subscribed = FALSE
      BY <2>1 DEF Wire
    <2> QED
      BY <2>1, <2>2, EmptyChannel
  <1>3. CASE HandleMessage
    BY <1>3, HandleChannel
  <1>4. CASE ServerStep
    BY <1>4, ServerChannel
  <1>5. CASE Commands
    <2>1. /\ conn = "listening" /\ UNCHANGED <<voices, status, allMuted, subscribed, toClient, conn>>
          /\ UNCHANGED <<listeners, received, objects, roomMuted>>
      BY <1>5 DEF Commands, server, module
    <2>2. PICK r \in Seq(Requests) : toServer' = toServer \o r
      BY <1>5 DEF Commands
    <2>a. toServer \in Seq(Requests)
      BY DEF Types, WireTypes
    <2>3. DOMAIN toServer = 1..Len(toServer) /\ DOMAIN (toServer \o r) = 1..(Len(toServer) + Len(r))
          /\ Len(toServer) \in Nat /\ Len(r) \in Nat
      BY <2>a, ConcatFacts
    <2>4. \A i \in 1..Len(toServer) : (toServer \o r)[i] = toServer[i]
      BY <2>a, ConcatFacts
    <2>5. \A i \in DOMAIN toServer : i \in DOMAIN toServer' /\ toServer'[i] = toServer[i]
      BY <2>2, <2>3, <2>4
    <2>6. RoomDue' => RoomDue
      BY <2>1, <2>5 DEF RoomDue
    <2>7. /\ \A n, u, v : Present(n, u, v) => Present(n, u, v)'
          /\ \A n, u, a, v : Brings(n, u, a, v) => Brings(n, u, a, v)'
          /\ \A v : RoomBrings(v) => RoomBrings(v)'
      BY <2>1, ToldSame
    <2> QED
      BY <2>1, <2>6, <2>7 DEF Channel, Current, Snapshot
  <1>6. CASE conn = "closed" /\ conn' = "joining" /\ UNCHANGED <<server, wire, module>>
    BY <1>6 DEF Channel
  <1>7. CASE UNCHANGED <<server, wire, conn, module>>
    <2>1. UNCHANGED <<voices, status, allMuted, subscribed, toClient, toServer, conn, listeners, received, objects, roomMuted>>
      BY <1>7 DEF server, wire, module
    <2>2. /\ \A n, u, v : Present(n, u, v) => Present(n, u, v)'
          /\ \A n, u, a, v : Brings(n, u, a, v) => Brings(n, u, a, v)'
          /\ \A v : RoomBrings(v) => RoomBrings(v)'
      BY <2>1, ToldSame
    <2>3. RoomDue' => RoomDue
      BY <2>1 DEF RoomDue
    <2> QED
      BY <2>1, <2>2, <2>3 DEF Channel, Current, Snapshot
  <1> QED
    BY <1>1, <1>2, <1>3, <1>4, <1>5, <1>6, <1>7, WireSteps DEF WireStep

\* The module follows the conference: with nothing on its way, the last message
\* about every caller has been handled.
LEMMA ChannelImplies ==
  ASSUME Types, Wire, Handshake, Channel
  PROVE  ModuleFollowsConference
  <1>0. SUFFICES ASSUME Settled
                 PROVE  /\ DOMAIN listeners = voices
                        /\ \A u \in voices : objects[listeners[u]] = [who |-> u, status |-> status[u]]
                        /\ roomMuted = allMuted
    BY DEF ModuleFollowsConference
  <1>1. conn = "listening" /\ received = TRUE /\ toServer = <<>> /\ toClient = <<>>
    BY <1>0 DEF Settled, Types, ModuleTypes
  <1>2. Current /\ (RoomDue => RoomBrings(allMuted)) /\ Len(toClient) = 0
    BY <1>1 DEF Channel
  <1>3. \A t, v : ~LastSays(toClient, 0, t, v)
    BY DEF LastSays
  <1>4. \A u \in Voices : KnownIn(u, InOut(u, voices))
    BY <1>2, <1>3 DEF Current, Present
  <1>5. \A u \in Voices, a \in Attributes : Shows(u, a, status[u][a])
    BY <1>2, <1>3 DEF Current, Brings
  <1>6. DOMAIN listeners \subseteq Voices /\ voices \subseteq Voices
    BY DEF Types, ModuleTypes, ServerTypes
  <1>7. DOMAIN listeners = voices
    BY <1>1, <1>4, <1>6 DEF KnownIn, InOut
  <1>8. ASSUME NEW u \in voices PROVE objects[listeners[u]] = [who |-> u, status |-> status[u]]
    <2>1. u \in Voices /\ listeners[u] \in DOMAIN objects /\ objects[listeners[u]].who = u
      BY <1>6, <1>7 DEF Types, ModuleTypes
    <2>2. objects[listeners[u]] \in Entry
      BY <2>1, ElementOfSeq, LenProperties DEF Types, ModuleTypes
    <2>3. status[u] \in [Attributes -> BOOLEAN]
      BY <2>1 DEF Types, ServerTypes, Statuses
    <2> DEFINE e == objects[listeners[u]]
    <2>4. \A a \in Attributes : e.status[a] = status[u][a]
      BY <1>5, <1>7, <2>1 DEF Shows
    <2>5. e \in Entry /\ e.who = u
      BY <2>1, <2>2
    <2> HIDE DEF e
    <2>6. e.status \in [Attributes -> BOOLEAN] /\ e = [who |-> e.who, status |-> e.status]
      BY <2>5 DEF Entry
    <2>7. e.status = status[u]
      BY <2>3, <2>4, <2>6
    <2> QED
      BY <2>5, <2>6, <2>7 DEF e
  <1>9. roomMuted = allMuted
    <2>1. subscribed = TRUE
      BY <1>1 DEF Wire, Types, ServerTypes
    <2>2. DOMAIN toClient = {} /\ DOMAIN toServer = {}
      BY <1>1
    <2>3. RoomDue
      BY <2>1, <2>2 DEF RoomDue
    <2> QED
      BY <2>3, <1>2, <1>3 DEF RoomBrings
  <1> QED
    BY <1>7, <1>8, <1>9

Follow == Types /\ Wire /\ Handshake /\ Channel

LEMMA FollowInit == Init => Follow
  <1> SUFFICES ASSUME Init PROVE Follow
    OBVIOUS
  <1>1. /\ conn = "closed" /\ toServer = <<>> /\ toClient = <<>> /\ subscribed = FALSE
        /\ doubled = {} /\ DOMAIN toServer = {} /\ DOMAIN toClient = {}
    BY DEF Init
  <1>2. Types
    BY TypesInit
  <1> QED
    BY <1>1, <1>2 DEF Follow, Wire, Handshake, Channel

LEMMA FollowNext ==
  ASSUME Follow, [Next]_vars
  PROVE  Follow'
  BY TypesNext, WireNext, HandshakeNext, ChannelNext DEF Follow

\* Whatever came between the subscription and the list, once everything was
\* handled the map of the module is the conference, with the state of every
\* caller, and the button that mutes the room knows whether it is muted.
THEOREM ModuleFollows == Spec => []ModuleFollowsConference
  <1>1. Init => Follow
    BY FollowInit
  <1>2. Follow /\ [Next]_vars => Follow'
    BY FollowNext
  <1>3. Follow => ModuleFollowsConference
    BY ChannelImplies DEF Follow
  <1> QED
    BY <1>1, <1>2, <1>3, PTL DEF Spec

-----------------------------------------------------------------------------
(* The screen.  What the list holds and what the runnables will do to it   *)
(* are one line: an entry is an addition that was made.                    *)
EntryItem(e) == [op |-> "add", who |-> e.who, attr |-> "none", status |-> e.status]
TaskItem(t, o) ==
  IF t.ref = NullListener
  THEN [op |-> IF t.op = "clear" THEN "clear" ELSE "nothing", who |-> "nobody", attr |-> "none", status |-> Quiet]
  ELSE [op |-> t.op, who |-> o[t.ref].who, attr |-> IF t.op = "status" THEN t.attr ELSE "none",
        status |-> o[t.ref].status]
Line(l, q, o) ==
  [p \in 1..(Len(l) + Len(q)) |-> IF p <= Len(l) THEN EntryItem(l[p]) ELSE TaskItem(q[p - Len(l)], o)]
Timeline == Line(list, ui, objects)

\* Of an item: its kind, and whether no clear comes after it, or before another.
Is(T, p, op, u) == T[p].op = op /\ T[p].who = u
Live(T, p) == \A l \in DOMAIN T : p < l => T[l].op # "clear"
Lasts(T, p, i) == \A l \in DOMAIN T : p < l /\ l < i => T[l].op # "clear"
Seen(T, u) == {p \in DOMAIN T : Is(T, p, "add", u) /\ Live(T, p)}
Leaves(T, u) == \E p \in DOMAIN T : Is(T, p, "remove", u) /\ Live(T, p)
Changes(T, p, u, a) == Is(T, p, "status", u) /\ T[p].attr = a /\ Live(T, p)

\* A change of status comes after an addition of the listener, and not after a
\* removal.
Backed(T) ==
  \A i \in DOMAIN T : T[i].op = "status" =>
    /\ \E p \in DOMAIN T : p < i /\ Is(T, p, "add", T[i].who) /\ Lasts(T, p, i)
    /\ \A j \in DOMAIN T : j < i /\ Is(T, j, "remove", T[i].who) => ~Lasts(T, j, i)

\* Nothing will be left on the screen.
Cleared(T) == \A p \in DOMAIN T : T[p].op # "clear" => ~Live(T, p)

\* A listener is removed once, after it was added.
Once(T, u) ==
  \A p, q \in DOMAIN T : Is(T, p, "remove", u) /\ Live(T, p) =>
     /\ Is(T, q, "remove", u) /\ Live(T, q) => p = q
     /\ Is(T, q, "add", u) /\ Live(T, q) => q < p

\* The last change decides what is shown, and the first entry when there is none.
WillShow(T, u, a, v) ==
  \/ \E p \in DOMAIN T : /\ Changes(T, p, u, a) /\ T[p].status[a] = v
                         /\ \A q \in DOMAIN T : Changes(T, q, u, a) => q <= p
  \/ /\ \A p \in DOMAIN T : ~Changes(T, p, u, a)
     /\ \E p \in Seen(T, u) : T[p].status[a] = v /\ \A q \in Seen(T, u) : p <= q

\* A line with fewer items.
Within(S, m, B, n, f) ==
  /\ m \in Nat /\ n \in Nat /\ DOMAIN S = 1..m /\ DOMAIN B = 1..n
  /\ f \in [1..m -> 1..n]
  /\ \A p, q \in 1..m : p < q => f[p] < f[q]
  /\ \A p \in 1..m : /\ S[p].op = B[f[p]].op
                     /\ S[p].op # "clear" => S[p].who = B[f[p]].who /\ S[p].attr = B[f[p]].attr
  /\ \A l \in 1..n : B[l].op = "clear" => \/ \E p \in 1..m : f[p] = l
                                          \/ \A p \in 1..m : l < f[p]

\* The order of the items that are kept.
LEMMA WithinOrder ==
  ASSUME NEW S, NEW m, NEW B, NEW n, NEW f, Within(S, m, B, n, f)
  PROVE  /\ \A p \in 1..m : f[p] \in 1..n
         /\ \A p, q \in 1..m : p < q <=> f[p] < f[q]
         /\ \A p, q \in 1..m : p <= q <=> f[p] <= f[q]
         /\ \A p, q \in 1..m : f[p] = f[q] => p = q
  <1>1. /\ m \in Nat /\ n \in Nat /\ \A p \in 1..m : f[p] \in 1..n
        /\ \A p, q \in 1..m : p < q => f[p] < f[q]
    BY DEF Within
  <1>2. \A p, q \in 1..m : f[p] = f[q] => p = q
    BY <1>1
  <1>3. \A p, q \in 1..m : p < q <=> f[p] < f[q]
    BY <1>1
  <1>4. \A p, q \in 1..m : p <= q <=> f[p] <= f[q]
    BY <1>1
  <1> QED
    BY <1>1, <1>2, <1>3, <1>4

\* An item is live in both lines or in none: no clear is lost between two items.
LEMMA WithinLive ==
  ASSUME NEW S, NEW m, NEW B, NEW n, NEW f, Within(S, m, B, n, f)
  PROVE  /\ \A p \in 1..m : Live(S, p) <=> Live(B, f[p])
         /\ \A p, i \in 1..m : Lasts(S, p, i) <=> Lasts(B, f[p], f[i])
  <1>1. /\ \A p \in 1..m : f[p] \in 1..n
        /\ \A p, q \in 1..m : p < q <=> f[p] < f[q]
    BY WithinOrder
  <1>2. /\ DOMAIN S = 1..m /\ DOMAIN B = 1..n /\ m \in Nat /\ n \in Nat
        /\ \A p \in 1..m : S[p].op = B[f[p]].op
        /\ \A l \in 1..n : B[l].op = "clear" => \/ \E p \in 1..m : f[p] = l
                                                \/ \A p \in 1..m : l < f[p]
    BY DEF Within
  <1>3. ASSUME NEW p \in 1..m, Live(S, p), NEW l \in 1..n, f[p] < l PROVE B[l].op # "clear"
    <2>1. SUFFICES ASSUME B[l].op = "clear" PROVE FALSE
      OBVIOUS
    <2>2. PICK q \in 1..m : f[q] = l
      BY <2>1, <1>1, <1>2, <1>3
    <2>3. p < q /\ S[q].op = "clear"
      BY <2>1, <2>2, <1>1, <1>2, <1>3
    <2> QED
      BY <2>3, <1>2, <1>3 DEF Live
  <1>4. ASSUME NEW p \in 1..m, Live(B, f[p]), NEW q \in 1..m, p < q PROVE S[q].op # "clear"
    BY <1>1, <1>2, <1>4 DEF Live
  <1>5. ASSUME NEW p \in 1..m, NEW i \in 1..m, Lasts(S, p, i), NEW l \in 1..n, f[p] < l, l < f[i]
        PROVE  B[l].op # "clear"
    <2>1. SUFFICES ASSUME B[l].op = "clear" PROVE FALSE
      OBVIOUS
    <2>2. PICK q \in 1..m : f[q] = l
      BY <2>1, <1>1, <1>2, <1>5
    <2>3. p < q /\ q < i /\ S[q].op = "clear"
      BY <2>1, <2>2, <1>1, <1>2, <1>5
    <2> QED
      BY <2>3, <1>2, <1>5 DEF Lasts
  <1>6. ASSUME NEW p \in 1..m, NEW i \in 1..m, Lasts(B, f[p], f[i]), NEW q \in 1..m, p < q, q < i
        PROVE  S[q].op # "clear"
    BY <1>1, <1>2, <1>6 DEF Lasts
  <1> QED
    BY <1>2, <1>3, <1>4, <1>5, <1>6 DEF Live, Lasts

\* Items of a listener.
LEMMA WithinItems ==
  ASSUME NEW S, NEW m, NEW B, NEW n, NEW f, Within(S, m, B, n, f), NEW u, NEW a, NEW p \in 1..m
  PROVE  /\ Is(S, p, "add", u) <=> Is(B, f[p], "add", u)
         /\ Is(S, p, "remove", u) <=> Is(B, f[p], "remove", u)
         /\ Is(S, p, "status", u) <=> Is(B, f[p], "status", u)
         /\ p \in Seen(S, u) <=> f[p] \in Seen(B, u)
         /\ Changes(S, p, u, a) <=> Changes(B, f[p], u, a)
  <1>1. /\ f[p] \in 1..n /\ DOMAIN S = 1..m /\ DOMAIN B = 1..n
        /\ S[p].op = B[f[p]].op
        /\ S[p].op # "clear" => S[p].who = B[f[p]].who /\ S[p].attr = B[f[p]].attr
    BY WithinOrder DEF Within
  <1>2. Live(S, p) <=> Live(B, f[p])
    BY WithinLive
  <1>3. /\ Is(S, p, "add", u) <=> Is(B, f[p], "add", u)
        /\ Is(S, p, "remove", u) <=> Is(B, f[p], "remove", u)
        /\ Is(S, p, "status", u) <=> Is(B, f[p], "status", u)
    BY <1>1 DEF Is
  <1>4. p \in Seen(S, u) <=> f[p] \in Seen(B, u)
    BY <1>1, <1>2, <1>3 DEF Seen
  <1>5. Changes(S, p, u, a) <=> Changes(B, f[p], u, a)
    BY <1>1, <1>2, <1>3 DEF Changes, Is
  <1> QED
    BY <1>3, <1>4, <1>5

\* The entries of a listener that are kept are as many.
LEMMA WithinCount ==
  ASSUME NEW S, NEW m, NEW B, NEW n, NEW f, Within(S, m, B, n, f), NEW u
  PROVE  LET kept == {q \in Seen(B, u) : \E p \in 1..m : f[p] = q}
         IN  IsFiniteSet(kept) /\ Cardinality(Seen(S, u)) = Cardinality(kept)
  <1> DEFINE kept == {q \in Seen(B, u) : \E p \in 1..m : f[p] = q}
             s == Seen(S, u)
             g == [p \in s |-> f[p]]
  <1>1. /\ DOMAIN S = 1..m /\ DOMAIN B = 1..n /\ m \in Nat /\ n \in Nat
    BY DEF Within
  <1>2. /\ s \subseteq 1..m /\ kept \subseteq 1..n
        /\ \A p \in 1..m : p \in s <=> f[p] \in Seen(B, u)
    BY <1>1, WithinItems DEF Seen
  <1>3. \A p \in s : f[p] \in kept
    BY <1>2
  <1>4. \A p, q \in s : p # q => f[p] # f[q]
    BY <1>2, WithinOrder
  <1>5. \A q \in kept : \E p \in s : f[p] = q
    BY <1>2
  <1>8. IsFiniteSet(1..n) /\ IsFiniteSet(1..m)
    BY <1>1, FS_Interval
  <1>9. IsFiniteSet(kept) /\ IsFiniteSet(s)
    BY <1>2, <1>8, FS_Subset
  <1> HIDE DEF s, kept
  <1>6. g \in Bijection(s, kept)
    <2>1. g \in [s -> kept] /\ \A p \in s : g[p] = f[p]
      BY <1>3
    <2> HIDE DEF g
    <2>2. g \in Surjection(s, kept)
      BY <2>1, <1>5 DEF Surjection
    <2>3. g \in Injection(s, kept)
      BY <2>1, <1>4 DEF Injection, IsInjective
    <2> QED
      BY <2>2, <2>3 DEF Bijection
  <1> HIDE DEF g
  <1>7. ExistsBijection(s, kept)
    BY <1>6 DEF ExistsBijection
  <1>10. Cardinality(s) = Cardinality(kept)
    BY <1>7, <1>9, FS_Bijection
  <1> QED
    BY <1>9, <1>10 DEF s, kept

\* The entries and the removals of a listener, when none that matters is dropped.
LEMMA WithinEntries ==
  ASSUME NEW S, NEW m, NEW B, NEW n, NEW f, Within(S, m, B, n, f), NEW u,
         \A q \in 1..n : Live(B, q) /\ (Is(B, q, "add", u) \/ Is(B, q, "remove", u))
                           => \E p \in 1..m : f[p] = q
  PROVE  /\ Cardinality(Seen(S, u)) = Cardinality(Seen(B, u))
         /\ Leaves(S, u) <=> Leaves(B, u)
         /\ Once(B, u) <=> Once(S, u)
  <1>1. /\ DOMAIN S = 1..m /\ DOMAIN B = 1..n /\ m \in Nat /\ n \in Nat
    BY DEF Within
  <1>2. \A p \in 1..m : /\ Is(S, p, "add", u) <=> Is(B, f[p], "add", u)
                        /\ Is(S, p, "remove", u) <=> Is(B, f[p], "remove", u)
    BY WithinItems
  <1>3. \A p \in 1..m : Live(S, p) <=> Live(B, f[p])
    BY WithinLive
  <1>4. /\ \A p \in 1..m : f[p] \in 1..n
        /\ \A p, q \in 1..m : p < q <=> f[p] < f[q]
        /\ \A p, q \in 1..m : f[p] = f[q] => p = q
    BY WithinOrder
  <1>5. Cardinality(Seen(S, u)) = Cardinality(Seen(B, u))
    <2> DEFINE kept == {q \in Seen(B, u) : \E p \in 1..m : f[p] = q}
    <2>1. kept = Seen(B, u)
      BY <1>1 DEF Seen
    <2> QED
      BY <2>1, WithinCount
  <1>6. Leaves(S, u) <=> Leaves(B, u)
    <2>1. ASSUME Leaves(S, u) PROVE Leaves(B, u)
      <3>1. PICK p \in 1..m : Is(S, p, "remove", u) /\ Live(S, p)
        BY <2>1, <1>1 DEF Leaves
      <3> QED
        BY <3>1, <1>1, <1>2, <1>3, <1>4 DEF Leaves
    <2>2. ASSUME Leaves(B, u) PROVE Leaves(S, u)
      <3>1. PICK q \in 1..n : Is(B, q, "remove", u) /\ Live(B, q)
        BY <2>2, <1>1 DEF Leaves
      <3>2. PICK p \in 1..m : f[p] = q
        BY <3>1
      <3> QED
        BY <3>1, <3>2, <1>1, <1>2, <1>3 DEF Leaves
    <2> QED
      BY <2>1, <2>2
  <1>7. ASSUME Once(B, u) PROVE Once(S, u)
    <2> SUFFICES ASSUME NEW p \in 1..m, NEW q \in 1..m, Is(S, p, "remove", u), Live(S, p)
                 PROVE  /\ Is(S, q, "remove", u) /\ Live(S, q) => p = q
                        /\ Is(S, q, "add", u) /\ Live(S, q) => q < p
      BY <1>1 DEF Once
    <2>1. Is(B, f[p], "remove", u) /\ Live(B, f[p]) /\ f[p] \in DOMAIN B /\ f[q] \in DOMAIN B
      BY <1>1, <1>2, <1>3, <1>4
    <2>2. /\ Is(B, f[q], "remove", u) /\ Live(B, f[q]) => f[p] = f[q]
          /\ Is(B, f[q], "add", u) /\ Live(B, f[q]) => f[q] < f[p]
      BY <2>1, <1>7 DEF Once
    <2> QED
      BY <2>2, <1>2, <1>3, <1>4
  <1>8. ASSUME Once(S, u) PROVE Once(B, u)
    <2> SUFFICES ASSUME NEW p \in 1..n, NEW q \in 1..n, Is(B, p, "remove", u), Live(B, p)
                 PROVE  /\ Is(B, q, "remove", u) /\ Live(B, q) => p = q
                        /\ Is(B, q, "add", u) /\ Live(B, q) => q < p
      BY <1>1 DEF Once
    <2>1. PICK i \in 1..m : f[i] = p
      OBVIOUS
    <2>2. ASSUME Live(B, q), Is(B, q, "remove", u) \/ Is(B, q, "add", u)
          PROVE  /\ Is(B, q, "remove", u) => p = q
                 /\ Is(B, q, "add", u) => q < p
      <3>1. PICK j \in 1..m : f[j] = q
        BY <2>2
      <3>2. Is(S, i, "remove", u) /\ Live(S, i) /\ Live(S, j) /\ i \in DOMAIN S /\ j \in DOMAIN S
        BY <2>1, <2>2, <3>1, <1>1, <1>2, <1>3
      <3>3. /\ Is(S, j, "remove", u) => i = j
            /\ Is(S, j, "add", u) => j < i
        BY <3>2, <1>8 DEF Once
      <3> QED
        BY <2>1, <3>1, <3>3, <1>2, <1>4
    <2> QED
      BY <2>2
  <1> QED
    BY <1>5, <1>6, <1>7, <1>8

\* What will be shown, when nothing that matters is dropped or changed.
LEMMA WithinShow ==
  ASSUME NEW S, NEW m, NEW B, NEW n, NEW f, Within(S, m, B, n, f), NEW u, NEW a, NEW v,
         \A q \in 1..n : (Live(B, q) /\ Is(B, q, "add", u)) \/ Changes(B, q, u, a)
                           => \E p \in 1..m : f[p] = q,
         \A p \in 1..m : p \in Seen(S, u) \/ Changes(S, p, u, a)
                           => S[p].status[a] = B[f[p]].status[a]
  PROVE  WillShow(S, u, a, v) <=> WillShow(B, u, a, v)
  <1>1. /\ DOMAIN S = 1..m /\ DOMAIN B = 1..n /\ m \in Nat /\ n \in Nat
    BY DEF Within
  <1>2. \A p \in 1..m : /\ p \in Seen(S, u) <=> f[p] \in Seen(B, u)
                        /\ Changes(S, p, u, a) <=> Changes(B, f[p], u, a)
    BY WithinItems
  <1>4. /\ \A p \in 1..m : f[p] \in 1..n
        /\ \A p, q \in 1..m : p <= q <=> f[p] <= f[q]
    BY WithinOrder
  <1>5. /\ \A q \in 1..n : q \in Seen(B, u) => \E p \in 1..m : f[p] = q
        /\ \A q \in 1..n : Changes(B, q, u, a) => \E p \in 1..m : f[p] = q
        /\ Seen(S, u) \subseteq 1..m /\ Seen(B, u) \subseteq 1..n
    BY <1>1 DEF Seen
  <1>6. (\A p \in 1..m : ~Changes(S, p, u, a)) <=> (\A q \in 1..n : ~Changes(B, q, u, a))
    BY <1>2, <1>4, <1>5
  <1>7. ASSUME NEW p \in 1..m, Changes(S, p, u, a)
        PROVE  (\A q \in 1..m : Changes(S, q, u, a) => q <= p)
                 <=> (\A q \in 1..n : Changes(B, q, u, a) => q <= f[p])
    BY <1>2, <1>4, <1>5
  <1>8. ASSUME NEW p \in Seen(S, u)
        PROVE  (\A q \in Seen(S, u) : p <= q) <=> (\A q \in Seen(B, u) : f[p] <= q)
    <2>1. ASSUME \A q \in Seen(S, u) : p <= q, NEW q \in Seen(B, u) PROVE f[p] <= q
      <3>1. PICK j \in 1..m : f[j] = q
        BY <1>5
      <3> QED
        BY <2>1, <3>1, <1>2, <1>4, <1>5
    <2>2. ASSUME \A q \in Seen(B, u) : f[p] <= q, NEW q \in Seen(S, u) PROVE p <= q
      BY <2>2, <1>2, <1>4, <1>5
    <2> QED
      BY <2>1, <2>2
  <1>9. ASSUME WillShow(S, u, a, v) PROVE WillShow(B, u, a, v)
    <2>1. CASE \E p \in 1..m : /\ Changes(S, p, u, a) /\ S[p].status[a] = v
                               /\ \A q \in 1..m : Changes(S, q, u, a) => q <= p
      <3>1. PICK p \in 1..m : /\ Changes(S, p, u, a) /\ S[p].status[a] = v
                              /\ \A q \in 1..m : Changes(S, q, u, a) => q <= p
        BY <2>1
      <3>2. /\ f[p] \in 1..n /\ Changes(B, f[p], u, a) /\ B[f[p]].status[a] = v
            /\ \A q \in 1..n : Changes(B, q, u, a) => q <= f[p]
        BY <3>1, <1>2, <1>4, <1>7
      <3> QED
        BY <3>2, <1>1 DEF WillShow
    <2>2. CASE /\ \A p \in 1..m : ~Changes(S, p, u, a)
               /\ \E p \in Seen(S, u) : S[p].status[a] = v /\ \A q \in Seen(S, u) : p <= q
      <3>1. PICK p \in Seen(S, u) : S[p].status[a] = v /\ \A q \in Seen(S, u) : p <= q
        BY <2>2
      <3>2. f[p] \in Seen(B, u) /\ B[f[p]].status[a] = v /\ \A q \in Seen(B, u) : f[p] <= q
        BY <3>1, <1>2, <1>5, <1>8
      <3>3. \A q \in 1..n : ~Changes(B, q, u, a)
        BY <2>2, <1>6
      <3> QED
        BY <3>2, <3>3, <1>1 DEF WillShow
    <2> QED
      BY <2>1, <2>2, <1>1, <1>9 DEF WillShow
  <1>10. ASSUME WillShow(B, u, a, v) PROVE WillShow(S, u, a, v)
    <2>1. CASE \E p \in 1..n : /\ Changes(B, p, u, a) /\ B[p].status[a] = v
                               /\ \A q \in 1..n : Changes(B, q, u, a) => q <= p
      <3>1. PICK p \in 1..n : /\ Changes(B, p, u, a) /\ B[p].status[a] = v
                              /\ \A q \in 1..n : Changes(B, q, u, a) => q <= p
        BY <2>1
      <3>2. PICK i \in 1..m : f[i] = p
        BY <3>1, <1>5
      <3>3. /\ Changes(S, i, u, a) /\ S[i].status[a] = v
            /\ \A q \in 1..m : Changes(S, q, u, a) => q <= i
        BY <3>1, <3>2, <1>2, <1>7
      <3> QED
        BY <3>3, <1>1 DEF WillShow
    <2>2. CASE /\ \A p \in 1..n : ~Changes(B, p, u, a)
               /\ \E p \in Seen(B, u) : B[p].status[a] = v /\ \A q \in Seen(B, u) : p <= q
      <3>1. PICK p \in Seen(B, u) : B[p].status[a] = v /\ \A q \in Seen(B, u) : p <= q
        BY <2>2
      <3>2. PICK i \in 1..m : f[i] = p
        BY <1>5
      <3>3. i \in Seen(S, u)
        BY <3>2, <1>2
      <3>4. S[i].status[a] = v /\ \A q \in Seen(S, u) : i <= q
        BY <3>1, <3>2, <3>3, <1>8
      <3>5. \A q \in 1..m : ~Changes(S, q, u, a)
        BY <2>2, <1>6
      <3> QED
        BY <3>3, <3>4, <3>5, <1>1 DEF WillShow
    <2> QED
      BY <2>1, <2>2, <1>1, <1>10 DEF WillShow
  <1> QED
    BY <1>9, <1>10

\* Changes stay backed when the additions that back them are kept.
LEMMA WithinBacked ==
  ASSUME NEW S, NEW m, NEW B, NEW n, NEW f, Within(S, m, B, n, f), Backed(B),
         \A i \in 1..m, q \in 1..n :
            S[i].op = "status" /\ q < f[i] /\ Is(B, q, "add", S[i].who) /\ Lasts(B, q, f[i])
              => \E p \in 1..m : f[p] = q
  PROVE  Backed(S)
  <1>1. /\ DOMAIN S = 1..m /\ DOMAIN B = 1..n /\ m \in Nat /\ n \in Nat
        /\ \A p \in 1..m : /\ S[p].op = B[f[p]].op
                           /\ S[p].op # "clear" => S[p].who = B[f[p]].who
    BY DEF Within
  <1>2. \A u : \A p \in 1..m : /\ Is(S, p, "add", u) <=> Is(B, f[p], "add", u)
                               /\ Is(S, p, "remove", u) <=> Is(B, f[p], "remove", u)
    BY WithinItems
  <1>3. \A p, i \in 1..m : Lasts(S, p, i) <=> Lasts(B, f[p], f[i])
    BY WithinLive
  <1>4. /\ \A p \in 1..m : f[p] \in 1..n
        /\ \A p, q \in 1..m : p < q <=> f[p] < f[q]
    BY WithinOrder
  <1> SUFFICES ASSUME NEW i \in 1..m, S[i].op = "status"
               PROVE  /\ \E p \in 1..m : p < i /\ Is(S, p, "add", S[i].who) /\ Lasts(S, p, i)
                      /\ \A j \in 1..m : j < i /\ Is(S, j, "remove", S[i].who) => ~Lasts(S, j, i)
    BY <1>1 DEF Backed
  <1>5. f[i] \in DOMAIN B /\ B[f[i]].op = "status" /\ B[f[i]].who = S[i].who
    BY <1>1, <1>4
  <1>6. /\ \E p \in DOMAIN B : p < f[i] /\ Is(B, p, "add", S[i].who) /\ Lasts(B, p, f[i])
        /\ \A j \in DOMAIN B : j < f[i] /\ Is(B, j, "remove", S[i].who) => ~Lasts(B, j, f[i])
    BY <1>5 DEF Backed
  <1>7. PICK q \in 1..n : q < f[i] /\ Is(B, q, "add", S[i].who) /\ Lasts(B, q, f[i])
    BY <1>1, <1>6
  <1>8. PICK p \in 1..m : f[p] = q
    BY <1>7
  <1>9. p < i /\ Is(S, p, "add", S[i].who) /\ Lasts(S, p, i)
    BY <1>7, <1>8, <1>2, <1>3, <1>4
  <1>10. \A j \in 1..m : j < i /\ Is(S, j, "remove", S[i].who) => ~Lasts(S, j, i)
    BY <1>1, <1>2, <1>3, <1>4, <1>6
  <1> QED
    BY <1>9, <1>10

\* A line with nothing that lasts.
LEMMA WithinCleared ==
  ASSUME NEW S, NEW m, NEW B, NEW n, NEW f, Within(S, m, B, n, f), Cleared(B)
  PROVE  Cleared(S)
  <1>1. /\ DOMAIN S = 1..m /\ DOMAIN B = 1..n
        /\ \A p \in 1..m : S[p].op = B[f[p]].op /\ f[p] \in 1..n
    BY WithinOrder DEF Within
  <1>2. \A p \in 1..m : Live(S, p) <=> Live(B, f[p])
    BY WithinLive
  <1> QED
    BY <1>1, <1>2 DEF Cleared

\* A line to which items are added behind.
Longer(T, n, U, m) ==
  /\ n \in Nat /\ m \in Nat /\ n <= m /\ DOMAIN T = 1..n /\ DOMAIN U = 1..m
  /\ \A p \in 1..n : /\ T[p].op = U[p].op
                     /\ T[p].op # "clear" => T[p].who = U[p].who /\ T[p].attr = U[p].attr
Same(n) == [p \in 1..n |-> p]

\* When no clear is added, the old line is within the new one.
LEMMA LongerWithin ==
  ASSUME NEW T, NEW n, NEW U, NEW m, Longer(T, n, U, m), \A p \in (n + 1)..m : U[p].op # "clear"
  PROVE  /\ Within(T, n, U, m, Same(n))
         /\ \A p \in 1..n : Same(n)[p] = p
         /\ \A p \in 1..n : Live(T, p) <=> Live(U, p)
         /\ \A p \in (n + 1)..m : Live(U, p)
         /\ \A u : \A p \in 1..n : Is(T, p, "add", u) <=> Is(U, p, "add", u)
         /\ \A u : \A p \in 1..n : Is(T, p, "remove", u) <=> Is(U, p, "remove", u)
         /\ \A u, a : \A p \in 1..n : Changes(T, p, u, a) <=> Changes(U, p, u, a)
         /\ \A p \in 1..m : p \in 1..n \/ p \in (n + 1)..m
  <1> DEFINE f == Same(n)
  <1>1. /\ n \in Nat /\ m \in Nat /\ n <= m /\ DOMAIN T = 1..n /\ DOMAIN U = 1..m
        /\ \A p \in 1..n : /\ T[p].op = U[p].op
                           /\ T[p].op # "clear" => T[p].who = U[p].who /\ T[p].attr = U[p].attr
    BY DEF Longer
  <1>2. \A p \in 1..n : f[p] = p
    BY DEF Same
  <1>3. f \in [1..n -> 1..m]
    BY <1>1 DEF Same
  <1> HIDE DEF f
  <1>4. \A p, q \in 1..n : p < q => f[p] < f[q]
    BY <1>2
  <1>5. \A p \in 1..n : /\ T[p].op = U[f[p]].op
                        /\ T[p].op # "clear" => T[p].who = U[f[p]].who /\ T[p].attr = U[f[p]].attr
    BY <1>1, <1>2
  <1>6. \A p \in 1..m : p \in 1..n \/ p \in (n + 1)..m
    BY <1>1
  <1>7. \A l \in 1..m : U[l].op = "clear" => \/ \E p \in 1..n : f[p] = l
                                             \/ \A p \in 1..n : l < f[p]
    BY <1>2, <1>6
  <1>8. Within(T, n, U, m, f)
    BY <1>1, <1>3, <1>4, <1>5, <1>7 DEF Within
  <1>9. \A p \in 1..n : Live(T, p) <=> Live(U, p)
    BY <1>2, <1>8, WithinLive
  <1>10. \A p \in (n + 1)..m : Live(U, p)
    BY <1>1 DEF Live
  <1>11. \A u : \A p \in 1..n : Is(T, p, "add", u) <=> Is(U, p, "add", u)
    BY <1>2, <1>8, WithinItems
  <1>12. \A u : \A p \in 1..n : Is(T, p, "remove", u) <=> Is(U, p, "remove", u)
    BY <1>2, <1>8, WithinItems
  <1>13. \A u, a : \A p \in 1..n : Changes(T, p, u, a) <=> Changes(U, p, u, a)
    BY <1>2, <1>8, WithinItems
  <1> QED
    BY <1>2, <1>6, <1>8, <1>9, <1>10, <1>11, <1>12, <1>13 DEF f

\* A listener none of the new items is about.
LEMMA LongerOther ==
  ASSUME NEW T, NEW n, NEW U, NEW m, Longer(T, n, U, m), \A p \in (n + 1)..m : U[p].op # "clear",
         NEW u, \A p \in (n + 1)..m : ~Is(U, p, "add", u) /\ ~Is(U, p, "remove", u)
  PROVE  /\ Cardinality(Seen(U, u)) = Cardinality(Seen(T, u))
         /\ Leaves(U, u) <=> Leaves(T, u)
         /\ Once(T, u) => Once(U, u)
  <1>1. /\ Within(T, n, U, m, Same(n)) /\ \A p \in 1..n : Same(n)[p] = p
        /\ \A p \in 1..m : p \in 1..n \/ p \in (n + 1)..m
    BY LongerWithin
  <1> QED
    BY <1>1, WithinEntries

\* What will be shown of a listener, when nothing new is said of the attribute.
LEMMA LongerShow ==
  ASSUME NEW T, NEW n, NEW U, NEW m, Longer(T, n, U, m), \A p \in (n + 1)..m : U[p].op # "clear",
         NEW u, NEW a, NEW v, WillShow(T, u, a, v),
         \A p \in (n + 1)..m : ~Is(U, p, "status", u) \/ U[p].attr # a,
         \A p \in 1..n : T[p].op \in {"add", "status"} /\ T[p].who = u
                           => U[p].status[a] = T[p].status[a]
  PROVE  WillShow(U, u, a, v)
  <1>1. /\ \A p \in 1..n : Live(T, p) <=> Live(U, p)
        /\ \A p \in 1..n : Is(T, p, "add", u) <=> Is(U, p, "add", u)
        /\ \A p \in 1..n : Changes(T, p, u, a) <=> Changes(U, p, u, a)
        /\ \A p \in 1..m : p \in 1..n \/ p \in (n + 1)..m
    BY LongerWithin
  <1>2. /\ n \in Nat /\ m \in Nat /\ n <= m /\ DOMAIN T = 1..n /\ DOMAIN U = 1..m
    BY DEF Longer
  <1>3. \A p \in 1..m : Changes(U, p, u, a) => p \in 1..n /\ Changes(T, p, u, a)
    BY <1>1 DEF Changes
  <1>4. \A p \in 1..n : Changes(T, p, u, a) => Changes(U, p, u, a) /\ U[p].status[a] = T[p].status[a]
    BY <1>1 DEF Changes, Is
  <1>5. CASE \E p \in 1..n : /\ Changes(T, p, u, a) /\ T[p].status[a] = v
                             /\ \A q \in 1..n : Changes(T, q, u, a) => q <= p
    BY <1>2, <1>3, <1>4, <1>5 DEF WillShow
  <1>6. CASE /\ \A p \in 1..n : ~Changes(T, p, u, a)
             /\ \E p \in Seen(T, u) : T[p].status[a] = v /\ \A q \in Seen(T, u) : p <= q
    <2>1. PICK p \in Seen(T, u) : T[p].status[a] = v /\ \A q \in Seen(T, u) : p <= q
      BY <1>6
    <2>2. p \in 1..n /\ p \in 1..m /\ Is(T, p, "add", u) /\ Live(T, p)
      BY <1>2 DEF Seen
    <2>3. p \in Seen(U, u) /\ U[p].status[a] = v
      BY <2>1, <2>2, <1>1, <1>2 DEF Seen, Is
    <2>4. ASSUME NEW q \in Seen(U, u) PROVE p <= q
      <3>1. q \in 1..m /\ Is(U, q, "add", u) /\ Live(U, q)
        BY <1>2 DEF Seen
      <3>2. CASE q \in 1..n
        <4>1. q \in Seen(T, u)
          BY <3>1, <3>2, <1>1, <1>2 DEF Seen
        <4> QED
          BY <4>1, <2>1
      <3>3. CASE q \in (n + 1)..m
        BY <3>3, <2>2, <1>2
      <3> QED
        BY <3>1, <3>2, <3>3, <1>1
    <2>5. \A q \in 1..m : ~Changes(U, q, u, a)
      BY <1>3, <1>6
    <2> QED
      BY <2>3, <2>4, <2>5, <1>2 DEF WillShow
  <1> QED
    BY <1>2, <1>5, <1>6 DEF WillShow

\* One more entry of a listener.
LEMMA LongerAdd ==
  ASSUME NEW T, NEW n, NEW U, NEW m, Longer(T, n, U, m), \A p \in (n + 1)..m : U[p].op # "clear",
         NEW u, NEW e \in (n + 1)..m, Is(U, e, "add", u),
         \A p \in (n + 1)..m : /\ Is(U, p, "add", u) => p = e
                               /\ ~Is(U, p, "remove", u)
  PROVE  /\ Cardinality(Seen(U, u)) = Cardinality(Seen(T, u)) + 1
         /\ Leaves(U, u) <=> Leaves(T, u)
         /\ ~Leaves(T, u) => Once(U, u)
         /\ \A a, v : Seen(T, u) = {} /\ U[e].status[a] = v /\ (\A p \in 1..m : ~Changes(U, p, u, a))
                        => WillShow(U, u, a, v)
  <1>1. /\ \A p \in 1..n : Live(T, p) <=> Live(U, p)
        /\ \A p \in (n + 1)..m : Live(U, p)
        /\ \A p \in 1..n : Is(T, p, "add", u) <=> Is(U, p, "add", u)
        /\ \A p \in 1..n : Is(T, p, "remove", u) <=> Is(U, p, "remove", u)
        /\ \A p \in 1..m : p \in 1..n \/ p \in (n + 1)..m
    BY LongerWithin
  <1>2. /\ n \in Nat /\ m \in Nat /\ n <= m /\ DOMAIN T = 1..n /\ DOMAIN U = 1..m
    BY DEF Longer
  <1>3. Seen(U, u) = Seen(T, u) \cup {e} /\ e \notin Seen(T, u)
    <2>1. \A p \in 1..n : p \in Seen(U, u) <=> p \in Seen(T, u)
      BY <1>1, <1>2 DEF Seen
    <2>2. e \in Seen(U, u) /\ \A p \in (n + 1)..m : p \in Seen(U, u) => p = e
      BY <1>1, <1>2 DEF Seen
    <2>3. Seen(U, u) \subseteq 1..m /\ Seen(T, u) \subseteq 1..n
      BY <1>2 DEF Seen
    <2> QED
      BY <2>1, <2>2, <2>3, <1>1, <1>2
  <1>4. IsFiniteSet(Seen(T, u))
    <2>1. IsFiniteSet(1..n)
      BY <1>2, FS_Interval
    <2>2. Seen(T, u) \in SUBSET (1..n)
      BY <1>2 DEF Seen
    <2> QED
      BY <2>1, <2>2, FS_Subset
  <1>5. Cardinality(Seen(U, u)) = Cardinality(Seen(T, u)) + 1
    BY <1>3, <1>4, FS_AddElement
  <1>6. Leaves(U, u) <=> Leaves(T, u)
    BY <1>1, <1>2 DEF Leaves
  <1>7. ~Leaves(T, u) => Once(U, u)
    BY <1>6 DEF Leaves, Once
  <1>8. ASSUME NEW a, NEW v, Seen(T, u) = {}, U[e].status[a] = v, \A p \in 1..m : ~Changes(U, p, u, a)
        PROVE  WillShow(U, u, a, v)
    <2>1. Seen(U, u) = {e}
      BY <1>3, <1>8
    <2>2. \E p \in Seen(U, u) : U[p].status[a] = v /\ \A q \in Seen(U, u) : p <= q
      BY <2>1, <1>8, <1>2
    <2> QED
      BY <2>2, <1>2, <1>8 DEF WillShow
  <1> QED
    BY <1>5, <1>6, <1>7, <1>8

\* The removal of a listener that is not being removed.
LEMMA LongerRemove ==
  ASSUME NEW T, NEW n, NEW U, NEW m, m = n + 1, Longer(T, n, U, m), NEW u, Is(U, m, "remove", u),
         ~Leaves(T, u)
  PROVE  Cardinality(Seen(U, u)) = Cardinality(Seen(T, u)) /\ Leaves(U, u) /\ Once(U, u)
  <1>0. \A p \in (n + 1)..m : p = m /\ U[p].op = "remove" /\ U[p].op # "clear"
    BY DEF Is, Longer
  <1>2. /\ n \in Nat /\ m \in Nat /\ DOMAIN T = 1..n /\ DOMAIN U = 1..m
    BY DEF Longer
  <1>1. /\ Within(T, n, U, m, Same(n)) /\ \A p \in 1..n : Same(n)[p] = p
        /\ \A p \in 1..n : Live(T, p) <=> Live(U, p)
        /\ \A p \in 1..n : Is(T, p, "remove", u) <=> Is(U, p, "remove", u)
        /\ \A p \in 1..m : p \in 1..n \/ p \in (n + 1)..m
        /\ \A p \in (n + 1)..m : Live(U, p)
    BY <1>0, LongerWithin
  <1>3. Cardinality(Seen(U, u)) = Cardinality(Seen(T, u))
    <2> DEFINE kept == {q \in Seen(U, u) : \E p \in 1..n : Same(n)[p] = q}
    <2>1. ASSUME NEW q \in Seen(U, u) PROVE q \in 1..n
      <3>1. q \in 1..m /\ U[q].op = "add"
        BY <1>2 DEF Seen, Is
      <3> QED
        BY <3>1, <1>0, <1>1
    <2>2. kept = Seen(U, u)
      BY <2>1, <1>1
    <2> QED
      BY <2>2, <1>1, WithinCount
  <1>4. m \in 1..m /\ Live(U, m) /\ Is(U, m, "remove", u)
    BY <1>1, <1>2
  <1>5. ASSUME NEW p \in 1..m, Is(U, p, "remove", u), Live(U, p) PROVE p = m
    BY <1>0, <1>1, <1>2, <1>5 DEF Leaves
  <1>6. ASSUME NEW q \in 1..m, Is(U, q, "add", u) PROVE q < m
    <2>1. U[q].op = "add" /\ q \in 1..n
      BY <1>0, <1>1, <1>6 DEF Is
    <2> QED
      BY <2>1, <1>2
  <1>7. Leaves(U, u)
    BY <1>2, <1>4 DEF Leaves
  <1>8. Once(U, u)
    BY <1>2, <1>5, <1>6 DEF Once
  <1> QED
    BY <1>3, <1>7, <1>8

\* One item more, the removal of a listener that is not being removed.
Removing(T, n, U, u) == Longer(T, n, U, n + 1) /\ Is(U, n + 1, "remove", u) /\ ~Leaves(T, u)

LEMMA RemovingLine ==
  \A T, n, U, u : Removing(T, n, U, u) =>
    Cardinality(Seen(U, u)) = Cardinality(Seen(T, u)) /\ Leaves(U, u) /\ Once(U, u)
  <1> SUFFICES ASSUME NEW T, NEW n, NEW U, NEW u, Removing(T, n, U, u)
               PROVE  Cardinality(Seen(U, u)) = Cardinality(Seen(T, u)) /\ Leaves(U, u) /\ Once(U, u)
    OBVIOUS
  <1>1. ASSUME NEW m, m = n + 1
        PROVE  Cardinality(Seen(U, u)) = Cardinality(Seen(T, u)) /\ Leaves(U, u) /\ Once(U, u)
    <2>1. Longer(T, n, U, m) /\ Is(U, m, "remove", u) /\ ~Leaves(T, u)
      BY <1>1 DEF Removing
    <2> QED
      BY <1>1, <2>1, LongerRemove
  <1> QED
    BY <1>1

\* A change of status behind the others is the last.
LEMMA LongerStatus ==
  ASSUME NEW T, NEW n, NEW U, Longer(T, n, U, n + 1), NEW u, NEW a, Is(U, n + 1, "status", u),
         U[n + 1].attr = a
  PROVE  WillShow(U, u, a, U[n + 1].status[a])
  <1>1. n \in Nat /\ DOMAIN U = 1..(n + 1)
    BY DEF Longer
  <1>2. Live(U, n + 1)
    BY <1>1 DEF Live
  <1>3. Changes(U, n + 1, u, a) /\ n + 1 \in DOMAIN U /\ \A q \in DOMAIN U : q <= n + 1
    BY <1>1, <1>2 DEF Changes
  <1> QED
    BY <1>3 DEF WillShow

\* A change of status that is posted is backed when the listener has an entry.
LEMMA LongerBacked ==
  ASSUME NEW T, NEW n, NEW U, NEW m, Longer(T, n, U, m), Backed(T),
         \A i \in (n + 1)..m : U[i].op = "status" =>
            /\ m = n + 1
            /\ \E p \in 1..n : Is(T, p, "add", U[i].who) /\ Live(T, p)
            /\ \A j \in 1..n : Is(T, j, "remove", U[i].who) => ~Live(T, j)
  PROVE  Backed(U)
  <1>1. /\ n \in Nat /\ m \in Nat /\ n <= m /\ DOMAIN T = 1..n /\ DOMAIN U = 1..m
        /\ \A p \in 1..n : T[p].op = U[p].op
        /\ \A p \in 1..n : T[p].op # "clear" => T[p].who = U[p].who
    BY DEF Longer
  <1>2. \A u : \A p \in 1..n : /\ Is(T, p, "add", u) <=> Is(U, p, "add", u)
                               /\ Is(T, p, "remove", u) <=> Is(U, p, "remove", u)
    BY <1>1 DEF Is
  <1>3. \A p, i \in 1..n : Lasts(T, p, i) <=> Lasts(U, p, i)
    BY <1>1 DEF Lasts
  <1> SUFFICES ASSUME NEW i \in 1..m, U[i].op = "status"
               PROVE  /\ \E p \in 1..m : p < i /\ Is(U, p, "add", U[i].who) /\ Lasts(U, p, i)
                      /\ \A j \in 1..m : j < i /\ Is(U, j, "remove", U[i].who) => ~Lasts(U, j, i)
    BY <1>1 DEF Backed
  <1>4. CASE i \in 1..n
    <2>1. T[i].op = "status" /\ T[i].who = U[i].who /\ i \in DOMAIN T
      BY <1>1, <1>4
    <2>2. PICK p \in 1..n : p < i /\ Is(T, p, "add", U[i].who) /\ Lasts(T, p, i)
      BY <2>1, <1>1 DEF Backed
    <2>3. \A j \in 1..n : j < i /\ Is(T, j, "remove", U[i].who) => ~Lasts(T, j, i)
      BY <2>1, <1>1 DEF Backed
    <2>4. \A j \in 1..m : j < i => j \in 1..n
      BY <1>1, <1>4
    <2>5. p \in 1..m
      BY <1>1
    <2> QED
      BY <2>2, <2>3, <2>4, <2>5, <1>2, <1>3, <1>4
  <1>5. CASE i \notin 1..n
    <2>1. i \in (n + 1)..m
      BY <1>1, <1>5
    <2>2. /\ m = n + 1
          /\ \E p \in 1..n : Is(T, p, "add", U[i].who) /\ Live(T, p)
          /\ \A j \in 1..n : Is(T, j, "remove", U[i].who) => ~Live(T, j)
      BY <2>1
    <2>3. i = n + 1
      BY <2>1, <2>2, <1>1
    <2>4. \A p \in 1..n : Live(T, p) <=> Lasts(U, p, i)
      BY <2>3, <1>1 DEF Live, Lasts
    <2>5. \A p \in 1..n : p \in 1..m /\ p < i
      BY <2>3, <1>1
    <2>6. \A p \in 1..m : p < i => p \in 1..n
      BY <2>3, <1>1
    <2> QED
      BY <2>2, <2>4, <2>5, <2>6, <1>2
  <1> QED
    BY <1>4, <1>5

\* What is behind the first connections of the screen is cleared.
LEMMA LongerCleared ==
  ASSUME NEW T, NEW n, NEW U, Longer(T, n, U, n + 1), U[n + 1].op = "clear"
  PROVE  Cleared(U)
  <1>1. n \in Nat /\ DOMAIN U = 1..(n + 1)
    BY DEF Longer
  <1>2. n + 1 \in DOMAIN U /\ \A p \in DOMAIN U : p # n + 1 => p < n + 1
    BY <1>1
  <1> QED
    BY <1>2 DEF Cleared, Live

\* No change is left of a listener that has no entry.
LEMMA UnseenUnchanged ==
  ASSUME NEW T, NEW n \in Nat, DOMAIN T = 1..n, Backed(T), NEW u, NEW a, Seen(T, u) = {}
  PROVE  \A p \in DOMAIN T : ~Changes(T, p, u, a)
  <1> SUFFICES ASSUME NEW i \in DOMAIN T, Changes(T, i, u, a) PROVE FALSE
    OBVIOUS
  <1>1. T[i].op = "status" /\ T[i].who = u /\ Live(T, i)
    BY DEF Changes, Is
  <1>2. PICK p \in DOMAIN T : p < i /\ Is(T, p, "add", u) /\ Lasts(T, p, i)
    BY <1>1 DEF Backed
  <1>3. ASSUME NEW l \in DOMAIN T, p < l PROVE T[l].op # "clear"
    <2>1. CASE l < i
      BY <2>1, <1>2, <1>3 DEF Lasts
    <2>2. CASE l = i
      BY <2>2, <1>1
    <2>3. CASE i < l
      BY <2>3, <1>1 DEF Live
    <2> QED
      BY <2>1, <2>2, <2>3
  <1>4. p \in Seen(T, u)
    BY <1>2, <1>3 DEF Seen, Live
  <1> QED
    BY <1>4

\* The items of the line.
LEMMA LineFacts ==
  ASSUME NEW l \in Seq(Entry), NEW q \in Seq(Tasks), NEW o
  PROVE  /\ Len(l) \in Nat /\ Len(q) \in Nat /\ DOMAIN l = 1..Len(l) /\ DOMAIN q = 1..Len(q)
         /\ DOMAIN Line(l, q, o) = 1..(Len(l) + Len(q))
         /\ \A p \in 1..Len(l) : Line(l, q, o)[p] = EntryItem(l[p])
         /\ \A i \in 1..Len(q) : Line(l, q, o)[Len(l) + i] = TaskItem(q[i], o)
  <1>1. Len(l) \in Nat /\ Len(q) \in Nat /\ DOMAIN l = 1..Len(l) /\ DOMAIN q = 1..Len(q)
    BY LenProperties
  <1>2. DOMAIN Line(l, q, o) = 1..(Len(l) + Len(q))
    BY DEF Line
  <1>3. ASSUME NEW p \in 1..Len(l) PROVE Line(l, q, o)[p] = EntryItem(l[p])
    BY <1>1 DEF Line
  <1>4. ASSUME NEW i \in 1..Len(q) PROVE Line(l, q, o)[Len(l) + i] = TaskItem(q[i], o)
    <2>1. Len(l) + i \in 1..(Len(l) + Len(q)) /\ ~(Len(l) + i <= Len(l)) /\ (Len(l) + i) - Len(l) = i
      BY <1>1
    <2> QED
      BY <2>1 DEF Line
  <1> QED
    BY <1>1, <1>2, <1>3, <1>4

\* The timeline after a step.
LEMMA NextLine ==
  ASSUME list' \in Seq(Entry), ui' \in Seq(Tasks)
  PROVE  /\ DOMAIN Timeline' = 1..(Len(list') + Len(ui'))
         /\ \A p \in 1..Len(list') : Timeline'[p] = EntryItem(list'[p])
         /\ \A i \in 1..Len(ui') : Timeline'[Len(list') + i] = TaskItem(ui'[i], objects')
  <1>1. ASSUME NEW l, l = list', NEW q, q = ui', NEW o, o = objects'
        PROVE  /\ DOMAIN Line(l, q, o) = 1..(Len(l) + Len(q))
               /\ \A p \in 1..Len(l) : Line(l, q, o)[p] = EntryItem(l[p])
               /\ \A i \in 1..Len(q) : Line(l, q, o)[Len(l) + i] = TaskItem(q[i], o)
    <2>1. l \in Seq(Entry) /\ q \in Seq(Tasks)
      BY <1>1
    <2> QED
      BY <2>1, LineFacts
  <1> QED
    BY <1>1 DEF Timeline

LEMMA EntryItemFacts ==
  ASSUME NEW e
  PROVE  /\ EntryItem(e).op = "add" /\ EntryItem(e).who = e.who
         /\ EntryItem(e).attr = "none" /\ EntryItem(e).status = e.status
  BY DEF EntryItem

LEMMA TaskItemFacts ==
  ASSUME NEW t, NEW o
  PROVE  /\ t.op = "clear" => TaskItem(t, o).op = "clear"
         /\ t.op # "clear" => TaskItem(t, o).op # "clear"
         /\ t.ref = NullListener /\ t.op # "clear" => TaskItem(t, o).op = "nothing"
         /\ t.ref # NullListener =>
              /\ TaskItem(t, o).op = t.op /\ TaskItem(t, o).who = o[t.ref].who
              /\ TaskItem(t, o).status = o[t.ref].status
              /\ t.op = "status" => TaskItem(t, o).attr = t.attr
  BY DEF TaskItem

\* The first runnable, and the line that is left.
LEMMA HeadLine ==
  ASSUME Types, ui # <<>>, ui' = Tail(ui), objects' = objects
  PROVE  /\ list \in Seq(Entry) /\ ui \in Seq(Tasks) /\ ui' \in Seq(Tasks)
         /\ Len(list) \in Nat /\ Len(ui) \in Nat /\ Len(ui) >= 1 /\ Len(ui') = Len(ui) - 1
         /\ DOMAIN Timeline = 1..(Len(list) + Len(ui))
         /\ \A p \in 1..Len(list) : Timeline[p] = EntryItem(list[p])
         /\ Timeline[Len(list) + 1] = TaskItem(Head(ui), objects)
         /\ \A i \in 1..Len(ui') : Timeline[(Len(list) + i) + 1] = TaskItem(ui'[i], objects')
  <1>1. list \in Seq(Entry) /\ ui \in Seq(Tasks)
    BY DEF Types, ScreenTypes
  <1>2. /\ Tail(ui) \in Seq(Tasks) /\ Len(Tail(ui)) = Len(ui) - 1 /\ Len(ui) \in Nat /\ Len(ui) >= 1
        /\ Head(ui) = ui[1] /\ \A i \in 1..(Len(ui) - 1) : Tail(ui)[i] = ui[i + 1]
    BY <1>1, TailFacts
  <1> DEFINE T == Line(list, ui, objects)
  <1>3. /\ Len(list) \in Nat
        /\ DOMAIN T = 1..(Len(list) + Len(ui))
        /\ \A p \in 1..Len(list) : T[p] = EntryItem(list[p])
        /\ \A i \in 1..Len(ui) : T[Len(list) + i] = TaskItem(ui[i], objects)
    BY <1>1, LineFacts
  <1> HIDE DEF T
  <1>4. T[Len(list) + 1] = TaskItem(Head(ui), objects)
    BY <1>2, <1>3
  <1>5. ASSUME NEW i \in 1..Len(ui') PROVE T[(Len(list) + i) + 1] = TaskItem(ui'[i], objects')
    <2>1. i + 1 \in 1..Len(ui) /\ ui'[i] = ui[i + 1] /\ Len(list) + (i + 1) = (Len(list) + i) + 1
      BY <1>2, <1>3
    <2> QED
      BY <2>1, <1>3
  <1> QED
    BY <1>1, <1>2, <1>3, <1>4, <1>5 DEF T, Timeline

Past(k, m) == [p \in 1..m |-> p + k]
Skip(d, m) == [p \in 1..m |-> IF p < d THEN p ELSE p + 1]
SkipTwo(r, d, m) == [p \in 1..m |-> IF p < r THEN p ELSE IF p + 1 < d THEN p + 1 ELSE p + 2]

\* clear(): what is left of the line.
LEMMA ClearLine ==
  ASSUME Types, ui # <<>>, ui' = Tail(ui), objects' = objects, list' = <<>>
  PROVE  LET n == Len(list) + Len(ui)
             k == Len(list) + 1
             f == Past(k, n - k)
         IN  /\ Within(Timeline', n - k, Timeline, n, f)
             /\ \A p \in 1..(n - k) : f[p] = p + k /\ Timeline'[p] = Timeline[f[p]]
  <1> DEFINE n == Len(list) + Len(ui)
             k == Len(list) + 1
             m == n - k
             f == Past(k, m)
             T == Timeline
             U == Timeline'
  <1>1. /\ list \in Seq(Entry) /\ ui \in Seq(Tasks) /\ ui' \in Seq(Tasks)
        /\ Len(list) \in Nat /\ Len(ui) \in Nat /\ Len(ui) >= 1 /\ Len(ui') = Len(ui) - 1
        /\ DOMAIN T = 1..(Len(list) + Len(ui))
        /\ \A i \in 1..Len(ui') : T[(Len(list) + i) + 1] = TaskItem(ui'[i], objects')
    BY HeadLine
  <1>2. list' \in Seq(Entry) /\ Len(list') = 0
    OBVIOUS
  <1>3. /\ DOMAIN U = 1..(Len(list') + Len(ui'))
        /\ \A i \in 1..Len(ui') : U[Len(list') + i] = TaskItem(ui'[i], objects')
    <2>1. list' \in Seq(Entry) /\ ui' \in Seq(Tasks)
      BY <1>1, <1>2
    <2> QED
      BY <2>1, NextLine
  <1> HIDE DEF T, U
  <1>4. m \in Nat /\ n \in Nat /\ m = Len(ui') /\ k \in Nat
    BY <1>1
  <1>5. DOMAIN U = 1..m /\ DOMAIN T = 1..n /\ \A p \in 1..m : U[p] = TaskItem(ui'[p], objects')
    BY <1>1, <1>2, <1>3
  <1>6. \A p \in 1..m : f[p] = p + k /\ f[p] = (Len(list) + p) + 1 /\ f[p] \in 1..n
    BY <1>1 DEF Past
  <1>7. \A p \in 1..m : U[p] = T[f[p]]
    BY <1>1, <1>4, <1>5, <1>6
  <1>8. f \in [1..m -> 1..n]
    BY <1>6 DEF Past
  <1>9. \A l \in 1..n : \/ \E p \in 1..m : f[p] = l
                        \/ \A p \in 1..m : l < f[p]
    <2> SUFFICES ASSUME NEW l \in 1..n, ~(\E p \in 1..m : f[p] = l), NEW p \in 1..m PROVE l < f[p]
      OBVIOUS
    <2>1. CASE l > k
      <3>1. l - k \in 1..m /\ (l - k) + k = l
        BY <2>1, <1>1, <1>4
      <3>2. f[l - k] = l
        BY <3>1, <1>6
      <3> QED
        BY <3>1, <3>2
    <2>2. CASE ~(l > k)
      BY <2>2, <1>4, <1>6
    <2> QED
      BY <2>1, <2>2
  <1>10. \A p, q \in 1..m : p < q => f[p] < f[q]
    BY <1>4, <1>6
  <1> HIDE DEF f, m, n, k
  <1>11. Within(U, m, T, n, f)
    BY <1>4, <1>5, <1>7, <1>8, <1>9, <1>10 DEF Within
  <1> QED
    BY <1>6, <1>7, <1>11 DEF f, m, n, k, T, U

\* addSection(): the runnable becomes the entry, and the line stays.
LEMMA AddLine ==
  ASSUME Types, ui # <<>>, ui' = Tail(ui), objects' = objects,
         Head(ui).op = "add", RunAdd(Head(ui).ref)
  PROVE  Timeline' = Timeline
  <1> DEFINE T == Timeline
             U == Timeline'
             n == Len(list) + Len(ui)
             r == Head(ui).ref
  <1>1. /\ list \in Seq(Entry) /\ ui \in Seq(Tasks) /\ ui' \in Seq(Tasks)
        /\ Len(list) \in Nat /\ Len(ui) \in Nat /\ Len(ui) >= 1 /\ Len(ui') = Len(ui) - 1
        /\ DOMAIN T = 1..(Len(list) + Len(ui))
        /\ \A p \in 1..Len(list) : T[p] = EntryItem(list[p])
        /\ T[Len(list) + 1] = TaskItem(Head(ui), objects)
        /\ \A i \in 1..Len(ui') : T[(Len(list) + i) + 1] = TaskItem(ui'[i], objects')
    BY HeadLine
  <1>2. r \in DOMAIN objects /\ r # NullListener
    <2>1. r \in DOMAIN objects
      BY HeadTask
    <2> QED
      BY <2>1, LenProperties DEF Types, ModuleTypes, NullListener
  <1>3. /\ list' \in Seq(Entry) /\ Len(list') = Len(list) + 1
        /\ \A i \in DOMAIN list : list'[i] = list[i]
        /\ list'[Len(list) + 1] = objects[r]
    BY <1>2, AddFacts
  <1>4. /\ DOMAIN U = 1..(Len(list') + Len(ui')) /\ DOMAIN list = 1..Len(list)
        /\ \A p \in 1..Len(list') : U[p] = EntryItem(list'[p])
        /\ \A i \in 1..Len(ui') : U[Len(list') + i] = TaskItem(ui'[i], objects')
    <2>1. list' \in Seq(Entry) /\ ui' \in Seq(Tasks) /\ list \in Seq(Entry)
      BY <1>1, <1>3
    <2>2. DOMAIN list = 1..Len(list)
      BY <2>1, LenProperties
    <2> QED
      BY <2>1, <2>2, NextLine
  <1>5. TaskItem(Head(ui), objects) = EntryItem(objects[r])
    BY <1>2 DEF TaskItem, EntryItem
  <1> HIDE DEF T, U
  <1>6. ASSUME NEW p \in 1..n PROVE U[p] = T[p]
    <2>1. CASE p <= Len(list)
      <3>1. p \in 1..Len(list) /\ p \in 1..Len(list')
        BY <2>1, <1>1, <1>3
      <3>2. list'[p] = list[p]
        BY <3>1, <1>3, <1>4
      <3> QED
        BY <3>1, <3>2, <1>1, <1>4
    <2>2. CASE p = Len(list) + 1
      BY <2>2, <1>1, <1>3, <1>4, <1>5
    <2>3. CASE p > Len(list) + 1
      <3>1. (p - 1) - Len(list) \in 1..Len(ui') /\ Len(list') + ((p - 1) - Len(list)) = p
            /\ (Len(list) + ((p - 1) - Len(list))) + 1 = p
        BY <2>3, <1>1, <1>3
      <3> QED
        BY <3>1, <1>1, <1>4
    <2> QED
      BY <2>1, <2>2, <2>3, <1>1
  <1>7. DOMAIN U = DOMAIN T /\ DOMAIN T = 1..n
    BY <1>1, <1>3, <1>4
  <1>8. T = [p \in DOMAIN T |-> T[p]] /\ U = [p \in DOMAIN U |-> U[p]]
    BY DEF T, U, Timeline, Line
  <1> HIDE DEF n
  <1>9. U = T
    BY <1>6, <1>7, <1>8
  <1> QED
    BY <1>9 DEF T, U

\* One item less, or two, that are not clears.
LEMMA SkipOnto ==
  ASSUME NEW m \in Nat, NEW d \in 1..(m + 1)
  PROVE  \A q \in 1..(m + 1) : q # d => \E p \in 1..m : Skip(d, m)[p] = q
  <1> DEFINE f == Skip(d, m)
  <1>2. \A p \in 1..m : f[p] = IF p < d THEN p ELSE p + 1
    BY DEF Skip
  <1> HIDE DEF f
  <1>6. ASSUME NEW q \in 1..(m + 1), q # d PROVE \E p \in 1..m : f[p] = q
    <2>1. CASE q < d
      <3>1. q \in 1..m /\ f[q] = q
        BY <2>1, <1>2
      <3> QED
        BY <3>1
    <2>2. CASE q > d
      <3>1. q - 1 \in 1..m /\ f[q - 1] = q
        BY <2>2, <1>2
      <3> QED
        BY <3>1
    <2> QED
      BY <2>1, <2>2, <1>6
  <1> QED
    BY <1>6 DEF f

LEMMA SkipWithin ==
  ASSUME NEW T, NEW U, NEW m \in Nat, NEW n \in Nat, n = m + 1, NEW d \in 1..n,
         DOMAIN T = 1..n, DOMAIN U = 1..m, T[d].op # "clear",
         \A p \in 1..m : LET q == Skip(d, m)[p]
                         IN  U[p].op = T[q].op /\ U[p].who = T[q].who /\ U[p].attr = T[q].attr
  PROVE  Within(U, m, T, n, Skip(d, m))
  <1> DEFINE f == Skip(d, m)
  <1>2. \A p \in 1..m : f[p] = (IF p < d THEN p ELSE p + 1) /\ f[p] \in 1..n
    BY DEF Skip
  <1>3. f \in [1..m -> 1..n]
    BY <1>2 DEF Skip
  <1>4. \A p \in 1..m : U[p].op = T[f[p]].op /\ U[p].who = T[f[p]].who /\ U[p].attr = T[f[p]].attr
    OBVIOUS
  <1> HIDE DEF f
  <1>5. \A p, q \in 1..m : p < q => f[p] < f[q]
    BY <1>2
  <1>6. \A q \in 1..n : q # d => \E p \in 1..m : f[p] = q
    BY SkipOnto DEF f
  <1>8. Within(U, m, T, n, f)
    BY <1>3, <1>4, <1>5, <1>6 DEF Within
  <1> QED
    BY <1>8 DEF f

LEMMA SkipTwoOnto ==
  ASSUME NEW m \in Nat, NEW d \in 1..(m + 2), NEW r \in 1..(m + 2), r < d
  PROVE  \A q \in 1..(m + 2) : q # d /\ q # r => \E p \in 1..m : SkipTwo(r, d, m)[p] = q
  <1> DEFINE f == SkipTwo(r, d, m)
  <1>2. \A p \in 1..m : f[p] = IF p < r THEN p ELSE IF p + 1 < d THEN p + 1 ELSE p + 2
    BY DEF SkipTwo
  <1> HIDE DEF f
  <1>6. ASSUME NEW q \in 1..(m + 2), q # d, q # r PROVE \E p \in 1..m : f[p] = q
    <2>1. CASE q < r
      <3>1. q \in 1..m /\ f[q] = q
        BY <2>1, <1>2
      <3> QED
        BY <3>1
    <2>2. CASE q > r /\ q < d
      <3>1. q - 1 \in 1..m /\ f[q - 1] = q
        BY <2>2, <1>2
      <3> QED
        BY <3>1
    <2>3. CASE q > d
      <3>1. q - 2 \in 1..m /\ f[q - 2] = q
        BY <2>3, <1>2
      <3> QED
        BY <3>1
    <2> QED
      BY <2>1, <2>2, <2>3, <1>6
  <1> QED
    BY <1>6 DEF f

LEMMA SkipTwoWithin ==
  ASSUME NEW T, NEW U, NEW m \in Nat, NEW n \in Nat, n = m + 2, NEW d \in 1..n, NEW r \in 1..n, r < d,
         DOMAIN T = 1..n, DOMAIN U = 1..m, T[d].op # "clear", T[r].op # "clear",
         \A p \in 1..m : LET q == SkipTwo(r, d, m)[p]
                         IN  U[p].op = T[q].op /\ U[p].who = T[q].who /\ U[p].attr = T[q].attr
  PROVE  Within(U, m, T, n, SkipTwo(r, d, m))
  <1> DEFINE f == SkipTwo(r, d, m)
  <1>2. \A p \in 1..m : f[p] = IF p < r THEN p ELSE IF p + 1 < d THEN p + 1 ELSE p + 2
    BY DEF SkipTwo
  <1>0. \A p \in 1..m : (IF p < r THEN p ELSE IF p + 1 < d THEN p + 1 ELSE p + 2) \in 1..n
    OBVIOUS
  <1>3. f \in [1..m -> 1..n]
    BY <1>0 DEF SkipTwo
  <1>4. \A p \in 1..m : U[p].op = T[f[p]].op /\ U[p].who = T[f[p]].who /\ U[p].attr = T[f[p]].attr
    OBVIOUS
  <1> HIDE DEF f
  <1>5. \A p, q \in 1..m : p < q => f[p] < f[q]
    BY <1>2
  <1>6. \A q \in 1..n : q # d /\ q # r => \E p \in 1..m : f[p] = q
    BY SkipTwoOnto DEF f
  <1>8. Within(U, m, T, n, f)
    BY <1>3, <1>4, <1>5, <1>6 DEF Within
  <1> QED
    BY <1>8 DEF f

\* A removal that finds no entry: only the runnable goes.
LEMMA NothingLine ==
  ASSUME Types, ui # <<>>, ui' = Tail(ui), objects' = objects, list' = list,
         Head(ui).op = "remove"
  PROVE  \E m \in Nat, n \in Nat : \E f :
           /\ n = Len(list) + Len(ui) /\ m = n - 1
           /\ Within(Timeline', m, Timeline, n, f)
           /\ \A q \in 1..n : q # Len(list) + 1 => \E p \in 1..m : f[p] = q
           /\ \A p \in 1..m : Timeline'[p] = Timeline[f[p]]
  <1> DEFINE n == Len(list) + Len(ui)
             d == Len(list) + 1
             m == Len(list) + Len(ui')
             f == Skip(d, m)
             T == Timeline
             U == Timeline'
  <1>1. /\ list \in Seq(Entry) /\ ui \in Seq(Tasks) /\ ui' \in Seq(Tasks)
        /\ Len(list) \in Nat /\ Len(ui) \in Nat /\ Len(ui) >= 1 /\ Len(ui') = Len(ui) - 1
        /\ DOMAIN T = 1..(Len(list) + Len(ui))
        /\ \A p \in 1..Len(list) : T[p] = EntryItem(list[p])
        /\ T[Len(list) + 1] = TaskItem(Head(ui), objects)
        /\ \A i \in 1..Len(ui') : T[(Len(list) + i) + 1] = TaskItem(ui'[i], objects')
    BY HeadLine
  <1>2. /\ DOMAIN U = 1..(Len(list) + Len(ui'))
        /\ \A p \in 1..Len(list) : U[p] = EntryItem(list[p])
        /\ \A i \in 1..Len(ui') : U[Len(list) + i] = TaskItem(ui'[i], objects')
    <2>1. list' \in Seq(Entry) /\ ui' \in Seq(Tasks) /\ list' = list
      BY <1>1
    <2> QED
      BY <2>1, NextLine
  <1>3. T[d].op # "clear"
    BY <1>1, TaskItemFacts
  <1> HIDE DEF T, U
  <1>4. \A p \in 1..m : f[p] = IF p < d THEN p ELSE p + 1
    BY DEF Skip
  <1>5. /\ m \in Nat /\ n \in Nat /\ d \in 1..n /\ m = Len(list) + Len(ui') /\ n = m + 1
        /\ d = Len(list) + 1
    BY <1>1
  <1>6. DOMAIN U = 1..m /\ DOMAIN T = 1..n
    BY <1>1, <1>2
  <1>9. n = Len(list) + Len(ui) /\ f = Skip(d, m)
    OBVIOUS
  <1> HIDE DEF f, n, m, d
  <1>7. ASSUME NEW p \in 1..m PROVE U[p] = T[f[p]]
    <2>1. CASE p <= Len(list)
      <3>1. p < d /\ p \in 1..Len(list)
        BY <2>1, <1>1, <1>5
      <3>2. f[p] = p
        BY <3>1, <1>4
      <3> QED
        BY <3>1, <3>2, <1>1, <1>2
    <2>2. CASE ~(p <= Len(list))
      <3>1. PICK i \in 1..Len(ui') : Len(list) + i = p
        <4>1. p - Len(list) \in 1..Len(ui') /\ Len(list) + (p - Len(list)) = p
          BY <2>2, <1>1, <1>5
        <4> QED
          BY <4>1
      <3>2. ~(p < d)
        BY <2>2, <1>1, <1>5
      <3>3. f[p] = (Len(list) + i) + 1
        BY <3>1, <3>2, <1>4
      <3> QED
        BY <3>1, <3>3, <1>1, <1>2
    <2> QED
      BY <2>1, <2>2
  <1>8. /\ Within(U, m, T, n, f)
        /\ \A q \in 1..n : q # d => \E p \in 1..m : f[p] = q
    <2>1. \A p \in 1..m : LET q == Skip(d, m)[p]
                         IN  U[p].op = T[q].op /\ U[p].who = T[q].who /\ U[p].attr = T[q].attr
      BY <1>7, <1>9
    <2>6. m \in Nat /\ n \in Nat /\ n = m + 1 /\ d \in 1..n
      BY <1>5
    <2>3. Within(U, m, T, n, Skip(d, m))
      BY <2>1, <2>6, <1>3, <1>6, SkipWithin
    <2>7. d \in 1..(m + 1)
      BY <2>6
    <2>8. \A q \in 1..(m + 1) : q # d => \E p \in 1..m : Skip(d, m)[p] = q
      BY <2>6, <2>7, SkipOnto
    <2>4. \A q \in 1..n : q # d => \E p \in 1..m : Skip(d, m)[p] = q
      BY <2>6, <2>8
    <2> QED
      BY <2>3, <2>4, <1>9
  <1>10. m = n - 1
    BY <1>5
  <1> HIDE DEF T, U
  <1>20. /\ n = Len(list) + Len(ui) /\ m = n - 1
         /\ Within(Timeline', m, Timeline, n, f)
         /\ \A q \in 1..n : q # Len(list) + 1 => \E p \in 1..m : f[p] = q
         /\ \A p \in 1..m : Timeline'[p] = Timeline[f[p]]
    BY <1>5, <1>7, <1>8, <1>9, <1>10 DEF T, U, d
  <1>21. \E ff :
         /\ n = Len(list) + Len(ui) /\ m = n - 1
         /\ Within(Timeline', m, Timeline, n, ff)
         /\ \A q \in 1..n : q # Len(list) + 1 => \E p \in 1..m : ff[p] = q
         /\ \A p \in 1..m : Timeline'[p] = Timeline[ff[p]]
    BY <1>20
  <1> QED
    BY <1>5, <1>21

\* A removal: the runnable goes, and the first entry of the listener.
LEMMA RemoveLine ==
  ASSUME Types, ui # <<>>, ui' = Tail(ui), objects' = objects,
         Head(ui).op = "remove", NEW r \in 1..Len(list),
         list' \in Seq(Entry), Len(list') = Len(list) - 1,
         \A i \in 1..(Len(list) - 1) : list'[i] = IF i < r THEN list[i] ELSE list[i + 1]
  PROVE  \E m \in Nat, n \in Nat : \E f :
           /\ n = Len(list) + Len(ui) /\ m = n - 2
           /\ Within(Timeline', m, Timeline, n, f)
           /\ \A q \in 1..n : q # Len(list) + 1 /\ q # r => \E p \in 1..m : f[p] = q
           /\ \A p \in 1..m : f[p] # r /\ f[p] # Len(list) + 1
           /\ \A p \in 1..m : Timeline'[p] = Timeline[f[p]]
  <1> DEFINE n == Len(list) + Len(ui)
             d == Len(list) + 1
             m == Len(list') + Len(ui')
             f == SkipTwo(r, d, m)
             T == Timeline
             U == Timeline'
  <1>1. /\ list \in Seq(Entry) /\ ui \in Seq(Tasks) /\ ui' \in Seq(Tasks)
        /\ Len(list) \in Nat /\ Len(ui) \in Nat /\ Len(ui) >= 1 /\ Len(ui') = Len(ui) - 1
        /\ DOMAIN T = 1..(Len(list) + Len(ui))
        /\ \A p \in 1..Len(list) : T[p] = EntryItem(list[p])
        /\ T[Len(list) + 1] = TaskItem(Head(ui), objects)
        /\ \A i \in 1..Len(ui') : T[(Len(list) + i) + 1] = TaskItem(ui'[i], objects')
    BY HeadLine
  <1>2. /\ DOMAIN U = 1..(Len(list') + Len(ui'))
        /\ \A p \in 1..Len(list') : U[p] = EntryItem(list'[p])
        /\ \A i \in 1..Len(ui') : U[Len(list') + i] = TaskItem(ui'[i], objects')
    <2>1. list' \in Seq(Entry) /\ ui' \in Seq(Tasks) /\ list \in Seq(Entry)
      BY <1>1
    <2>2. DOMAIN list = 1..Len(list)
      BY <2>1, LenProperties
    <2> QED
      BY <2>1, <2>2, NextLine
  <1>3. T[d].op # "clear" /\ T[r].op # "clear"
    BY <1>1, TaskItemFacts, EntryItemFacts
  <1> HIDE DEF T, U
  <1>4. \A p \in 1..m : f[p] = IF p < r THEN p ELSE IF p + 1 < d THEN p + 1 ELSE p + 2
    BY DEF SkipTwo
  <1>5. /\ m \in Nat /\ n \in Nat /\ d \in 1..n /\ r \in 1..n /\ r < d /\ d = Len(list) + 1
        /\ m = Len(list') + Len(ui') /\ n = m + 2 /\ Len(list') = Len(list) - 1
    BY <1>1
  <1>6. DOMAIN U = 1..m /\ DOMAIN T = 1..n
    BY <1>1, <1>2
  <1>9. n = Len(list) + Len(ui) /\ f = SkipTwo(r, d, m)
    OBVIOUS
  <1> HIDE DEF f, n, m, d
  <1>7. ASSUME NEW p \in 1..m PROVE U[p] = T[f[p]]
    <2>1. CASE p < r
      <3>1. p \in 1..Len(list) /\ p \in 1..Len(list') /\ p \in 1..(Len(list) - 1)
        BY <2>1, <1>1, <1>5
      <3>2. f[p] = p /\ list'[p] = list[p]
        BY <2>1, <3>1, <1>4
      <3> QED
        BY <3>1, <3>2, <1>1, <1>2
    <2>2. CASE ~(p < r) /\ p < Len(list)
      <3>1. p + 1 \in 1..Len(list) /\ p \in 1..Len(list') /\ p \in 1..(Len(list) - 1) /\ p + 1 < d
        BY <2>2, <1>1, <1>5
      <3>2. f[p] = p + 1 /\ list'[p] = list[p + 1]
        BY <2>2, <3>1, <1>4
      <3> QED
        BY <3>1, <3>2, <1>1, <1>2
    <2>3. CASE ~(p < Len(list))
      <3>1. PICK i \in 1..Len(ui') : Len(list') + i = p /\ (Len(list) + i) + 1 = p + 2
        <4>1. /\ p - Len(list') \in 1..Len(ui') /\ Len(list') + (p - Len(list')) = p
              /\ (Len(list) + (p - Len(list'))) + 1 = p + 2
          BY <2>3, <1>1, <1>5
        <4> QED
          BY <4>1
      <3>2. ~(p < r) /\ ~(p + 1 < d)
        BY <2>3, <1>1, <1>5
      <3>3. f[p] = p + 2
        BY <3>2, <1>4
      <3> QED
        BY <3>1, <3>3, <1>1, <1>2
    <2> QED
      BY <2>1, <2>2, <2>3
  <1>8. /\ Within(U, m, T, n, f)
        /\ \A q \in 1..n : q # d /\ q # r => \E p \in 1..m : f[p] = q
        /\ \A p \in 1..m : f[p] # r /\ f[p] # d
    <2>1. \A p \in 1..m : LET q == SkipTwo(r, d, m)[p]
                         IN  U[p].op = T[q].op /\ U[p].who = T[q].who /\ U[p].attr = T[q].attr
      BY <1>7, <1>9
    <2>6. m \in Nat /\ n \in Nat /\ n = m + 2 /\ d \in 1..n /\ r \in 1..n /\ r < d
      BY <1>5
    <2>3. Within(U, m, T, n, SkipTwo(r, d, m))
      BY <2>1, <2>6, <1>3, <1>6, SkipTwoWithin
    <2>7. d \in 1..(m + 2) /\ r \in 1..(m + 2)
      BY <2>6
    <2>8. \A q \in 1..(m + 2) : q # d /\ q # r => \E p \in 1..m : SkipTwo(r, d, m)[p] = q
      BY <2>6, <2>7, SkipTwoOnto
    <2>4. \A q \in 1..n : q # d /\ q # r => \E p \in 1..m : SkipTwo(r, d, m)[p] = q
      BY <2>6, <2>8
    <2>5. \A p \in 1..m : f[p] # r /\ f[p] # d
      BY <1>4, <1>5
    <2> QED
      BY <2>3, <2>4, <2>5, <1>9
  <1>10. m = n - 2
    BY <1>5
  <1>20. /\ n = Len(list) + Len(ui) /\ m = n - 2
         /\ Within(Timeline', m, Timeline, n, f)
         /\ \A q \in 1..n : q # Len(list) + 1 /\ q # r => \E p \in 1..m : f[p] = q
         /\ \A p \in 1..m : f[p] # r /\ f[p] # Len(list) + 1
         /\ \A p \in 1..m : Timeline'[p] = Timeline[f[p]]
    BY <1>5, <1>7, <1>8, <1>9, <1>10 DEF T, U, d
  <1>21. \E ff :
         /\ n = Len(list) + Len(ui) /\ m = n - 2
         /\ Within(Timeline', m, Timeline, n, ff)
         /\ \A q \in 1..n : q # Len(list) + 1 /\ q # r => \E p \in 1..m : ff[p] = q
         /\ \A p \in 1..m : ff[p] # r /\ ff[p] # Len(list) + 1
         /\ \A p \in 1..m : Timeline'[p] = Timeline[ff[p]]
    BY <1>20
  <1>22. m \in Nat /\ n \in Nat
    BY <1>5
  <1> QED
    BY <1>21, <1>22

\* A change of status: the runnable goes, the first entry of the listener is changed.
LEMMA StatusLine ==
  ASSUME Types, ui # <<>>, ui' = Tail(ui), objects' = objects,
         Head(ui).op = "status", NEW g \in 1..Len(list),
         list' \in Seq(Entry), Len(list') = Len(list),
         \A i \in DOMAIN list \ {g} : list'[i] = list[i],
         list'[g].who = list[g].who
  PROVE  \E m \in Nat, n \in Nat : \E f :
           /\ n = Len(list) + Len(ui) /\ m = n - 1
           /\ Within(Timeline', m, Timeline, n, f)
           /\ \A q \in 1..n : q # Len(list) + 1 => \E p \in 1..m : f[p] = q
           /\ \A p \in 1..m : f[p] # Len(list) + 1
           /\ \A p \in 1..m : p # g => Timeline'[p] = Timeline[f[p]]
           /\ g \in 1..m /\ f[g] = g /\ Timeline'[g].status = list'[g].status
  <1> DEFINE n == Len(list) + Len(ui)
             d == Len(list) + 1
             m == Len(list) + Len(ui')
             f == Skip(d, m)
             T == Timeline
             U == Timeline'
  <1>1. /\ list \in Seq(Entry) /\ ui \in Seq(Tasks) /\ ui' \in Seq(Tasks)
        /\ Len(list) \in Nat /\ Len(ui) \in Nat /\ Len(ui) >= 1 /\ Len(ui') = Len(ui) - 1
        /\ DOMAIN T = 1..(Len(list) + Len(ui))
        /\ \A p \in 1..Len(list) : T[p] = EntryItem(list[p])
        /\ T[Len(list) + 1] = TaskItem(Head(ui), objects)
        /\ \A i \in 1..Len(ui') : T[(Len(list) + i) + 1] = TaskItem(ui'[i], objects')
    BY HeadLine
  <1>2. /\ DOMAIN U = 1..(Len(list') + Len(ui')) /\ DOMAIN list = 1..Len(list)
        /\ \A p \in 1..Len(list') : U[p] = EntryItem(list'[p])
        /\ \A i \in 1..Len(ui') : U[Len(list') + i] = TaskItem(ui'[i], objects')
    <2>1. list' \in Seq(Entry) /\ ui' \in Seq(Tasks) /\ list \in Seq(Entry)
      BY <1>1
    <2>2. DOMAIN list = 1..Len(list)
      BY <2>1, LenProperties
    <2> QED
      BY <2>1, <2>2, NextLine
  <1>3. T[d].op # "clear"
    BY <1>1, TaskItemFacts
  <1> HIDE DEF T, U
  <1>4. \A p \in 1..m : f[p] = IF p < d THEN p ELSE p + 1
    BY DEF Skip
  <1>5. /\ m \in Nat /\ n \in Nat /\ d \in 1..n /\ m = Len(list) + Len(ui') /\ n = m + 1
        /\ d = Len(list) + 1 /\ g \in 1..m /\ g < d /\ Len(list') = Len(list)
    BY <1>1
  <1>6. DOMAIN U = 1..m /\ DOMAIN T = 1..n
    BY <1>1, <1>2
  <1>12. n = Len(list) + Len(ui) /\ f = Skip(d, m)
    OBVIOUS
  <1> HIDE DEF f, n, m, d
  <1>7. ASSUME NEW p \in 1..m, p # g PROVE U[p] = T[f[p]]
    <2>1. CASE p <= Len(list)
      <3>1. p < d /\ p \in 1..Len(list) /\ p \in 1..Len(list')
        BY <2>1, <1>1, <1>5
      <3>2. f[p] = p /\ list'[p] = list[p]
        BY <3>1, <1>2, <1>4, <1>7
      <3> QED
        BY <3>1, <3>2, <1>1, <1>2
    <2>2. CASE ~(p <= Len(list))
      <3>1. PICK i \in 1..Len(ui') : Len(list) + i = p
        <4>1. p - Len(list) \in 1..Len(ui') /\ Len(list) + (p - Len(list)) = p
          BY <2>2, <1>1, <1>5
        <4> QED
          BY <4>1
      <3>2. ~(p < d)
        BY <2>2, <1>1, <1>5
      <3>3. f[p] = (Len(list) + i) + 1 /\ Len(list') + i = p
        BY <3>1, <3>2, <1>4, <1>5
      <3> QED
        BY <3>1, <3>3, <1>1, <1>2
    <2> QED
      BY <2>1, <2>2
  <1>8. f[g] = g /\ U[g] = EntryItem(list'[g]) /\ T[g] = EntryItem(list[g])
    BY <1>1, <1>2, <1>4, <1>5
  <1>9. U[g].op = T[g].op /\ U[g].who = T[g].who /\ U[g].attr = T[g].attr /\ U[g].status = list'[g].status
    BY <1>8, EntryItemFacts
  <1>10. \A p \in 1..m : U[p].op = T[f[p]].op /\ U[p].who = T[f[p]].who /\ U[p].attr = T[f[p]].attr
    BY <1>7, <1>8, <1>9
  <1>11. /\ Within(U, m, T, n, f)
         /\ \A q \in 1..n : q # d => \E p \in 1..m : f[p] = q
    <2>1. \A p \in 1..m : LET q == Skip(d, m)[p]
                         IN  U[p].op = T[q].op /\ U[p].who = T[q].who /\ U[p].attr = T[q].attr
      BY <1>10, <1>12
    <2>6. m \in Nat /\ n \in Nat /\ n = m + 1 /\ d \in 1..n
      BY <1>5
    <2>3. Within(U, m, T, n, Skip(d, m))
      BY <2>1, <2>6, <1>3, <1>6, SkipWithin
    <2>7. d \in 1..(m + 1)
      BY <2>6
    <2>8. \A q \in 1..(m + 1) : q # d => \E p \in 1..m : Skip(d, m)[p] = q
      BY <2>6, <2>7, SkipOnto
    <2>4. \A q \in 1..n : q # d => \E p \in 1..m : Skip(d, m)[p] = q
      BY <2>6, <2>8
    <2> QED
      BY <2>3, <2>4, <1>12
  <1>13. m = n - 1
    BY <1>5
  <1>14. ASSUME NEW p \in 1..m PROVE f[p] # Len(list) + 1
    <2>1. f[p] = IF p < d THEN p ELSE p + 1
      BY <1>4
    <2>2. p \in Nat /\ d \in Nat /\ d = Len(list) + 1
      BY <1>5
    <2> QED
      BY <2>1, <2>2
  <1>20. /\ n = Len(list) + Len(ui) /\ m = n - 1
         /\ Within(Timeline', m, Timeline, n, f)
         /\ \A q \in 1..n : q # Len(list) + 1 => \E p \in 1..m : f[p] = q
         /\ \A p \in 1..m : f[p] # Len(list) + 1
         /\ \A p \in 1..m : p # g => Timeline'[p] = Timeline[f[p]]
         /\ g \in 1..m /\ f[g] = g /\ Timeline'[g].status = list'[g].status
    BY <1>5, <1>7, <1>8, <1>9, <1>11, <1>12, <1>13, <1>14 DEF T, U, d
  <1>21. \E ff :
         /\ n = Len(list) + Len(ui) /\ m = n - 1
         /\ Within(Timeline', m, Timeline, n, ff)
         /\ \A q \in 1..n : q # Len(list) + 1 => \E p \in 1..m : ff[p] = q
         /\ \A p \in 1..m : ff[p] # Len(list) + 1
         /\ \A p \in 1..m : p # g => Timeline'[p] = Timeline[ff[p]]
         /\ g \in 1..m /\ ff[g] = g /\ Timeline'[g].status = list'[g].status
    BY <1>20
  <1> QED
    BY <1>5, <1>21

-----------------------------------------------------------------------------
(* The steps, seen from the screen.                                        *)
ListRuns ==
  /\ Running /\ ui # <<>> /\ ui' = Tail(ui)
  /\ UNCHANGED <<server, wire, conn, sessions, module, activity>>
  /\ \/ Head(ui).op = "clear" /\ RunClear
     \/ Head(ui).op = "add" /\ RunAdd(Head(ui).ref)
     \/ /\ Head(ui).op = "remove" /\ Head(ui).ref # NullListener
        /\ RunRemove(Head(ui).ref)
     \/ /\ Head(ui).op = "status" /\ GetUserById(objects[Head(ui).ref].who) # 0
        /\ RunStatus(Head(ui).ref, Head(ui).attr)
Hung ==
  /\ conn' = "closed" /\ toClient' = <<>> /\ UNCHANGED module
  /\ \/ UNCHANGED <<ui, list, app>>
     \/ app' = "crashed" /\ (ui' = ui \/ (ui # <<>> /\ ui' = Tail(ui)))
ScreenStep ==
  \/ Hung \/ Connect \/ CreateListenersModule \/ HandleMessage \/ ServerStep \/ ListRuns
  \/ UNCHANGED <<server, toClient, conn, module, ui, list, app>>

\* Every step is one of these.
LEMMA ScreenSteps ==
  ASSUME Types, [Next]_vars
  PROVE  ScreenStep
  <1>1. CASE Server
    BY <1>1, ServerSteps DEF ScreenStep
  <1>2. CASE ChooseFromMenu
    <2>1. CASE menu.pos \notin DOMAIN list
      <3>1. ui' = ui /\ Crash(Fault("listenerMenu", menu.shifted))
        BY <2>1, <1>2 DEF ChooseFromMenu
      <3> QED
        BY <3>1 DEF Crash, Hangup, Hung, ScreenStep
    <2>2. CASE menu.pos \in DOMAIN list
      BY <2>2, <1>2 DEF ChooseFromMenu, ScreenStep, activity
    <2> QED
      BY <2>1, <2>2
  <1>3. ASSUME NEW i \in DOMAIN list, OpenMenu(i) PROVE ScreenStep
    BY <1>3 DEF OpenMenu, ScreenStep, wire, activity
  <1>4. ASSUME NEW mute \in BOOLEAN, MuteRoom(mute) PROVE ScreenStep
    BY <1>4 DEF MuteRoom, ScreenStep, screen, activity
  <1>6. CASE ConnectionLost
    BY <1>6 DEF ConnectionLost, Hangup, Hung, ScreenStep, screen, activity
  <1>7. CASE RunPosted
    <2>1. RunStep
      BY <1>7, RunSteps
    <2>2. ASSUME NEW fault, Crash(fault) PROVE ScreenStep
      BY <2>1, <2>2 DEF RunStep, Crash, Hangup, Hung, ScreenStep
    <2> QED
      BY <2>1, <2>2 DEF RunStep, ListRuns, ScreenStep
  <1>8. CASE UNCHANGED vars
    BY <1>8 DEF vars, ScreenStep, wire, screen, activity
  <1> QED
    BY <1>1, <1>2, <1>3, <1>4, <1>6, <1>7, <1>8 DEF Next, User, ScreenStep

\* What is on the screen is taken from the entries and from the objects.
LEMMA RunsList ==
  ASSUME Types, ListRuns
  PROVE  \A i \in DOMAIN list' : \/ \E j \in DOMAIN list : list'[i].who = list[j].who
                                 \/ \E o \in DOMAIN objects : list'[i].who = objects[o].who
  <1>b. /\ list \in Seq(Entry) /\ Len(list) \in Nat /\ DOMAIN list = 1..Len(list) /\ ui # <<>>
    BY LenProperties DEF Types, ScreenTypes, ListRuns
  <1>h. /\ Head(ui).op \in {"add", "status"} => Head(ui).ref \in DOMAIN objects
        /\ Head(ui).ref # NullListener => Head(ui).ref \in DOMAIN objects
        /\ Head(ui).op = "status" => Head(ui).attr \in Attributes
    BY <1>b, HeadTask
  <1> DEFINE Result == \A i \in DOMAIN list' : \/ \E j \in DOMAIN list : list'[i].who = list[j].who
                                               \/ \E o \in DOMAIN objects : list'[i].who = objects[o].who
  <1>1. ASSUME RunClear PROVE Result
    BY <1>1 DEF RunClear
  <1>2. ASSUME NEW p \in DOMAIN objects, RunAdd(p) PROVE Result
    <2>1. /\ list' \in Seq(Entry) /\ Len(list') = Len(list) + 1
          /\ \A i \in DOMAIN list : list'[i] = list[i]
          /\ list'[Len(list) + 1] = objects[p]
      BY <1>2, AddFacts
    <2>2. DOMAIN list' = 1..(Len(list) + 1)
      BY <2>1, LenProperties
    <2> QED
      BY <2>1, <2>2, <1>b
  <1>3. ASSUME NEW p \in DOMAIN objects, RunRemove(p) PROVE Result
    <2> DEFINE g == GetUserById(objects[p].who)
    <2>1. /\ g = 0 => UNCHANGED <<list, menu>>
          /\ g # 0 => /\ g \in 1..Len(list)
                      /\ list' \in Seq(Entry) /\ Len(list') = Len(list) - 1 /\ Shift
                      /\ \A i \in 1..(Len(list) - 1) :
                           list'[i] = IF i < g THEN list[i] ELSE list[i + 1]
      BY <1>3, RemoveFacts
    <2> HIDE DEF g
    <2>2. CASE g = 0
      BY <2>1, <2>2
    <2>3. CASE g # 0
      <3>1. DOMAIN list' = 1..(Len(list) - 1)
        BY <2>1, <2>3, LenProperties
      <3>2. ASSUME NEW i \in DOMAIN list' PROVE \E j \in DOMAIN list : list'[i].who = list[j].who
        <4>1. i \in DOMAIN list /\ i + 1 \in DOMAIN list
          BY <3>1, <1>b
        <4> QED
          BY <4>1, <3>1, <2>1, <2>3
      <3> QED
        BY <3>2
    <2> QED
      BY <2>2, <2>3
  <1>4. ASSUME NEW p \in DOMAIN objects, NEW a \in Attributes, RunStatus(p, a),
               GetUserById(objects[p].who) # 0
        PROVE  Result
    <2> DEFINE g == GetUserById(objects[p].who)
    <2>1. /\ list' \in Seq(Entry) /\ Len(list') = Len(list)
          /\ g \in DOMAIN list
          /\ \A i \in DOMAIN list \ {g} : list'[i] = list[i]
          /\ list'[g].who = list[g].who
      BY <1>4, StatusFacts
    <2>2. DOMAIN list' = DOMAIN list
      BY <2>1, <1>b, LenProperties
    <2> HIDE DEF g
    <2> QED
      BY <2>1, <2>2
  <1> HIDE DEF Result
  <1>5. Result
    BY <1>1, <1>2, <1>3, <1>4, <1>h DEF ListRuns
  <1> QED
    BY <1>5 DEF Result

-----------------------------------------------------------------------------
(* The callers.  The ids are never used twice: nothing is about a caller   *)
(* before the message that it joined, and no list it is in is behind the   *)
(* message that it left.                                                   *)
Fresh(k) ==
  toClient[k].type = "userJoin" =>
    /\ \A l \in DOMAIN toClient : l < k => ~Mentions(toClient[l], toClient[k].who)
    /\ \A o \in DOMAIN objects : objects[o].who # toClient[k].who
    /\ \A i \in DOMAIN list : list[i].who # toClient[k].who
Gone(k) ==
  toClient[k].type = "userLeft" =>
    /\ toClient[k].who \notin voices
    /\ \A l \in DOMAIN toClient : k < l /\ toClient[l].type = "users"
         => toClient[k].who \notin DOMAIN toClient[l].map
Callers == \A k \in DOMAIN toClient : Fresh(k) /\ Gone(k)

\* Nobody joins, or somebody who was never mentioned.
LEMMA CallersKeep ==
  ASSUME Types, Callers, toClient' = toClient, objects' = objects,
         \A u \in called : u \in voices' => u \in voices,
         \A i \in DOMAIN list' : \/ \E j \in DOMAIN list : list'[i].who = list[j].who
                                 \/ \E o \in DOMAIN objects : list'[i].who = objects[o].who
  PROVE  Callers'
  <1> SUFFICES ASSUME NEW k \in DOMAIN toClient PROVE Fresh(k)' /\ Gone(k)'
    BY DEF Callers
  <1>1. Fresh(k) /\ Gone(k)
    BY DEF Callers
  <1>2. toClient[k].type = "userLeft" => toClient[k].who \in called
    <2>1. toClient \in Seq(Messages) /\ DOMAIN toClient = 1..Len(toClient)
      BY LenProperties DEF Types, WireTypes
    <2>2. toClient[k] \in Messages
      BY <2>1, ElementOfSeq
    <2>3. toClient[k].type = "userLeft" => toClient[k].who \in Voices /\ Mentions(toClient[k], toClient[k].who)
      BY <2>2, MessageFields DEF Mentions
    <2> QED
      BY <2>3 DEF Types, WireTypes
  <1>3. Fresh(k)'
    BY <1>1 DEF Fresh
  <1>4. Gone(k)'
    BY <1>1, <1>2 DEF Gone
  <1> QED
    BY <1>3, <1>4

\* A message is written: a caller that joins was never mentioned, one that leaves is gone.
LEMMA CallersAppend ==
  ASSUME Types, Callers, NEW m \in Messages, toClient' = Append(toClient, m),
         UNCHANGED <<objects, list>>,
         \A u \in called : u \in voices' => u \in voices,
         m.type = "userJoin" => m.who \notin called,
         m.type = "userLeft" => m.who \notin voices',
         m.type = "users" => DOMAIN m.map \subseteq voices
  PROVE  Callers'
  <1> DEFINE n == Len(toClient)
  <1>0. toClient \in Seq(Messages)
    BY DEF Types, WireTypes
  <1>1. /\ n \in Nat /\ DOMAIN toClient = 1..n /\ DOMAIN toClient' = 1..(n + 1)
        /\ \A k \in 1..n : toClient'[k] = toClient[k]
        /\ toClient'[n + 1] = m
    BY <1>0, AppendFacts
  <1> HIDE DEF n
  <1>2. \A k \in 1..n : toClient[k] \in Messages
    BY <1>0, <1>1, ElementOfSeq
  <1>3. \A k \in 1..n, u \in Voices : Mentions(toClient[k], u) => u \in called
    BY <1>1 DEF Types, WireTypes
  <1>4. /\ \A o \in DOMAIN objects : objects[o].who \in called
        /\ \A i \in DOMAIN list : list[i].who \in called
    BY DEF Types, ModuleTypes, ScreenTypes
  <1>5. ASSUME NEW k \in 1..n PROVE Fresh(k)' /\ Gone(k)'
    <2>1. Fresh(k) /\ Gone(k)
      BY <1>1 DEF Callers
    <2>2. toClient[k].type = "userLeft" => toClient[k].who \in called
      <3>1. toClient[k].type = "userLeft" => toClient[k].who \in Voices /\ Mentions(toClient[k], toClient[k].who)
        BY <1>2, MessageFields DEF Mentions
      <3> QED
        BY <3>1, <1>3
    <2>3. k \in 1..(n + 1) /\ toClient'[k] = toClient[k]
      BY <1>1
    <2>4. \A l \in 1..(n + 1) : l < k => l \in 1..n
      BY <1>1
    <2>5. Fresh(k)'
      BY <2>1, <2>3, <2>4, <1>1 DEF Fresh
    <2>6. \A l \in 1..(n + 1) : l \in 1..n \/ l = n + 1
      BY <1>1
    <2>7. Gone(k)'
      BY <2>1, <2>2, <2>3, <2>6, <1>1 DEF Gone
    <2> QED
      BY <2>5, <2>7
  <1>6. ASSUME NEW k, k = n + 1 PROVE Fresh(k)' /\ Gone(k)'
    <2>1. m.type = "userJoin" => m.who \in Voices
      BY MessageFields
    <2>2. \A l \in 1..(n + 1) : l < k => l \in 1..n
      BY <1>1, <1>6
    <2>3. toClient'[k] = m
      BY <1>1, <1>6
    <2>4. Fresh(k)'
      BY <2>1, <2>2, <2>3, <1>1, <1>3, <1>4 DEF Fresh
    <2>5. \A l \in 1..(n + 1) : ~(k < l)
      BY <1>1, <1>6
    <2>6. Gone(k)'
      BY <2>3, <2>5, <1>1 DEF Gone
    <2> QED
      BY <2>4, <2>6
  <1>8. \A l \in 1..(n + 1) : l \in 1..n \/ l = n + 1
    BY <1>1
  <1>9. ASSUME NEW k \in DOMAIN toClient' PROVE Fresh(k)' /\ Gone(k)'
    BY <1>1, <1>5, <1>6, <1>8
  <1> QED
    BY <1>9 DEF Callers

\* One message less: what it adds is of the callers it mentions.
LEMMA CallersPop ==
  ASSUME Types, Callers, HandleMessage
  PROVE  Callers'
  <1> DEFINE m == toClient[1]
  <1>1. /\ Len(toClient) \in Nat /\ Len(toClient) >= 1 /\ Head(toClient) = m /\ m \in Messages
        /\ DOMAIN toClient = 1..Len(toClient) /\ DOMAIN toClient' = 1..(Len(toClient) - 1)
        /\ \A k \in DOMAIN toClient' : k + 1 \in DOMAIN toClient /\ toClient'[k] = toClient[k + 1]
        /\ voices' = voices
        /\ m.type = "clear" => OnSharedObjectClear
        /\ m.type = "users" => OnGetCurrentUsers
        /\ m.type = "userJoin" => OnUserJoin
        /\ m.type = "userLeft" => OnUserLeft
        /\ m.type = "attribute" => OnAttribute
        /\ m.type = "roomMuted" => OnRoomMuted("roomMuted")
        /\ m.type = "muteStateCallback" => OnRoomMuted("muteStateCallback")
    BY HandleFacts
  <1>2. list' = list
    BY DEF HandleMessage, OnSharedObjectClear, OnGetCurrentUsers, OnUserJoin, OnUserLeft,
           OnAttribute, OnRoomMuted, Receive
  <1>0. objects \in Seq(Entry) /\ DOMAIN objects = 1..Len(objects) /\ Len(objects) \in Nat
    BY LenProperties DEF Types, ModuleTypes
  <1>3. \A o \in DOMAIN objects' : \/ o \in DOMAIN objects /\ objects'[o].who = objects[o].who
                                   \/ Mentions(m, objects'[o].who)
    <2>1. CASE m.type = "users"
      <3>1. objects' \in Seq(Entry) /\ \E order \in Seq(Voices) : ListRead(m.map, order)
        BY <2>1, <1>1, UsersFacts
      <3>2. PICK order \in Seq(Voices) : ListRead(m.map, order)
        BY <3>1
      <3>3. /\ DOMAIN order = 1..Len(order) /\ Len(order) \in Nat
            /\ \A i \in DOMAIN order : order[i] \in DOMAIN m.map
            /\ Len(objects') = Len(objects) + Len(order)
            /\ \A o \in DOMAIN objects : objects'[o] = objects[o]
            /\ \A i \in DOMAIN order :
                 objects'[Len(objects) + i] = [who |-> order[i], status |-> m.map[order[i]]]
        BY <3>2 DEF ListRead
      <3> SUFFICES ASSUME NEW o \in DOMAIN objects', o \notin DOMAIN objects
                   PROVE  Mentions(m, objects'[o].who)
        BY <3>3
      <3>4. DOMAIN objects' = 1..(Len(objects) + Len(order))
        BY <3>1, <3>3, LenProperties
      <3>5. o - Len(objects) \in DOMAIN order /\ Len(objects) + (o - Len(objects)) = o
        BY <3>3, <3>4, <1>0
      <3>6. PICK i \in DOMAIN order : Len(objects) + i = o
        BY <3>5
      <3>8. objects'[Len(objects) + i] = [who |-> order[i], status |-> m.map[order[i]]]
        BY <3>3
      <3>7. objects'[o].who = order[i]
        BY <3>6, <3>8
      <3> QED
        BY <3>3, <3>7, <2>1 DEF Mentions
    <2>2. CASE m.type = "userJoin"
      <3>1. /\ objects' \in Seq(Entry) /\ Len(objects') = Len(objects) + 1
            /\ objects'[Len(objects) + 1] = [who |-> m.who, status |-> m.status]
            /\ \A o \in DOMAIN objects : objects'[o] = objects[o]
        BY <2>2, <1>1, JoinFacts
      <3>2. DOMAIN objects' = 1..(Len(objects) + 1)
        BY <3>1, LenProperties
      <3>3. objects'[Len(objects) + 1].who = m.who
        BY <3>1
      <3>4. \A o \in 1..(Len(objects) + 1) : o \in DOMAIN objects \/ o = Len(objects) + 1
        BY <1>0
      <3> QED
        BY <3>1, <3>2, <3>3, <3>4, <2>2 DEF Mentions
    <2>3. CASE m.type = "attribute"
      <3>1. /\ objects' \in Seq(Entry) /\ Len(objects') = Len(objects)
            /\ \A o \in DOMAIN objects : objects'[o].who = objects[o].who
        BY <2>3, <1>1, AttributeFacts
      <3>2. DOMAIN objects' = DOMAIN objects
        BY <3>1, <1>0, LenProperties
      <3> QED
        BY <3>1, <3>2
    <2>4. CASE m.type \in {"clear", "roomMuted", "muteStateCallback", "userLeft"}
      <3>1. objects' = objects
        BY <2>4, <1>1 DEF OnSharedObjectClear, OnRoomMuted, OnUserLeft
      <3> QED
        BY <3>1
    <2> QED
      BY <2>1, <2>2, <2>3, <2>4, <1>1, MessageFields
  <1> HIDE DEF m
  <1>4. ASSUME NEW k \in DOMAIN toClient' PROVE Fresh(k)' /\ Gone(k)'
    <2>1. /\ k + 1 \in DOMAIN toClient /\ toClient'[k] = toClient[k + 1] /\ 1 \in DOMAIN toClient
          /\ 1 < k + 1
      BY <1>1
    <2>2. Fresh(k + 1) /\ Gone(k + 1)
      BY <2>1 DEF Callers
    <2>3. \A l \in DOMAIN toClient' : /\ l < k => l + 1 < k + 1
                                      /\ k < l => k + 1 < l + 1
      BY <1>1
    <2>4. ASSUME toClient[k + 1].type = "userJoin" PROVE ~Mentions(m, toClient[k + 1].who)
      BY <2>1, <2>2, <2>4 DEF Fresh, m
    <2>5. Fresh(k)'
      BY <2>1, <2>2, <2>3, <2>4, <1>1, <1>2, <1>3 DEF Fresh
    <2>6. Gone(k)'
      BY <2>1, <2>2, <2>3, <1>1 DEF Gone
    <2> QED
      BY <2>5, <2>6
  <1> QED
    BY <1>4 DEF Callers

\* The server says that a caller joined, or left, when it does.
LEMMA CallersServer ==
  ASSUME Types, Wire, Callers, ServerStep
  PROVE  Callers'
  <1>1. conn = "listening" /\ UNCHANGED <<objects, list>>
    BY ServerWire DEF ClientUnchanged, module, screen
  <1>0. /\ status \in [Voices -> Statuses] /\ voices \subseteq called /\ called \subseteq Voices
        /\ toClient \in Seq(Messages)
    BY DEF Types, ServerTypes, WireTypes
  <1>2. ASSUME NEW m \in Messages, Broadcast(m),
               \A u \in called : u \in voices' => u \in voices,
               m.type = "userJoin" => m.who \notin called,
               m.type = "userLeft" => m.who \notin voices',
               m.type # "users"
        PROVE  Callers'
    <2>1. CASE subscribed
      <3>1. toClient' = Append(toClient, m)
        BY <2>1, <1>2 DEF Broadcast
      <3> QED
        BY <3>1, <1>1, <1>2, CallersAppend
    <2>2. CASE ~subscribed
      <3>1. toClient' = toClient
        BY <2>2, <1>2 DEF Broadcast
      <3> QED
        BY <3>1, <1>1, <1>2, CallersKeep
    <2> QED
      BY <2>1, <2>2
  <1>3. CASE ConferenceChanges
    <2>1. ASSUME NEW u \in Voices \ called, Joins(u) PROVE Callers'
      <3> DEFINE m == [type |-> "userJoin", who |-> u, status |-> status[u]]
      <3>1. m \in Messages /\ m.type = "userJoin" /\ m.who = u
        BY <1>0, MessageForms
      <3>2. Broadcast(m) /\ voices' = voices \cup {u}
        BY <2>1 DEF Joins
      <3> HIDE DEF m
      <3> QED
        BY <3>1, <3>2, <1>2, <2>1
    <2>2. ASSUME NEW u \in voices, Leave(u) PROVE Callers'
      <3> DEFINE m == [type |-> "userLeft", who |-> u]
      <3>1. m \in Messages /\ m.type = "userLeft" /\ m.who = u
        BY <1>0, MessageForms
      <3>2. Broadcast(m) /\ voices' = voices \ {u}
        BY <2>2 DEF Leave
      <3> HIDE DEF m
      <3> QED
        BY <3>1, <3>2, <1>2
    <2>3. ASSUME NEW u \in voices, NEW a \in Attributes, NEW v \in BOOLEAN, SetAttribute(u, a, v)
          PROVE  Callers'
      <3> DEFINE m == [type |-> "attribute", who |-> u, attr |-> a, value |-> v]
      <3>1. m \in Messages /\ m.type = "attribute"
        BY <1>0, MessageForms
      <3>2. Broadcast(m) /\ voices' = voices
        BY <2>3 DEF SetAttribute
      <3> HIDE DEF m
      <3> QED
        BY <3>1, <3>2, <1>2
    <2>4. ASSUME NEW v \in BOOLEAN, SetRoomMuted(v) PROVE Callers'
      <3> DEFINE m == [type |-> "muteStateCallback", value |-> v]
      <3>1. m \in Messages /\ m.type = "muteStateCallback"
        BY MessageForms
      <3>2. Broadcast(m) /\ voices' = voices
        BY <2>4 DEF SetRoomMuted
      <3> HIDE DEF m
      <3> QED
        BY <3>1, <3>2, <1>2
    <2>5. ASSUME UNCHANGED <<server, toClient>> PROVE Callers'
      <3>1. toClient' = toClient /\ voices' = voices
        BY <2>5 DEF server
      <3> QED
        BY <3>1, <1>1, CallersKeep
    <2> QED
      BY <2>1, <2>2, <2>3, <2>4, <2>5, <1>3 DEF ConferenceChanges
  <1>4. ASSUME NEW name, AnswerTo(name) \in Messages, toClient' = Append(toClient, AnswerTo(name)),
               name \in {"connectSO", "getMeetMeUsers", "isRoomMuted"}, voices' = voices
        PROVE  Callers'
    <2> DEFINE m == AnswerTo(name)
    <2>1. /\ m.type \in {"clear", "users", "roomMuted"}
          /\ m.type = "users" => DOMAIN m.map \subseteq voices
      BY <1>4, AnswerTypes
    <2>2. m \in Messages /\ toClient' = Append(toClient, m)
      BY <1>4
    <2> HIDE DEF m
    <2> QED
      BY <2>1, <2>2, <1>1, <1>4, CallersAppend
  <1> QED
    BY <1>3, <1>4, ServerWire

\* The ids are used once, in every step.
LEMMA CallersNext ==
  ASSUME Types, Wire, Callers, [Next]_vars
  PROVE  Callers'
  <1>1. CASE Hung
    BY <1>1 DEF Hung, Callers
  <1>2. CASE HandleMessage
    BY <1>2, CallersPop
  <1>3. CASE ServerStep
    BY <1>3, CallersServer
  <1>4. CASE ListRuns
    <2>1. toClient' = toClient /\ objects' = objects /\ voices' = voices
      BY <1>4 DEF ListRuns, wire, module, server
    <2> QED
      BY <2>1, <1>4, RunsList, CallersKeep
  <1>5. ASSUME UNCHANGED <<voices, toClient, objects, list>> PROVE Callers'
    BY <1>5, CallersKeep
  <1>6. CASE Connect
    BY <1>5, <1>6 DEF Connect, server, wire, module
  <1>7. CASE CreateListenersModule
    BY <1>5, <1>7 DEF CreateListenersModule, server, screen
  <1>8. CASE UNCHANGED <<server, toClient, conn, module, ui, list, app>>
    BY <1>5, <1>8 DEF server, module
  <1> QED
    BY <1>1, <1>2, <1>3, <1>4, <1>6, <1>7, <1>8, ScreenSteps DEF ScreenStep

-----------------------------------------------------------------------------
(* The invariant of the screen.  A caller of the map has its entry, now or *)
(* when the runnables have run, with what the module knows of it; one that *)
(* left has one until the runnable that removes it.                        *)
Nulls(q) ==
  \A i \in DOMAIN q : q[i].op = "remove" /\ q[i].ref = NullListener => q[i].listed = FALSE
Left(u) ==
  /\ u \notin voices
  /\ \A k \in DOMAIN toClient : toClient[k].type = "users" => u \notin DOMAIN toClient[k].map
Entries(T, u) ==
  Cardinality(Seen(T, u)) =
    (IF u \in DOMAIN listeners \/ Leaves(T, u) THEN 1 ELSE 0) + (IF u \in doubled THEN 1 ELSE 0)
OnLine(T, u) ==
  /\ Entries(T, u)
  /\ u \in DOMAIN listeners => ~Leaves(T, u)
  /\ Once(T, u)
  /\ Leaves(T, u) => Left(u)
  /\ \A a \in Attributes \ {"locked"} :
       u \in DOMAIN listeners => WillShow(T, u, a, objects[listeners[u]].status[a])
Screen ==
  /\ Nulls(ui)
  /\ Running => Backed(Timeline)
  /\ conn = "joining" => Cleared(Timeline)
  /\ conn = "listening" => \A u \in Voices : OnLine(Timeline, u)

\* The line of the list and of the runnables.
LEMMA TimelineFacts ==
  ASSUME Types
  PROVE  /\ list \in Seq(Entry) /\ ui \in Seq(Tasks) /\ Len(list) \in Nat /\ Len(ui) \in Nat
         /\ DOMAIN list = 1..Len(list) /\ DOMAIN ui = 1..Len(ui)
         /\ DOMAIN Timeline = 1..(Len(list) + Len(ui))
         /\ \A p \in 1..Len(list) : Timeline[p] = EntryItem(list[p])
         /\ \A i \in 1..Len(ui) : Timeline[Len(list) + i] = TaskItem(ui[i], objects)
  <1>1. list \in Seq(Entry) /\ ui \in Seq(Tasks)
    BY DEF Types, ScreenTypes
  <1>2. /\ Len(list) \in Nat /\ Len(ui) \in Nat
        /\ DOMAIN list = 1..Len(list) /\ DOMAIN ui = 1..Len(ui)
        /\ DOMAIN Line(list, ui, objects) = 1..(Len(list) + Len(ui))
        /\ \A p \in 1..Len(list) : Line(list, ui, objects)[p] = EntryItem(list[p])
        /\ \A i \in 1..Len(ui) : Line(list, ui, objects)[Len(list) + i] = TaskItem(ui[i], objects)
    BY <1>1, LineFacts
  <1> QED
    BY <1>1, <1>2 DEF Timeline

\* What the runnables refer to.
LEMMA TaskRefs ==
  ASSUME Types, NEW i \in 1..Len(ui)
  PROVE  /\ ui[i].ref \in DOMAIN objects \/ ui[i].ref = NullListener
         /\ ui[i].op \in {"add", "status"} => ui[i].ref \in DOMAIN objects
         /\ ui[i].ref \in DOMAIN objects => ui[i].ref # NullListener
         /\ ui[i].op \in {"clear", "add", "remove", "status"}
         /\ ui[i].op = "status" => ui[i].attr \in Attributes \ {"locked"}
  <1>1. ui \in Seq(Tasks) /\ i \in DOMAIN ui
    BY TimelineFacts
  <1>2. ui[i] \in Tasks
    BY <1>1, ElementOfSeq
  <1>3. ui[i].op \in {"clear", "add", "remove", "status"}
    BY <1>2 DEF Tasks
  <1>4. /\ ui[i].ref \in DOMAIN objects \cup {NullListener}
        /\ ui[i].op \in {"add", "status"} => ui[i].ref # NullListener
        /\ ui[i].op = "status" => ui[i].attr \in Attributes \ {"locked"}
    BY <1>1 DEF Types, ScreenTypes
  <1>5. NullListener \notin DOMAIN objects
    BY LenProperties DEF Types, ModuleTypes, NullListener
  <1> QED
    BY <1>3, <1>4, <1>5

\* What an item is about.
LEMMA ItemSource ==
  ASSUME Types, NEW p \in DOMAIN Timeline, Timeline[p].op \in {"add", "remove", "status"}
  PROVE  \/ \E i \in DOMAIN list : Timeline[p].who = list[i].who
         \/ \E o \in DOMAIN objects : Timeline[p].who = objects[o].who
  <1>1. /\ Len(list) \in Nat /\ Len(ui) \in Nat /\ DOMAIN list = 1..Len(list)
        /\ DOMAIN Timeline = 1..(Len(list) + Len(ui))
        /\ \A q \in 1..Len(list) : Timeline[q] = EntryItem(list[q])
        /\ \A i \in 1..Len(ui) : Timeline[Len(list) + i] = TaskItem(ui[i], objects)
    BY TimelineFacts
  <1>2. CASE p \in 1..Len(list)
    BY <1>1, <1>2, EntryItemFacts
  <1>3. CASE p \notin 1..Len(list)
    <2>1. p - Len(list) \in 1..Len(ui) /\ Len(list) + (p - Len(list)) = p
      BY <1>1, <1>3
    <2>2. PICK i \in 1..Len(ui) : Len(list) + i = p
      BY <2>1
    <2>3. Timeline[p] = TaskItem(ui[i], objects)
      BY <2>2, <1>1
    <2>4. ui[i].ref \in DOMAIN objects
      <3>1. CASE ui[i].ref = NullListener
        <4>1. TaskItem(ui[i], objects).op \in {"clear", "nothing"}
          BY <3>1, TaskItemFacts
        <4> QED
          BY <4>1, <2>3
      <3> QED
        BY <3>1, TaskRefs
    <2>5. Timeline[p].who = objects[ui[i].ref].who
      BY <2>3, <2>4, TaskRefs, TaskItemFacts
    <2> QED
      BY <2>4, <2>5
  <1> QED
    BY <1>2, <1>3

LEMMA ItemCalled ==
  ASSUME Types, NEW p \in DOMAIN Timeline, Timeline[p].op \in {"add", "remove", "status"}
  PROVE  Timeline[p].who \in called
  BY ItemSource DEF Types, ModuleTypes, ScreenTypes

\* Runnables are posted, and objects changed, but not whose they are.
LEMMA MoreLine ==
  ASSUME Types, list' = list, ui' \in Seq(Tasks), Len(ui') >= Len(ui),
         \A i \in DOMAIN ui : ui'[i] = ui[i],
         \A o \in DOMAIN objects : objects'[o].who = objects[o].who
  PROVE  LET n == Len(list) + Len(ui)
             m == Len(list) + Len(ui')
         IN  /\ Longer(Timeline, n, Timeline', m)
             /\ \A p \in (n + 1)..m :
                  /\ p - Len(list) \in (Len(ui) + 1)..Len(ui')
                  /\ Timeline'[p] = TaskItem(ui'[p - Len(list)], objects')
             /\ \A p \in 1..n :
                  \/ Timeline'[p].status = Timeline[p].status
                  \/ \E o \in DOMAIN objects :
                       /\ Timeline[p].who = objects[o].who
                       /\ Timeline[p].status = objects[o].status
                       /\ Timeline'[p].status = objects'[o].status
  <1> DEFINE n == Len(list) + Len(ui)
             m == Len(list) + Len(ui')
             T == Timeline
             U == Timeline'
  <1>1. /\ list \in Seq(Entry) /\ Len(list) \in Nat /\ Len(ui) \in Nat
        /\ DOMAIN list = 1..Len(list) /\ DOMAIN ui = 1..Len(ui)
        /\ DOMAIN T = 1..n
        /\ \A p \in 1..Len(list) : T[p] = EntryItem(list[p])
        /\ \A i \in 1..Len(ui) : T[Len(list) + i] = TaskItem(ui[i], objects)
    BY TimelineFacts
  <1>2. /\ Len(ui') \in Nat
        /\ DOMAIN U = 1..m
        /\ \A p \in 1..Len(list) : U[p] = EntryItem(list[p])
        /\ \A i \in 1..Len(ui') : U[Len(list) + i] = TaskItem(ui'[i], objects')
    <2>1. /\ Len(ui') \in Nat
          /\ DOMAIN Line(list, ui', objects') = 1..(Len(list) + Len(ui'))
          /\ \A p \in 1..Len(list) : Line(list, ui', objects')[p] = EntryItem(list[p])
          /\ \A i \in 1..Len(ui') : Line(list, ui', objects')[Len(list) + i] = TaskItem(ui'[i], objects')
      BY <1>1, LineFacts
    <2> QED
      BY <2>1 DEF Timeline
  <1> HIDE DEF T, U
  <1>3. n \in Nat /\ m \in Nat /\ n <= m
    BY <1>1, <1>2
  <1>4. ASSUME NEW p \in 1..n
        PROVE  /\ T[p].op = U[p].op /\ T[p].who = U[p].who /\ T[p].attr = U[p].attr
               /\ \/ U[p].status = T[p].status
                  \/ \E o \in DOMAIN objects :
                       /\ T[p].who = objects[o].who
                       /\ T[p].status = objects[o].status
                       /\ U[p].status = objects'[o].status
    <2>1. CASE p \in 1..Len(list)
      BY <2>1, <1>1, <1>2
    <2>2. CASE p \notin 1..Len(list)
      <3>1. p - Len(list) \in 1..Len(ui) /\ Len(list) + (p - Len(list)) = p
        BY <1>1, <2>2
      <3>2. PICK i \in 1..Len(ui) : Len(list) + i = p
        BY <3>1
      <3>3. i \in 1..Len(ui') /\ ui'[i] = ui[i]
        BY <1>1, <1>2
      <3>4. T[p] = TaskItem(ui[i], objects) /\ U[p] = TaskItem(ui[i], objects')
        BY <3>2, <3>3, <1>1, <1>2
      <3>5. CASE ui[i].ref = NullListener
        BY <3>4, <3>5 DEF TaskItem
      <3>6. CASE ui[i].ref \in DOMAIN objects
        <4>1. ui[i].ref # NullListener /\ objects'[ui[i].ref].who = objects[ui[i].ref].who
          BY <3>6, TaskRefs
        <4>2. T[p].op = U[p].op /\ T[p].who = U[p].who /\ T[p].attr = U[p].attr
          BY <3>4, <4>1 DEF TaskItem
        <4>3. /\ T[p].who = objects[ui[i].ref].who
              /\ T[p].status = objects[ui[i].ref].status
              /\ U[p].status = objects'[ui[i].ref].status
          BY <3>4, <4>1 DEF TaskItem
        <4> QED
          BY <4>2, <4>3, <3>6
      <3> QED
        BY <3>5, <3>6, TaskRefs
    <2> QED
      BY <2>1, <2>2
  <1>5. ASSUME NEW p \in (n + 1)..m
        PROVE  /\ p - Len(list) \in (Len(ui) + 1)..Len(ui')
               /\ U[p] = TaskItem(ui'[p - Len(list)], objects')
    <2>1. /\ p - Len(list) \in (Len(ui) + 1)..Len(ui') /\ p - Len(list) \in 1..Len(ui')
          /\ Len(list) + (p - Len(list)) = p
      BY <1>1, <1>2
    <2>2. U[Len(list) + (p - Len(list))] = TaskItem(ui'[p - Len(list)], objects')
      BY <2>1, <1>2
    <2> QED
      BY <2>1, <2>2
  <1> HIDE DEF n, m
  <1>6. Longer(T, n, U, m)
    BY <1>1, <1>2, <1>3, <1>4 DEF Longer
  <1> QED
    BY <1>4, <1>5, <1>6 DEF n, m, T, U

\* A caller that left stays away.
LEMMA LeftPop ==
  ASSUME Types, HandleMessage, NEW u, Left(u)
  PROVE  Left(u)'
  BY HandleFacts DEF Left

\* The server writes no list with a caller that left.
LEMMA LeftServer ==
  ASSUME Types, Wire, ServerStep, NEW u \in called, Left(u)
  PROVE  Left(u)'
  <1>0. /\ voices \subseteq called /\ called \subseteq Voices /\ status \in [Voices -> Statuses]
        /\ toClient \in Seq(Messages)
    BY DEF Types, ServerTypes, WireTypes
  <1>1. u \notin voices'
    <2>1. CASE ConferenceChanges
      <3>1. \/ \E w \in Voices \ called : voices' = voices \cup {w}
            \/ voices' \subseteq voices
        BY <2>1 DEF ConferenceChanges, Joins, Leave, SetAttribute, SetRoomMuted, server
      <3> QED
        BY <3>1 DEF Left
    <2>2. CASE voices' = voices
      BY <2>2 DEF Left
    <2> QED
      BY <2>1, <2>2, ServerWire
  <1>2. ASSUME NEW m \in Messages, toClient' = Append(toClient, m),
               m.type = "users" => DOMAIN m.map \subseteq voices
        PROVE  Left(u)'
    <2>1. /\ DOMAIN toClient = 1..Len(toClient) /\ DOMAIN toClient' = 1..(Len(toClient) + 1)
          /\ Len(toClient) \in Nat
          /\ \A k \in 1..Len(toClient) : toClient'[k] = toClient[k]
          /\ toClient'[Len(toClient) + 1] = m
      BY <1>0, <1>2, AppendFacts
    <2>2. \A k \in 1..(Len(toClient) + 1) : k \in 1..Len(toClient) \/ k = Len(toClient) + 1
      BY <2>1
    <2> QED
      BY <1>1, <1>2, <2>1, <2>2 DEF Left
  <1>3. CASE toClient' = toClient
    BY <1>1, <1>3 DEF Left
  <1>4. CASE ConferenceChanges
    <2>1. ServerTypes
      BY DEF Types
    <2>2. \/ toClient' = toClient
          \/ \E m \in Messages : toClient' = Append(toClient, m) /\ m.type # "users"
      BY <2>1, <1>0, <1>4, ConferenceMessages
    <2> QED
      BY <2>2, <1>2, <1>3
  <1>5. ASSUME NEW name \in {"connectSO", "getMeetMeUsers", "isRoomMuted"}, AnswerTo(name) \in Messages,
               toClient' = Append(toClient, AnswerTo(name))
        PROVE  Left(u)'
    <2>1. AnswerTo(name).type = "users" => DOMAIN AnswerTo(name).map \subseteq voices
      BY AnswerTypes
    <2> QED
      BY <2>1, <1>2, <1>5
  <1> QED
    BY <1>4, <1>5, ServerWire

\* The line and the module as they were.
LEMMA SameLine ==
  ASSUME UNCHANGED <<list, ui, objects>>
  PROVE  Timeline' = Timeline
  BY DEF Timeline

LEMMA OnLineSame ==
  ASSUME NEW T, NEW u, OnLine(T, u), UNCHANGED <<listeners, doubled, objects>>,
         Leaves(T, u) => Left(u)'
  PROVE  OnLine(T, u)'
  BY DEF OnLine, Entries

\* The screen and the map stay as they are.
LEMMA ScreenSame ==
  ASSUME Screen, UNCHANGED <<list, ui, objects, listeners, doubled, conn>>,
         Running' => Running,
         \A u \in Voices : Leaves(Timeline, u) /\ Left(u) => Left(u)'
  PROVE  Screen'
  <1>1. ASSUME NEW T, T = Timeline, NEW u \in Voices, OnLine(T, u) PROVE OnLine(T, u)'
    BY <1>1, OnLineSame DEF OnLine
  <1>2. ASSUME NEW T, T = Timeline PROVE Screen'
    <2>1. T = Timeline'
      BY <1>2, SameLine
    <2>2. Nulls(ui)' /\ (Running' => Backed(T)) /\ (conn' = "joining" => Cleared(T))
      BY <1>2 DEF Screen, Nulls
    <2>3. conn' = "listening" => \A u \in Voices : OnLine(T, u)'
      BY <1>1, <1>2 DEF Screen
    <2> QED
      BY <2>1, <2>2, <2>3 DEF Screen, Backed, Cleared, OnLine, Entries
  <1> QED
    BY <1>2

\* The server changes, or answers: the screen is not concerned.
LEMMA ServerScreen ==
  ASSUME Types, Wire, Screen, ServerStep
  PROVE  Screen'
  <1>1. UNCHANGED <<list, ui, objects, listeners, doubled, conn>> /\ (Running' => Running)
    BY ServerWire DEF ClientUnchanged, screen, module, activity, Running
  <1>2. ASSUME NEW u \in Voices, Leaves(Timeline, u), Left(u) PROVE Left(u)'
    <2>1. PICK p \in DOMAIN Timeline : Is(Timeline, p, "remove", u)
      BY <1>2 DEF Leaves
    <2>2. u \in called
      BY <2>1, ItemCalled DEF Is
    <2> QED
      BY <2>2, <1>2, LeftServer
  <1> QED
    BY <1>1, <1>2, ScreenSame

\* The screen is told to clear.
LEMMA ConnectScreen ==
  ASSUME Types, Screen, Connect
  PROVE  Screen'
  <1> DEFINE t == Task("clear", NullListener, "none")
             n == Len(list) + Len(ui)
  <1>1. ui' = Append(ui, t) /\ list' = list /\ objects' = objects /\ conn' = "joining" /\ Running
    BY DEF Connect, module
  <1>2. t \in Tasks /\ t.op = "clear" /\ t.ref = NullListener
    BY DEF Task, Tasks, NullListener, Types, ModuleTypes
  <1>3. ui \in Seq(Tasks) /\ DOMAIN ui = 1..Len(ui) /\ Len(ui) \in Nat /\ Len(list) \in Nat
    BY TimelineFacts
  <1> HIDE DEF t
  <1>4. /\ ui' \in Seq(Tasks) /\ Len(ui') = Len(ui) + 1
        /\ DOMAIN ui' = 1..(Len(ui) + 1)
        /\ \A i \in 1..Len(ui) : ui'[i] = ui[i]
        /\ ui'[Len(ui) + 1] = t
    BY <1>1, <1>2, <1>3, AppendFacts
  <1>5. Len(ui') >= Len(ui) /\ (\A i \in DOMAIN ui : ui'[i] = ui[i])
        /\ \A o \in DOMAIN objects : objects'[o].who = objects[o].who
    BY <1>1, <1>3, <1>4
  <1>6. ASSUME NEW T, T = Timeline, NEW U, U = Timeline' PROVE Backed(U) /\ Cleared(U)
    <2>1. /\ Longer(T, n, U, Len(list) + Len(ui'))
          /\ \A p \in (n + 1)..(Len(list) + Len(ui')) : U[p] = TaskItem(ui'[p - Len(list)], objects')
      BY <1>1, <1>4, <1>5, <1>6, MoreLine
    <2>2. Len(list) + Len(ui') = n + 1 /\ n + 1 \in (n + 1)..(n + 1) /\ (n + 1) - Len(list) = Len(ui) + 1
          /\ n \in Nat
      BY <1>3, <1>4
    <2>3. U[n + 1] = TaskItem(t, objects')
      BY <2>1, <2>2, <1>4
    <2>4. U[n + 1].op = "clear"
      BY <2>3, <1>2, TaskItemFacts
    <2> HIDE DEF n
    <2>5. Longer(T, n, U, n + 1)
      BY <2>1, <2>2
    <2>6. Cleared(U)
      BY <2>4, <2>5, LongerCleared
    <2>7. Backed(T)
      BY <1>1, <1>6 DEF Screen
    <2>8. \A i \in (n + 1)..(n + 1) : U[i].op # "status"
      BY <2>2, <2>4
    <2>9. Backed(U)
      BY <2>5, <2>7, <2>8, LongerBacked
    <2> QED
      BY <2>6, <2>9
  <1>7. Nulls(ui')
    <2>1. \A i \in 1..(Len(ui) + 1) : i \in 1..Len(ui) \/ i = Len(ui) + 1
      BY <1>3
    <2>2. Nulls(ui)
      BY DEF Screen
    <2> QED
      BY <2>1, <2>2, <1>2, <1>3, <1>4 DEF Nulls
  <1> QED
    BY <1>1, <1>6, <1>7 DEF Screen

\* A new module, which knows nothing: what is on the line will be cleared.
LEMMA CreateScreen ==
  ASSUME Types, Screen, CreateListenersModule
  PROVE  Screen'
  <1>1. /\ UNCHANGED <<list, ui, objects>> /\ conn = "joining" /\ conn' = "listening"
        /\ DOMAIN listeners' = {} /\ doubled' = {} /\ Running
    BY DEF CreateListenersModule, screen, NewListeners, NoList
  <1>2. ASSUME NEW T, T = Timeline PROVE Nulls(ui') /\ Backed(T) /\ \A u \in Voices : OnLine(T, u)'
    <2>1. Nulls(ui) /\ Backed(T) /\ Cleared(T)
      BY <1>1, <1>2 DEF Screen
    <2>2. ASSUME NEW u \in Voices PROVE OnLine(T, u)'
      <3>1. Seen(T, u) = {} /\ ~Leaves(T, u) /\ Once(T, u)
        BY <2>1 DEF Cleared, Seen, Leaves, Once, Is
      <3>2. Cardinality(Seen(T, u)) = 0
        BY <3>1, FS_EmptySet
      <3> QED
        BY <3>1, <3>2, <1>1 DEF OnLine, Entries
    <2> QED
      BY <2>1, <2>2, <1>1
  <1>3. Timeline' = Timeline
    BY <1>1, SameLine
  <1>4. ASSUME NEW T, T = Timeline' PROVE Screen'
    <2>1. Nulls(ui') /\ Backed(T) /\ \A u \in Voices : OnLine(T, u)'
      BY <1>2, <1>3, <1>4
    <2> QED
      BY <2>1, <1>1, <1>4 DEF Screen, Backed, OnLine, Entries
  <1> QED
    BY <1>4

\* A message is handled: what the invariant says of the listeners.
Screened(T) == Nulls(ui) /\ Backed(T) /\ \A u \in Voices : OnLine(T, u)

\* A message comes while the module listens.
LEMMA HandleScreened ==
  ASSUME Types, Wire, Screen, HandleMessage
  PROVE  /\ conn = "listening" /\ conn' = conn /\ Running /\ list' = list
         /\ Screened(Timeline)
  <1>1. Running /\ list' = list /\ conn' = conn
    BY DEF HandleMessage, OnSharedObjectClear, OnGetCurrentUsers, OnUserJoin, OnUserLeft,
           OnAttribute, OnRoomMuted, Receive
  <1>2. conn = "listening"
    <2>1. toClient # <<>>
      BY HandleFacts
    <2> QED
      BY <2>1 DEF Wire
  <1> QED
    BY <1>1, <1>2 DEF Screen, Screened

\* After the message, too.
LEMMA ScreenedScreen ==
  ASSUME conn = "listening", conn' = conn, NEW T, T = Timeline', Screened(T)'
  PROVE  Screen'
  BY DEF Screen, Screened, OnLine, Entries, Backed

\* One runnable is posted.
LEMMA PostLine ==
  ASSUME Types, list' = list, NEW t \in Tasks, ui' = Append(ui, t),
         \A o \in DOMAIN objects : objects'[o].who = objects[o].who
  PROVE  /\ \E n \in Nat :
              /\ Longer(Timeline, n, Timeline', n + 1)
              /\ Timeline'[n + 1] = TaskItem(t, objects')
              /\ \A p \in 1..n :
                   \/ Timeline'[p].status = Timeline[p].status
                   \/ \E o \in DOMAIN objects :
                        /\ Timeline[p].who = objects[o].who
                        /\ Timeline[p].status = objects[o].status
                        /\ Timeline'[p].status = objects'[o].status
         /\ Nulls(ui) /\ (t.op = "remove" /\ t.ref = NullListener => t.listed = FALSE) => Nulls(ui')
  <1> DEFINE n == Len(list) + Len(ui)
             m == Len(list) + Len(ui')
  <1>3. ui \in Seq(Tasks) /\ DOMAIN ui = 1..Len(ui) /\ Len(ui) \in Nat /\ Len(list) \in Nat
    BY TimelineFacts
  <1>4. /\ ui' \in Seq(Tasks) /\ Len(ui') = Len(ui) + 1
        /\ DOMAIN ui' = 1..(Len(ui) + 1)
        /\ \A i \in 1..Len(ui) : ui'[i] = ui[i]
        /\ ui'[Len(ui) + 1] = t
    BY <1>3, AppendFacts
  <1>5. Len(ui') >= Len(ui) /\ (\A i \in DOMAIN ui : ui'[i] = ui[i])
    BY <1>3, <1>4
  <1>6. /\ Longer(Timeline, n, Timeline', m)
        /\ \A p \in (n + 1)..m : Timeline'[p] = TaskItem(ui'[p - Len(list)], objects')
        /\ \A p \in 1..n :
             \/ Timeline'[p].status = Timeline[p].status
             \/ \E o \in DOMAIN objects :
                  /\ Timeline[p].who = objects[o].who
                  /\ Timeline[p].status = objects[o].status
                  /\ Timeline'[p].status = objects'[o].status
    BY <1>4, <1>5, MoreLine
  <1>7. m = n + 1 /\ n + 1 \in (n + 1)..m /\ (n + 1) - Len(list) = Len(ui) + 1 /\ n \in Nat
    BY <1>3, <1>4
  <1>8. Timeline'[n + 1] = TaskItem(t, objects')
    BY <1>4, <1>6, <1>7
  <1>9. Nulls(ui) /\ (t.op = "remove" /\ t.ref = NullListener => t.listed = FALSE) => Nulls(ui')
    <2>1. \A i \in 1..(Len(ui) + 1) : i \in 1..Len(ui) \/ i = Len(ui) + 1
      BY <1>3
    <2> QED
      BY <2>1, <1>3, <1>4 DEF Nulls
  <1> HIDE DEF n, m
  <1>10. Longer(Timeline, n, Timeline', n + 1)
    BY <1>6, <1>7
  <1> QED
    BY <1>6, <1>7, <1>8, <1>9, <1>10

\* A listener that nothing posted is about.
LEMMA OtherOnLine ==
  ASSUME NEW T, NEW n, NEW U, NEW m, Longer(T, n, U, m), \A p \in (n + 1)..m : U[p].op # "clear",
         NEW u, \A p \in (n + 1)..m : U[p].op \in {"add", "remove", "status"} => U[p].who # u,
         OnLine(T, u), Left(u) => Left(u)',
         u \in DOMAIN listeners' <=> u \in DOMAIN listeners, u \in doubled' <=> u \in doubled,
         u \in DOMAIN listeners => \A a \in Attributes \ {"locked"} :
            objects'[listeners'[u]].status[a] = objects[listeners[u]].status[a],
         \A p \in 1..n : T[p].op \in {"add", "status"} /\ T[p].who = u =>
            \A a \in Attributes \ {"locked"} : U[p].status[a] = T[p].status[a]
  PROVE  OnLine(U, u)'
  <1>1. \A p \in (n + 1)..m : ~Is(U, p, "add", u) /\ ~Is(U, p, "remove", u) /\ ~Is(U, p, "status", u)
    BY DEF Is
  <1>2. /\ Cardinality(Seen(U, u)) = Cardinality(Seen(T, u))
        /\ Leaves(U, u) <=> Leaves(T, u)
        /\ Once(T, u) => Once(U, u)
    BY <1>1, LongerOther
  <1>3. /\ Entries(T, u) /\ Once(T, u)
        /\ u \in DOMAIN listeners => ~Leaves(T, u)
        /\ Leaves(T, u) => Left(u)
        /\ \A a \in Attributes \ {"locked"} :
             u \in DOMAIN listeners => WillShow(T, u, a, objects[listeners[u]].status[a])
    BY DEF OnLine
  <1>4. ASSUME NEW a \in Attributes \ {"locked"}, u \in DOMAIN listeners'
        PROVE  WillShow(U, u, a, objects'[listeners'[u]].status[a])
    <2>1. ASSUME NEW v, v = objects[listeners[u]].status[a] PROVE WillShow(U, u, a, v)
      <3>1. WillShow(T, u, a, v)
        BY <1>3, <1>4, <2>1
      <3>2. \A p \in 1..n : T[p].op \in {"add", "status"} /\ T[p].who = u => U[p].status[a] = T[p].status[a]
        BY <1>4
      <3> QED
        BY <3>1, <3>2, <1>1, LongerShow
    <2> QED
      BY <2>1, <1>4
  <1>5. Entries(U, u)'
    BY <1>2, <1>3 DEF Entries
  <1> QED
    BY <1>2, <1>3, <1>4, <1>5 DEF OnLine

\* A listener without entries.
LEMMA SeenEmpty ==
  ASSUME NEW T, NEW n \in Nat, DOMAIN T = 1..n, NEW u
  PROVE  Seen(T, u) = {} <=> Cardinality(Seen(T, u)) = 0
  <1>1. IsFiniteSet(1..n)
    BY FS_Interval
  <1>2. Seen(T, u) \in SUBSET (1..n)
    BY DEF Seen
  <1>3. IsFiniteSet(Seen(T, u))
    BY <1>1, <1>2, FS_Subset
  <1> QED
    BY <1>3, FS_EmptySet

\* userJoin: the first addition of the listener.
LEMMA JoinScreened ==
  ASSUME Follow, Callers, Screen, HandleMessage, toClient[1].type = "userJoin",
         NEW T, T = Timeline, NEW U, U = Timeline', NEW w, w = toClient[1].who
  PROVE  Screened(U)'
  <1> DEFINE m == toClient[1]
             ref == Len(objects) + 1
             t == Task("add", ref, "none")
  <1>0. Types /\ Wire
    BY DEF Follow
  <1>1. /\ conn = "listening" /\ list' = list /\ Nulls(ui) /\ Backed(T)
        /\ \A u \in Voices : OnLine(T, u)
    BY <1>0, HandleScreened DEF Screened
  <1>2. /\ Head(toClient) = m /\ OnUserJoin /\ 1 \in DOMAIN toClient
    BY <1>0, HandleFacts
  <1>3. /\ w \in Voices /\ m.status \in Statuses
        /\ UNCHANGED <<received, doubled>>
        /\ objects'[ref] = [who |-> w, status |-> m.status]
        /\ \A o \in DOMAIN objects : objects'[o] = objects[o]
        /\ DOMAIN listeners' = DOMAIN listeners \cup {w}
        /\ listeners'[w] = ref
        /\ \A v \in DOMAIN listeners \ {w} : listeners'[v] = listeners[v]
        /\ ui' = Append(ui, t)
    BY <1>0, <1>2, JoinFacts
  <1>4. /\ Len(objects) \in Nat /\ received \in BOOLEAN
        /\ \A u \in DOMAIN listeners : listeners[u] \in DOMAIN objects /\ objects[listeners[u]].who = u
    BY <1>0, LenProperties DEF Types, ModuleTypes
  <1>5. t \in Tasks /\ t.op = "add" /\ t.ref = ref /\ ref # NullListener
    BY <1>4 DEF Task, Tasks, NullListener
  <1>6. Fresh(1)
    BY <1>2 DEF Callers
  <1> HIDE DEF t
  <1>7. /\ \E n \in Nat : /\ Longer(T, n, U, n + 1)
                          /\ U[n + 1] = TaskItem(t, objects')
                          /\ \A p \in 1..n : \/ U[p].status = T[p].status
                                             \/ \E o \in DOMAIN objects :
                                                  /\ T[p].who = objects[o].who
                                                  /\ T[p].status = objects[o].status
                                                  /\ U[p].status = objects'[o].status
        /\ Nulls(ui) /\ (t.op = "remove" /\ t.ref = NullListener => t.listed = FALSE) => Nulls(ui')
    BY <1>0, <1>1, <1>3, <1>5, PostLine
  <1>8. PICK n \in Nat : /\ Longer(T, n, U, n + 1)
                         /\ U[n + 1] = TaskItem(t, objects')
                         /\ \A p \in 1..n : \/ U[p].status = T[p].status
                                            \/ \E o \in DOMAIN objects :
                                                 /\ T[p].who = objects[o].who
                                                 /\ T[p].status = objects[o].status
                                                 /\ U[p].status = objects'[o].status
    BY <1>7
  <1>9. \A p \in 1..n : U[p].status = T[p].status
    BY <1>3, <1>8
  <1>10. U[n + 1].op = "add" /\ U[n + 1].who = w /\ U[n + 1].status = m.status
    <2>1. TaskItem(t, objects').op = "add"
      BY <1>5, TaskItemFacts
    <2>2. TaskItem(t, objects').who = objects'[ref].who /\ TaskItem(t, objects').status = objects'[ref].status
      BY <1>5, TaskItemFacts
    <2>3. objects'[ref].who = w /\ objects'[ref].status = m.status
      BY <1>3
    <2> QED
      BY <2>1, <2>2, <2>3, <1>8
  <1>11. DOMAIN T = 1..n /\ DOMAIN U = 1..(n + 1)
    BY <1>8 DEF Longer
  <1>12. ASSUME NEW p \in 1..n, T[p].op \in {"add", "remove", "status"} PROVE T[p].who # w
    <2>1. /\ \A o \in DOMAIN objects : objects[o].who # w
          /\ \A i \in DOMAIN list : list[i].who # w
      BY <1>6 DEF Fresh
    <2>2. \/ \E i \in DOMAIN list : T[p].who = list[i].who
          \/ \E o \in DOMAIN objects : T[p].who = objects[o].who
      BY <1>0, <1>11, <1>12, ItemSource
    <2> QED
      BY <2>1, <2>2
  <1>13. w \notin DOMAIN listeners
    BY <1>4, <1>6 DEF Fresh
  <1>14. Seen(T, w) = {} /\ ~Leaves(T, w)
    BY <1>11, <1>12 DEF Seen, Leaves, Is
  <1>15. w \notin doubled
    <2>1. Cardinality(Seen(T, w)) = 0
      BY <1>11, <1>14, SeenEmpty
    <2>2. Entries(T, w)
      BY <1>1, <1>3 DEF OnLine
    <2> QED
      BY <2>1, <2>2, <1>13, <1>14 DEF Entries
  <1>16. \A p \in (n + 1)..(n + 1) : p = n + 1
    OBVIOUS
  <1>17. \A p \in (n + 1)..(n + 1) : U[p].op = "add"
    BY <1>10, <1>16
  <1>a. \A p \in (n + 1)..(n + 1) : U[p].op # "clear"
    BY <1>17
  <1>b. objects'[ref].status = m.status
    BY <1>3
  <1> HIDE DEF ref, m
  <1>18. OnLine(U, w)'
    <2>1. \A p \in (n + 1)..(n + 1) : /\ Is(U, p, "add", w) => p = n + 1
                                      /\ ~Is(U, p, "remove", w)
      BY <1>16, <1>17 DEF Is
    <2>2. n + 1 \in (n + 1)..(n + 1) /\ Is(U, n + 1, "add", w)
      BY <1>10 DEF Is
    <2>3. /\ Cardinality(Seen(U, w)) = Cardinality(Seen(T, w)) + 1
          /\ Leaves(U, w) <=> Leaves(T, w)
          /\ ~Leaves(T, w) => Once(U, w)
          /\ \A a, v : Seen(T, w) = {} /\ U[n + 1].status[a] = v /\ (\A p \in 1..(n + 1) : ~Changes(U, p, w, a))
                        => WillShow(U, w, a, v)
      BY <2>1, <2>2, <1>8, <1>a, LongerAdd
    <2>4. Cardinality(Seen(T, w)) = 0
      BY <1>11, <1>14, SeenEmpty
    <2>5. Entries(U, w)'
      BY <2>3, <2>4, <1>3, <1>14, <1>15 DEF Entries
    <2>6. ASSUME NEW a PROVE \A p \in 1..(n + 1) : ~Changes(U, p, w, a)
      <3>1. ASSUME NEW p \in 1..(n + 1) PROVE ~(U[p].op = "status" /\ U[p].who = w)
        <4>1. CASE p \in 1..n
          <5>1. T[p].op = U[p].op /\ (T[p].op # "clear" => T[p].who = U[p].who)
            BY <4>1, <1>8 DEF Longer
          <5> QED
            BY <5>1, <4>1, <1>12
        <4>2. CASE p = n + 1
          BY <4>2, <1>10
        <4> QED
          BY <4>1, <4>2
      <3> QED
        BY <3>1 DEF Changes, Is
    <2>7. ASSUME NEW a PROVE WillShow(U, w, a, objects'[listeners'[w]].status[a])
      <3>1. WillShow(U, w, a, m.status[a])
        BY <2>3, <2>6, <1>10, <1>14
      <3> QED
        BY <3>1, <1>b, <1>3
    <2> QED
      BY <2>3, <2>5, <2>7, <1>14 DEF OnLine
  <1>19. ASSUME NEW u \in Voices, u # w PROVE OnLine(U, u)'
    <2>1. \A p \in (n + 1)..(n + 1) : U[p].who # u
      BY <1>10, <1>16, <1>19
    <2>2. OnLine(T, u) /\ (Left(u) => Left(u)')
      BY <1>0, <1>1, LeftPop
    <2>3. /\ u \in DOMAIN listeners' <=> u \in DOMAIN listeners
          /\ u \in doubled' <=> u \in doubled
      BY <1>3, <1>19
    <2>4. u \in DOMAIN listeners => \A a \in Attributes \ {"locked"} :
            objects'[listeners'[u]].status[a] = objects[listeners[u]].status[a]
      BY <1>3, <1>4, <1>19
    <2>5. \A p \in 1..n : T[p].op \in {"add", "status"} /\ T[p].who = u =>
            \A a \in Attributes \ {"locked"} : U[p].status[a] = T[p].status[a]
      BY <1>9
    <2>6. \A p \in (n + 1)..(n + 1) : U[p].op \in {"add", "remove", "status"} => U[p].who # u
      BY <2>1
    <2> QED
      BY <2>2, <2>3, <2>4, <2>5, <2>6, <1>8, <1>a, OtherOnLine
  <1>20. Backed(U)
    <2>1. \A i \in (n + 1)..(n + 1) : U[i].op # "status"
      BY <1>17
    <2> QED
      BY <2>1, <1>1, <1>8, LongerBacked
  <1> QED
    BY <1>1, <1>5, <1>7, <1>18, <1>19, <1>20 DEF Screened

\* userLeft: the only removal of the listener, or a null reference.
LEMMA LeftScreened ==
  ASSUME Follow, Callers, Screen, HandleMessage, toClient[1].type = "userLeft",
         NEW T, T = Timeline, NEW U, U = Timeline', NEW w, w = toClient[1].who
  PROVE  Screened(U)'
  <1> DEFINE m == toClient[1]
             t == Task("remove", IF w \in DOMAIN listeners THEN listeners[w] ELSE NullListener, "none")
  <1>0. Types /\ Wire
    BY DEF Follow
  <1>1. /\ conn = "listening" /\ list' = list /\ Nulls(ui) /\ Backed(T)
        /\ \A u \in Voices : OnLine(T, u)
    BY <1>0, HandleScreened DEF Screened
  <1>2. /\ Head(toClient) = m /\ OnUserLeft /\ 1 \in DOMAIN toClient
    BY <1>0, HandleFacts
  <1>3. /\ w \in Voices /\ UNCHANGED <<objects, received, doubled>>
        /\ DOMAIN listeners' = DOMAIN listeners \ {w}
        /\ \A v \in DOMAIN listeners \ {w} : listeners'[v] = listeners[v]
        /\ ui' = Append(ui, t)
    BY <1>0, <1>2, LeftFacts
  <1>4. /\ received \in BOOLEAN
        /\ \A u \in DOMAIN listeners : listeners[u] \in DOMAIN objects /\ objects[listeners[u]].who = u
        /\ \A o \in DOMAIN objects : o \in Nat /\ o # 0
    BY <1>0, LenProperties DEF Types, ModuleTypes
  <1>5. /\ t \in Tasks /\ t.op = "remove" /\ t.listed = received
        /\ w \in DOMAIN listeners => t.ref = listeners[w] /\ t.ref # NullListener
        /\ w \notin DOMAIN listeners => t.ref = NullListener
    BY <1>4 DEF Task, Tasks, NullListener
  <1>6. w \notin DOMAIN listeners => received = FALSE
    <2>1. Snapshot(1)
      BY <1>1, <1>2 DEF Follow, Channel
    <2>2. Present(1 - 1, w, "in")
      BY <2>1 DEF Snapshot
    <2>3. KnownIn(w, "in")
      BY <2>2 DEF Present, LastSays
    <2> QED
      BY <2>3, <1>4 DEF KnownIn
  <1> HIDE DEF t
  <1>7. /\ \E n \in Nat : Longer(T, n, U, n + 1) /\ U[n + 1] = TaskItem(t, objects')
                          /\ \A p \in 1..n : U[p].status = T[p].status
        /\ Nulls(ui')
    <2>1. \A o \in DOMAIN objects : objects'[o].who = objects[o].who
      BY <1>3
    <2>2. /\ \E n \in Nat : /\ Longer(T, n, U, n + 1)
                            /\ U[n + 1] = TaskItem(t, objects')
                            /\ \A p \in 1..n : \/ U[p].status = T[p].status
                                               \/ \E o \in DOMAIN objects :
                                                    /\ T[p].who = objects[o].who
                                                    /\ T[p].status = objects[o].status
                                                    /\ U[p].status = objects'[o].status
          /\ Nulls(ui) /\ (t.op = "remove" /\ t.ref = NullListener => t.listed = FALSE) => Nulls(ui')
      <3>1. list' = list /\ t \in Tasks /\ ui' = Append(ui, t)
        BY <1>1, <1>3, <1>5
      <3> QED
        BY <3>1, <2>1, <1>0, PostLine
    <2>3. Nulls(ui')
      BY <2>2, <1>1, <1>5, <1>6
    <2>4. PICK n \in Nat : /\ Longer(T, n, U, n + 1)
                           /\ U[n + 1] = TaskItem(t, objects')
                           /\ \A p \in 1..n : \/ U[p].status = T[p].status
                                              \/ \E o \in DOMAIN objects :
                                                   /\ T[p].who = objects[o].who
                                                   /\ T[p].status = objects[o].status
                                                   /\ U[p].status = objects'[o].status
      BY <2>2
    <2>5. \A p \in 1..n : U[p].status = T[p].status
      BY <2>4, <1>3
    <2> QED
      BY <2>3, <2>4, <2>5
  <1>8. PICK n \in Nat : /\ Longer(T, n, U, n + 1) /\ U[n + 1] = TaskItem(t, objects')
                         /\ \A p \in 1..n : U[p].status = T[p].status
    BY <1>7
  <1>10. /\ w \in DOMAIN listeners => Is(U, n + 1, "remove", w)
         /\ w \notin DOMAIN listeners => U[n + 1].op = "nothing"
    <2>1. CASE w \in DOMAIN listeners
      <3>1. TaskItem(t, objects').op = "remove"
        BY <2>1, <1>5, TaskItemFacts
      <3>2. TaskItem(t, objects').who = objects'[listeners[w]].who
        BY <2>1, <1>5, TaskItemFacts
      <3>3. objects'[listeners[w]].who = w
        BY <2>1, <1>3, <1>4
      <3> QED
        BY <2>1, <3>1, <3>2, <3>3, <1>8 DEF Is
    <2>2. CASE w \notin DOMAIN listeners
      BY <2>2, <1>5, <1>8, TaskItemFacts
    <2> QED
      BY <2>1, <2>2
  <1>11. U[n + 1].op \in {"remove", "nothing"}
    BY <1>10 DEF Is
  <1>16. \A p \in (n + 1)..(n + 1) : p = n + 1
    OBVIOUS
  <1>17. \A p \in (n + 1)..(n + 1) : U[p].op # "clear" /\ U[p].op # "status"
    BY <1>11, <1>16
  <1>18. ASSUME NEW u \in Voices, u # w \/ w \notin DOMAIN listeners PROVE OnLine(U, u)'
    <2>1. \A p \in (n + 1)..(n + 1) : U[p].op \in {"add", "remove", "status"} => U[p].who # u
      BY <1>10, <1>16, <1>18 DEF Is
    <2>2. OnLine(T, u) /\ (Left(u) => Left(u)')
      BY <1>0, <1>1, LeftPop
    <2>3. /\ u \in DOMAIN listeners' <=> u \in DOMAIN listeners
          /\ u \in doubled' <=> u \in doubled
      BY <1>3, <1>18
    <2>4. u \in DOMAIN listeners => \A a \in Attributes \ {"locked"} :
            objects'[listeners'[u]].status[a] = objects[listeners[u]].status[a]
      BY <1>3, <1>4, <1>18
    <2>5. \A p \in 1..n : T[p].op \in {"add", "status"} /\ T[p].who = u =>
            \A a \in Attributes \ {"locked"} : U[p].status[a] = T[p].status[a]
      BY <1>8
    <2> QED
      BY <2>1, <2>2, <2>3, <2>4, <2>5, <1>8, <1>17, OtherOnLine
  <1>19. ASSUME w \in DOMAIN listeners PROVE OnLine(U, w)'
    <2>1. Entries(T, w) /\ ~Leaves(T, w)
      BY <1>1, <1>3, <1>19 DEF OnLine
    <2>2. Cardinality(Seen(U, w)) = Cardinality(Seen(T, w)) /\ Leaves(U, w) /\ Once(U, w)
      <3>1. Removing(T, n, U, w)
        BY <2>1, <1>8, <1>10, <1>19 DEF Removing
      <3> QED
        BY <3>1, RemovingLine
    <2>3. Entries(U, w)'
      BY <2>1, <2>2, <1>3, <1>19 DEF Entries
    <2>4. Left(w)'
      <3>1. Gone(1)
        BY <1>2 DEF Callers
      <3>2. /\ voices' = voices /\ Len(toClient) \in Nat
            /\ DOMAIN toClient = 1..Len(toClient) /\ DOMAIN toClient' = 1..(Len(toClient) - 1)
            /\ \A k \in DOMAIN toClient' : k + 1 \in DOMAIN toClient /\ toClient'[k] = toClient[k + 1]
        BY <1>0, HandleFacts
      <3>3. \A k \in DOMAIN toClient' : 1 < k + 1
        BY <3>2
      <3> QED
        BY <3>1, <3>2, <3>3 DEF Gone, Left
    <2>5. w \notin DOMAIN listeners'
      BY <1>3
    <2> QED
      BY <2>2, <2>3, <2>4, <2>5 DEF OnLine
  <1>20. Backed(U)
    BY <1>1, <1>8, <1>17, LongerBacked
  <1> QED
    BY <1>7, <1>18, <1>19, <1>20 DEF Screened

\* userTalk and userMute: the last change of the listener decides.
LEMMA AttributeScreened ==
  ASSUME Follow, Screen, HandleMessage, toClient[1].type = "attribute",
         NEW T, T = Timeline, NEW U, U = Timeline', NEW w, w = toClient[1].who,
         w \in DOMAIN listeners, toClient[1].attr # "locked"
  PROVE  Screened(U)'
  <1> DEFINE m == toClient[1]
             r == listeners[w]
             t == Task("status", r, m.attr)
  <1>0. Types /\ Wire
    BY DEF Follow
  <1>1. /\ conn = "listening" /\ list' = list /\ Nulls(ui) /\ Backed(T)
        /\ \A u \in Voices : OnLine(T, u)
    BY <1>0, HandleScreened DEF Screened
  <1>2. Head(toClient) = m /\ OnAttribute
    BY <1>0, HandleFacts
  <1>3. /\ w \in Voices /\ m.attr \in Attributes
        /\ UNCHANGED <<listeners, received, doubled>>
        /\ \A o \in DOMAIN objects : objects'[o].who = objects[o].who
        /\ \A o \in DOMAIN objects \ {r} : objects'[o] = objects[o]
        /\ \A a \in Attributes :
             objects'[r].status[a] = IF a = m.attr THEN m.value ELSE objects[r].status[a]
        /\ ui' = Append(ui, t)
    BY <1>0, <1>2, AttributeFacts
  <1>4. /\ received \in BOOLEAN
        /\ \A u \in DOMAIN listeners : listeners[u] \in DOMAIN objects /\ objects[listeners[u]].who = u
        /\ \A o \in DOMAIN objects : o \in Nat /\ o # 0
    BY <1>0, LenProperties DEF Types, ModuleTypes
  <1>5. t \in Tasks /\ t.op = "status" /\ t.ref = r /\ r # NullListener /\ t.attr = m.attr
    BY <1>3, <1>4 DEF Task, Tasks, NullListener
  <1> HIDE DEF t
  <1>7. /\ \E n \in Nat : /\ Longer(T, n, U, n + 1)
                          /\ U[n + 1] = TaskItem(t, objects')
                          /\ \A p \in 1..n : \/ U[p].status = T[p].status
                                             \/ \E o \in DOMAIN objects :
                                                  /\ T[p].who = objects[o].who
                                                  /\ T[p].status = objects[o].status
                                                  /\ U[p].status = objects'[o].status
        /\ Nulls(ui) /\ (t.op = "remove" /\ t.ref = NullListener => t.listed = FALSE) => Nulls(ui')
    BY <1>0, <1>1, <1>3, <1>5, PostLine
  <1>8. PICK n \in Nat : /\ Longer(T, n, U, n + 1)
                         /\ U[n + 1] = TaskItem(t, objects')
                         /\ \A p \in 1..n : \/ U[p].status = T[p].status
                                            \/ \E o \in DOMAIN objects :
                                                 /\ T[p].who = objects[o].who
                                                 /\ T[p].status = objects[o].status
                                                 /\ U[p].status = objects'[o].status
    BY <1>7
  <1>9. r \in DOMAIN objects /\ objects[r].who = w
    BY <1>4
  <1>10. /\ \A p \in 1..n : T[p].who # w => U[p].status = T[p].status
         /\ \A p \in 1..n, a \in Attributes : a # m.attr => U[p].status[a] = T[p].status[a]
    BY <1>3, <1>8, <1>9
  <1>11. /\ Is(U, n + 1, "status", w) /\ U[n + 1].attr = m.attr
         /\ U[n + 1].status = objects'[r].status
    <2>1. TaskItem(t, objects').op = "status" /\ TaskItem(t, objects').attr = m.attr
      BY <1>5, TaskItemFacts
    <2>2. TaskItem(t, objects').who = objects'[r].who /\ TaskItem(t, objects').status = objects'[r].status
      BY <1>5, TaskItemFacts
    <2>3. objects'[r].who = w
      BY <1>3, <1>9
    <2> QED
      BY <2>1, <2>2, <2>3, <1>8 DEF Is
  <1>12. U[n + 1].op = "status" /\ U[n + 1].who = w
    BY <1>11 DEF Is
  <1>16. \A p \in (n + 1)..(n + 1) : p = n + 1
    OBVIOUS
  <1>17. \A p \in (n + 1)..(n + 1) : U[p].op # "clear"
    BY <1>12, <1>16
  <1>18. ASSUME NEW u \in Voices, u # w PROVE OnLine(U, u)'
    <2>1. \A p \in (n + 1)..(n + 1) : U[p].op \in {"add", "remove", "status"} => U[p].who # u
      BY <1>12, <1>16, <1>18
    <2>2. OnLine(T, u) /\ (Left(u) => Left(u)')
      BY <1>0, <1>1, LeftPop
    <2>3. /\ u \in DOMAIN listeners' <=> u \in DOMAIN listeners
          /\ u \in doubled' <=> u \in doubled
      BY <1>3
    <2>4. u \in DOMAIN listeners => \A a \in Attributes \ {"locked"} :
            objects'[listeners'[u]].status[a] = objects[listeners[u]].status[a]
      BY <1>3, <1>4, <1>9, <1>18
    <2>5. \A p \in 1..n : T[p].op \in {"add", "status"} /\ T[p].who = u =>
            \A a \in Attributes \ {"locked"} : U[p].status[a] = T[p].status[a]
      BY <1>10, <1>18
    <2> QED
      BY <2>1, <2>2, <2>3, <2>4, <2>5, <1>8, <1>17, OtherOnLine
  <1>a. /\ Entries(T, w) /\ ~Leaves(T, w) /\ Once(T, w)
        /\ \A a \in Attributes \ {"locked"} : WillShow(T, w, a, objects[r].status[a])
    BY <1>1, <1>3 DEF OnLine
  <1>19. OnLine(U, w)'
    <2>1. \A p \in (n + 1)..(n + 1) : ~Is(U, p, "add", w) /\ ~Is(U, p, "remove", w)
      BY <1>12, <1>16 DEF Is
    <2>2. /\ Cardinality(Seen(U, w)) = Cardinality(Seen(T, w))
          /\ Leaves(U, w) <=> Leaves(T, w)
          /\ Once(T, w) => Once(U, w)
      BY <2>1, <1>8, <1>17, LongerOther
    <2>3. Entries(U, w)'
      BY <2>2, <1>3, <1>a DEF Entries
    <2>4. ASSUME NEW a \in Attributes \ {"locked"} PROVE WillShow(U, w, a, objects'[r].status[a])
      <3>1. CASE a = m.attr
        <4>1. WillShow(U, w, a, U[n + 1].status[a])
          BY <3>1, <1>8, <1>11, LongerStatus
        <4> QED
          BY <4>1, <1>11
      <3>2. CASE a # m.attr
        <4>1. ASSUME NEW v, v = objects[r].status[a] PROVE WillShow(U, w, a, v)
          <5>1. WillShow(T, w, a, v)
            BY <1>a, <4>1
          <5>2. \A p \in (n + 1)..(n + 1) : ~Is(U, p, "status", w) \/ U[p].attr # a
            BY <3>2, <1>11, <1>16
          <5>3. \A p \in 1..n : T[p].op \in {"add", "status"} /\ T[p].who = w
                                  => U[p].status[a] = T[p].status[a]
            BY <3>2, <1>10
          <5> QED
            BY <5>1, <5>2, <5>3, <1>8, <1>17, LongerShow
        <4> QED
          BY <4>1, <3>2, <1>3
      <3> QED
        BY <3>1, <3>2
    <2> QED
      BY <2>2, <2>3, <2>4, <1>3, <1>a DEF OnLine
  <1>20. Backed(U)
    <2>1. DOMAIN T = 1..n
      BY <1>8 DEF Longer
    <2>2. Seen(T, w) # {}
      <3>1. Cardinality(Seen(T, w)) # 0
        BY <1>a DEF Entries
      <3>2. Cardinality({}) = 0
        BY FS_EmptySet
      <3> QED
        BY <3>1, <3>2
    <2>3. \E p \in 1..n : Is(T, p, "add", w) /\ Live(T, p)
      BY <2>1, <2>2 DEF Seen
    <2>4. \A j \in 1..n : Is(T, j, "remove", w) => ~Live(T, j)
      BY <2>1, <1>a DEF Leaves
    <2>5. \A i \in (n + 1)..(n + 1) : U[i].op = "status" =>
            /\ n + 1 = n + 1
            /\ \E p \in 1..n : Is(T, p, "add", U[i].who) /\ Live(T, p)
            /\ \A j \in 1..n : Is(T, j, "remove", U[i].who) => ~Live(T, j)
      BY <2>3, <2>4, <1>12, <1>16
    <2> QED
      BY <2>5, <1>1, <1>8, LongerBacked
  <1>21. Nulls(ui')
    BY <1>1, <1>5, <1>7
  <1> QED
    BY <1>18, <1>19, <1>20, <1>21 DEF Screened

\* The list is handled: an addition for every caller in it.
UsersRead(T, n, U, m, map) ==
  /\ Longer(T, n, U, m)
  /\ \A p \in (n + 1)..m : U[p].op = "add" /\ U[p].who \in DOMAIN map /\ U[p].status = map[U[p].who]
  /\ \A p, q \in (n + 1)..m : U[p].who = U[q].who => p = q
  /\ \A u \in DOMAIN map : \E p \in (n + 1)..m : U[p].who = u
  /\ \A p \in 1..n : U[p].status = T[p].status

\* onGetCurrentUsers(): one addition for each caller of the list.
LEMMA UsersLine ==
  ASSUME Types, Nulls(ui), OnGetCurrentUsers, list' = list, NEW map, map = Head(toClient).map,
         NEW T, T = Timeline, NEW U, U = Timeline'
  PROVE  /\ \E n \in Nat, m \in Nat : UsersRead(T, n, U, m, map)
         /\ Nulls(ui')
         /\ \A u \in DOMAIN map : objects'[listeners'[u]].status = map[u]
         /\ DOMAIN listeners' = DOMAIN map
  <1> DEFINE k == Len(objects)
             n == Len(list) + Len(ui)
             m == Len(list) + Len(ui')
  <1>1. PICK order \in Seq(Voices) : ListRead(map, order)
    BY UsersFacts
  <1>2. ui' \in Seq(Tasks)
    BY UsersFacts
  <1>3. /\ Len(list) \in Nat /\ Len(ui) \in Nat /\ DOMAIN ui = 1..Len(ui) /\ k \in Nat
        /\ DOMAIN objects = 1..k
    BY TimelineFacts, LenProperties DEF Types, ModuleTypes
  <1>4. /\ DOMAIN order = 1..Len(order) /\ Len(order) \in Nat
        /\ \A i \in DOMAIN order : order[i] \in DOMAIN map
        /\ \A i, j \in DOMAIN order : order[i] = order[j] => i = j
        /\ \A o \in DOMAIN objects : objects'[o] = objects[o]
        /\ \A i \in DOMAIN order : objects'[k + i] = [who |-> order[i], status |-> map[order[i]]]
        /\ DOMAIN listeners' = DOMAIN map
        /\ \A u \in DOMAIN map : \E i \in DOMAIN order : order[i] = u /\ listeners'[u] = k + i
        /\ Len(ui') = Len(ui) + Len(order)
        /\ \A i \in DOMAIN ui : ui'[i] = ui[i]
        /\ \A i \in DOMAIN order : ui'[Len(ui) + i] = Task("add", k + i, "none")
    BY <1>1 DEF ListRead
  <1>a. ASSUME NEW i \in 1..Len(order)
        PROVE  /\ objects'[k + i].who = order[i] /\ objects'[k + i].status = map[order[i]]
               /\ ui'[Len(ui) + i] = Task("add", k + i, "none")
    <2>1. objects'[k + i] = [who |-> order[i], status |-> map[order[i]]]
      BY <1>4
    <2>2. ui'[Len(ui) + i] = Task("add", k + i, "none")
      BY <1>4
    <2> HIDE DEF k
    <2> QED
      BY <2>1, <2>2
  <1>b. \A i, j \in 1..Len(order) : order[i] = order[j] => i = j
    BY <1>4
  <1>5. /\ Longer(T, n, U, m)
        /\ \A p \in (n + 1)..m : U[p] = TaskItem(ui'[p - Len(list)], objects')
        /\ \A p \in 1..n :
             \/ U[p].status = T[p].status
             \/ \E o \in DOMAIN objects :
                  /\ T[p].who = objects[o].who
                  /\ T[p].status = objects[o].status
                  /\ U[p].status = objects'[o].status
    <2>1. Len(ui') >= Len(ui) /\ (\A i \in DOMAIN ui : ui'[i] = ui[i])
          /\ \A o \in DOMAIN objects : objects'[o].who = objects[o].who
      BY <1>3, <1>4
    <2> QED
      BY <2>1, <1>2, MoreLine
  <1>6. m = n + Len(order)
    BY <1>3, <1>4
  <1>7. ASSUME NEW i \in 1..Len(order)
        PROVE  U[n + i].op = "add" /\ U[n + i].who = order[i] /\ U[n + i].status = map[order[i]]
    <2>1. n + i \in (n + 1)..m /\ (n + i) - Len(list) = Len(ui) + i
      BY <1>3, <1>4, <1>6
    <2>2. U[n + i] = TaskItem(Task("add", k + i, "none"), objects')
      <3>1. U[n + i] = TaskItem(ui'[(n + i) - Len(list)], objects')
        BY <2>1, <1>5
      <3> QED
        BY <3>1, <2>1, <1>a
    <2>3. /\ Task("add", k + i, "none").op = "add" /\ Task("add", k + i, "none").ref = k + i
          /\ k + i # NullListener
      BY <1>3 DEF Task, NullListener
    <2>4. U[n + i].op = "add" /\ U[n + i].who = objects'[k + i].who /\ U[n + i].status = objects'[k + i].status
      BY <2>2, <2>3, TaskItemFacts
    <2>5. objects'[k + i].who = order[i] /\ objects'[k + i].status = map[order[i]]
      BY <1>a
    <2> QED
      BY <2>4, <2>5
  <1>8. ASSUME NEW p \in (n + 1)..m
        PROVE  p - n \in 1..Len(order) /\ n + (p - n) = p
    BY <1>3, <1>4, <1>6
  <1>9. \A i \in 1..Len(order) : n + i \in (n + 1)..m
    BY <1>3, <1>4, <1>6
  <1>10. UsersRead(T, n, U, m, map)
    <2>0. \A p \in (n + 1)..m : \E i \in 1..Len(order) : n + i = p
      BY <1>8
    <2> HIDE DEF n, m, k
    <2>1. ASSUME NEW p \in (n + 1)..m
          PROVE  U[p].op = "add" /\ U[p].who \in DOMAIN map /\ U[p].status = map[U[p].who]
      BY <2>0, <1>4, <1>7
    <2>2. ASSUME NEW p \in (n + 1)..m, NEW q \in (n + 1)..m, U[p].who = U[q].who PROVE p = q
      <3>1. PICK i \in 1..Len(order) : n + i = p
        BY <2>0
      <3>2. PICK j \in 1..Len(order) : n + j = q
        BY <2>0
      <3>3. U[p].who = order[i] /\ U[q].who = order[j]
        BY <3>1, <3>2, <1>7
      <3> QED
        BY <3>1, <3>2, <3>3, <2>2, <1>b
    <2>3. ASSUME NEW u \in DOMAIN map PROVE \E p \in (n + 1)..m : U[p].who = u
      <3>1. PICK i \in 1..Len(order) : order[i] = u
        BY <1>4
      <3>2. U[n + i].who = u /\ n + i \in (n + 1)..m
        BY <3>1, <1>7, <1>9
      <3> QED
        BY <3>2
    <2>4. ASSUME NEW p \in 1..n PROVE U[p].status = T[p].status
      BY <1>4, <1>5
    <2> QED
      BY <1>5, <2>1, <2>2, <2>3, <2>4 DEF UsersRead
  <1>11. Nulls(ui')
    <2>1. ASSUME NEW i \in DOMAIN ui', i \notin DOMAIN ui PROVE ui'[i].op = "add"
      <3>1. DOMAIN ui' = 1..(Len(ui) + Len(order))
        BY <1>2, <1>4, LenProperties
      <3>2. i - Len(ui) \in 1..Len(order) /\ Len(ui) + (i - Len(ui)) = i
        BY <3>1, <2>1, <1>3, <1>4
      <3>3. PICK j \in 1..Len(order) : Len(ui) + j = i
        BY <3>2
      <3>4. ui'[i] = Task("add", k + j, "none")
        BY <3>3, <1>4
      <3> QED
        BY <3>4 DEF Task
    <2>2. ASSUME NEW i \in DOMAIN ui PROVE ui'[i] = ui[i]
      BY <1>4
    <2> QED
      BY <2>1, <2>2 DEF Nulls
  <1>12. ASSUME NEW u \in DOMAIN map PROVE objects'[listeners'[u]].status = map[u]
    <2>1. PICK i \in DOMAIN order : order[i] = u /\ listeners'[u] = k + i
      BY <1>4
    <2>2. objects'[k + i].status = map[order[i]]
      BY <1>4, <1>a
    <2> QED
      BY <2>1, <2>2
  <1>13. n \in Nat /\ m \in Nat
    BY <1>5 DEF Longer
  <1> QED
    BY <1>4, <1>10, <1>11, <1>12, <1>13

\* The list: a caller the map has already is added again, with the state it has.
LEMMA UsersScreened ==
  ASSUME Follow, Screen, HandleMessage, toClient[1].type = "users",
         NEW T, T = Timeline, NEW U, U = Timeline', NEW map, map = toClient[1].map
  PROVE  Screened(U)'
  <1>0. Types /\ Wire /\ Handshake /\ Channel
    BY DEF Follow
  <1>1. /\ conn = "listening" /\ list' = list /\ Nulls(ui) /\ Backed(T)
        /\ \A u \in Voices : OnLine(T, u)
    BY <1>0, HandleScreened DEF Screened
  <1>2. Head(toClient) = toClient[1] /\ OnGetCurrentUsers /\ 1 \in DOMAIN toClient
    BY <1>0, HandleFacts
  <1>3. doubled' = DOMAIN listeners \cap DOMAIN map /\ DOMAIN map \subseteq Voices
    BY <1>0, <1>2, UsersFacts
  <1>4. received = FALSE /\ doubled = {}
    <2>1. received = FALSE
      BY <1>0, <1>2 DEF Handshake, Replies
    <2> QED
      BY <2>1, <1>0 DEF Wire
  <1>5. /\ \E n \in Nat, m \in Nat : UsersRead(T, n, U, m, map)
        /\ Nulls(ui')
        /\ \A u \in DOMAIN map : objects'[listeners'[u]].status = map[u]
        /\ DOMAIN listeners' = DOMAIN map
    BY <1>0, <1>1, <1>2, UsersLine
  <1>6. PICK n \in Nat, m \in Nat : UsersRead(T, n, U, m, map)
    BY <1>5
  <1>7. /\ Longer(T, n, U, m)
        /\ \A p \in (n + 1)..m : U[p].op = "add" /\ U[p].who \in DOMAIN map /\ U[p].status = map[U[p].who]
        /\ \A p, q \in (n + 1)..m : U[p].who = U[q].who => p = q
        /\ \A u \in DOMAIN map : \E p \in (n + 1)..m : U[p].who = u
        /\ \A p \in 1..n : U[p].status = T[p].status
    BY <1>6 DEF UsersRead
  <1>8. Snapshot(1)
    BY <1>0, <1>1, <1>2 DEF Channel
  <1>9. ASSUME NEW u \in Voices
        PROVE  /\ u \in DOMAIN listeners => u \in DOMAIN map
               /\ u \in DOMAIN map /\ u \in DOMAIN listeners =>
                    \A a \in Attributes : objects[listeners[u]].status[a] = map[u][a]
    <2>1. Present(1 - 1, u, InOut(u, DOMAIN map))
      BY <1>8 DEF Snapshot
    <2>2. KnownIn(u, InOut(u, DOMAIN map))
      BY <2>1 DEF Present, LastSays
    <2>3. u \in DOMAIN listeners => u \in DOMAIN map
      BY <2>2 DEF KnownIn, InOut
    <2>4. ASSUME NEW a \in Attributes, u \in DOMAIN map PROVE Shows(u, a, map[u][a])
      <3>1. Brings(1 - 1, u, a, map[u][a])
        BY <2>4, <1>8 DEF Snapshot
      <3> QED
        BY <3>1 DEF Brings, LastSays
    <2> QED
      BY <2>3, <2>4 DEF Shows
  <1>a. \A p \in (n + 1)..m : U[p].op # "clear"
    BY <1>7
  <1>b. DOMAIN T = 1..n /\ DOMAIN U = 1..m
    BY <1>7 DEF Longer
  <1>10. ASSUME NEW u \in DOMAIN map, NEW e \in (n + 1)..m, U[e].who = u, ~Leaves(T, u)
         PROVE  /\ Cardinality(Seen(U, u)) = Cardinality(Seen(T, u)) + 1
                /\ ~Leaves(U, u) /\ Once(U, u)
                /\ \A a, v : Seen(T, u) = {} /\ U[e].status[a] = v /\ (\A p \in 1..m : ~Changes(U, p, u, a))
                               => WillShow(U, u, a, v)
    <2>1. Is(U, e, "add", u)
      BY <1>7, <1>10 DEF Is
    <2>2. \A p \in (n + 1)..m : /\ Is(U, p, "add", u) => p = e
                                /\ ~Is(U, p, "remove", u)
      BY <1>7, <1>10 DEF Is
    <2>3. /\ Cardinality(Seen(U, u)) = Cardinality(Seen(T, u)) + 1
          /\ Leaves(U, u) <=> Leaves(T, u)
          /\ ~Leaves(T, u) => Once(U, u)
          /\ \A a, v : Seen(T, u) = {} /\ U[e].status[a] = v /\ (\A p \in 1..m : ~Changes(U, p, u, a))
                         => WillShow(U, u, a, v)
      BY <2>1, <2>2, <1>7, <1>a, LongerAdd
    <2> QED
      BY <2>3, <1>10
  <1>11. ASSUME NEW u \in Voices, u \in DOMAIN map, u \in DOMAIN listeners PROVE OnLine(U, u)'
    <2>1. /\ Entries(T, u) /\ ~Leaves(T, u)
          /\ \A a \in Attributes \ {"locked"} : WillShow(T, u, a, objects[listeners[u]].status[a])
      BY <1>1, <1>11 DEF OnLine
    <2>2. PICK e \in (n + 1)..m : U[e].who = u
      BY <1>7, <1>11
    <2>3. Cardinality(Seen(U, u)) = Cardinality(Seen(T, u)) + 1 /\ ~Leaves(U, u) /\ Once(U, u)
      BY <2>1, <2>2, <1>10, <1>11
    <2>4. Entries(U, u)'
      <3>1. u \in doubled' /\ u \notin doubled /\ u \in DOMAIN listeners'
        BY <1>3, <1>4, <1>5, <1>11
      <3> QED
        BY <3>1, <2>1, <2>3, <1>11 DEF Entries
    <2>5. ASSUME NEW a \in Attributes \ {"locked"} PROVE WillShow(U, u, a, objects'[listeners'[u]].status[a])
      <3>1. ASSUME NEW v, v = map[u][a] PROVE WillShow(U, u, a, v)
        <4>1. objects[listeners[u]].status[a] = v
          BY <3>1, <1>9, <1>11
        <4>2. WillShow(T, u, a, v)
          BY <4>1, <2>1
        <4>3. \A p \in (n + 1)..m : ~Is(U, p, "status", u) \/ U[p].attr # a
          BY <1>7 DEF Is
        <4>4. \A p \in 1..n : T[p].op \in {"add", "status"} /\ T[p].who = u => U[p].status[a] = T[p].status[a]
          BY <1>7
        <4> QED
          BY <4>2, <4>3, <4>4, <1>7, <1>a, LongerShow
      <3> QED
        BY <3>1, <1>5, <1>11
    <2> QED
      BY <2>3, <2>4, <2>5 DEF OnLine
  <1>12. ASSUME NEW u \in Voices, u \in DOMAIN map, u \notin DOMAIN listeners PROVE OnLine(U, u)'
    <2>1. Entries(T, u) /\ (Leaves(T, u) => Left(u))
      BY <1>1, <1>12 DEF OnLine
    <2>2. ~Left(u)
      BY <1>2, <1>12 DEF Left
    <2>3. ~Leaves(T, u)
      BY <2>1, <2>2
    <2>4. Cardinality(Seen(T, u)) = 0
      BY <2>1, <2>3, <1>4, <1>12 DEF Entries
    <2>5. Seen(T, u) = {}
      BY <2>4, <1>b, SeenEmpty
    <2>6. PICK e \in (n + 1)..m : U[e].who = u
      BY <1>7, <1>12
    <2>7. /\ Cardinality(Seen(U, u)) = Cardinality(Seen(T, u)) + 1 /\ ~Leaves(U, u) /\ Once(U, u)
          /\ \A a, v : Seen(T, u) = {} /\ U[e].status[a] = v /\ (\A p \in 1..m : ~Changes(U, p, u, a))
                         => WillShow(U, u, a, v)
      BY <2>3, <2>6, <1>10, <1>12
    <2>8. Entries(U, u)'
      <3>1. u \notin doubled' /\ u \in DOMAIN listeners'
        BY <1>3, <1>5, <1>12
      <3> QED
        BY <3>1, <2>4, <2>7 DEF Entries
    <2>9. ASSUME NEW a \in Attributes \ {"locked"} PROVE WillShow(U, u, a, objects'[listeners'[u]].status[a])
      <3>1. \A p \in 1..n : ~Changes(T, p, u, a)
        BY <2>5, <1>1, <1>b, UnseenUnchanged
      <3>2. ASSUME NEW p \in 1..m PROVE ~Changes(U, p, u, a)
        <4>1. CASE p \in 1..n
          <5>1. Changes(T, p, u, a) <=> Changes(U, p, u, a)
            BY <4>1, <1>7, <1>a, LongerWithin
          <5> QED
            BY <5>1, <4>1, <3>1
        <4>2. CASE p \in (n + 1)..m
          BY <4>2, <1>7 DEF Changes, Is
        <4> QED
          BY <4>1, <4>2, <3>2
      <3>3. ASSUME NEW v, v = map[u][a] PROVE WillShow(U, u, a, v)
        <4>1. U[e].status[a] = v
          BY <3>3, <2>6, <1>7
        <4> QED
          BY <4>1, <3>2, <2>5, <2>7
      <3> QED
        BY <3>3, <1>5, <1>12
    <2> QED
      BY <2>7, <2>8, <2>9 DEF OnLine
  <1>13. ASSUME NEW u \in Voices, u \notin DOMAIN map PROVE OnLine(U, u)'
    <2>1. OnLine(T, u) /\ (Left(u) => Left(u)')
      BY <1>0, <1>1, LeftPop
    <2>2. u \notin DOMAIN listeners /\ u \notin DOMAIN listeners' /\ u \notin doubled /\ u \notin doubled'
      BY <1>3, <1>4, <1>5, <1>9, <1>13
    <2>3. \A p \in (n + 1)..m : U[p].op \in {"add", "remove", "status"} => U[p].who # u
      BY <1>7, <1>13
    <2>4. \A p \in 1..n : T[p].op \in {"add", "status"} /\ T[p].who = u =>
            \A a \in Attributes \ {"locked"} : U[p].status[a] = T[p].status[a]
      BY <1>7
    <2>5. /\ u \in DOMAIN listeners' <=> u \in DOMAIN listeners
          /\ u \in doubled' <=> u \in doubled
          /\ u \in DOMAIN listeners => \A a \in Attributes \ {"locked"} :
               objects'[listeners'[u]].status[a] = objects[listeners[u]].status[a]
      BY <2>2
    <2> QED
      BY <2>1, <2>3, <2>4, <2>5, <1>7, <1>a, OtherOnLine
  <1>14. Backed(U)
    <2>1. \A i \in (n + 1)..m : U[i].op # "status"
      BY <1>7
    <2> QED
      BY <2>1, <1>1, <1>7, LongerBacked
  <1> QED
    BY <1>5, <1>11, <1>12, <1>13, <1>14 DEF Screened

\* A lock is not shown: only the object changes.
LEMMA LockScreened ==
  ASSUME Types, Wire, Screen, HandleMessage, toClient[1].type = "attribute",
         NEW T, T = Timeline, NEW U, U = Timeline', NEW w, w = toClient[1].who,
         w \in DOMAIN listeners, toClient[1].attr = "locked"
  PROVE  Screened(U)'
  <1> DEFINE r == listeners[w]
             n == Len(list) + Len(ui)
  <1>1. /\ conn = "listening" /\ list' = list /\ Nulls(ui) /\ Backed(T)
        /\ \A u \in Voices : OnLine(T, u)
    BY HandleScreened DEF Screened
  <1>2. Head(toClient) = toClient[1] /\ OnAttribute
    BY HandleFacts
  <1>3. /\ UNCHANGED <<listeners, received, doubled>> /\ ui' = ui
        /\ \A o \in DOMAIN objects : objects'[o].who = objects[o].who
        /\ \A o \in DOMAIN objects \ {r} : objects'[o] = objects[o]
        /\ \A a \in Attributes : a # "locked" => objects'[r].status[a] = objects[r].status[a]
    BY <1>2, AttributeFacts
  <1>4. \A u \in DOMAIN listeners : listeners[u] \in DOMAIN objects
    BY DEF Types, ModuleTypes
  <1>5. /\ Longer(T, n, U, n)
        /\ \A p \in 1..n : \/ U[p].status = T[p].status
                           \/ \E o \in DOMAIN objects :
                                /\ T[p].status = objects[o].status
                                /\ U[p].status = objects'[o].status
    <2>1. /\ ui' \in Seq(Tasks) /\ Len(ui') >= Len(ui) /\ Len(ui') = Len(ui)
          /\ \A i \in DOMAIN ui : ui'[i] = ui[i]
      BY <1>3, TimelineFacts
    <2> QED
      BY <2>1, <1>1, <1>3, MoreLine
  <1>6. n \in Nat
    BY TimelineFacts
  <1> HIDE DEF n
  <1>7. \A p \in (n + 1)..n : FALSE
    BY <1>6
  <1>8. \A o \in DOMAIN objects : \A a \in Attributes \ {"locked"} :
          objects'[o].status[a] = objects[o].status[a]
    BY <1>3
  <1>9. ASSUME NEW u \in Voices PROVE OnLine(U, u)'
    <2>1. OnLine(T, u) /\ (Left(u) => Left(u)')
      BY <1>1, LeftPop
    <2>2. \A p \in 1..n : T[p].op \in {"add", "status"} /\ T[p].who = u =>
            \A a \in Attributes \ {"locked"} : U[p].status[a] = T[p].status[a]
      BY <1>5, <1>8
    <2>3. u \in DOMAIN listeners => \A a \in Attributes \ {"locked"} :
            objects'[listeners'[u]].status[a] = objects[listeners[u]].status[a]
      BY <1>3, <1>4, <1>8
    <2>4. /\ u \in DOMAIN listeners' <=> u \in DOMAIN listeners
          /\ u \in doubled' <=> u \in doubled
      BY <1>3
    <2>5. /\ \A p \in (n + 1)..n : U[p].op # "clear"
          /\ \A p \in (n + 1)..n : U[p].op \in {"add", "remove", "status"} => U[p].who # u
      BY <1>7
    <2> QED
      BY <2>1, <2>2, <2>3, <2>4, <2>5, <1>5, OtherOnLine
  <1>10. Backed(U)
    <2>1. \A i \in (n + 1)..n : U[i].op # "status"
      BY <1>7
    <2> QED
      BY <2>1, <1>1, <1>5, LongerBacked
  <1>11. Nulls(ui')
    BY <1>1, <1>3
  <1> QED
    BY <1>9, <1>10, <1>11 DEF Screened

\* A message the screen is not told of.
LEMMA SilentScreen ==
  ASSUME Types, Wire, Screen, HandleMessage, UNCHANGED <<list, ui, objects, listeners, doubled>>
  PROVE  Screen'
  <1>1. conn' = conn /\ Running
    BY HandleScreened
  <1>2. ASSUME NEW u \in Voices, Left(u) PROVE Left(u)'
    BY <1>2, LeftPop
  <1> QED
    BY <1>1, <1>2, ScreenSame

\* Every message.
LEMMA HandleScreen ==
  ASSUME Follow, Callers, Screen, HandleMessage
  PROVE  Screen'
  <1> DEFINE m == toClient[1]
  <1>0. Types /\ Wire
    BY DEF Follow
  <1>1. conn = "listening" /\ conn' = conn /\ list' = list
    BY <1>0, HandleScreened
  <1>2. m \in Messages /\ Head(toClient) = m
    BY <1>0, HandleFacts
  <1>3. m.type \in {"clear", "users", "roomMuted", "muteStateCallback", "userJoin", "userLeft", "attribute"}
    BY <1>2, MessageFields
  <1> HIDE DEF m
  <1>4. CASE m.type \in {"users", "userJoin", "userLeft"}
    <2>1. ASSUME NEW T, T = Timeline, NEW U, U = Timeline' PROVE Screened(U)'
      <3>1. CASE m.type = "users"
        <4>1. ASSUME NEW map, map = toClient[1].map PROVE Screened(U)'
          BY <2>1, <3>1, <4>1, UsersScreened DEF m
        <4> QED
          BY <4>1
      <3>2. CASE m.type = "userJoin"
        <4>1. ASSUME NEW w, w = toClient[1].who PROVE Screened(U)'
          BY <2>1, <3>2, <4>1, JoinScreened DEF m
        <4> QED
          BY <4>1
      <3>3. CASE m.type = "userLeft"
        <4>1. ASSUME NEW w, w = toClient[1].who PROVE Screened(U)'
          BY <2>1, <3>3, <4>1, LeftScreened DEF m
        <4> QED
          BY <4>1
      <3> QED
        BY <3>1, <3>2, <3>3, <1>4
    <2>2. ASSUME NEW U, U = Timeline' PROVE Screened(U)'
      BY <2>1, <2>2
    <2>3. ASSUME NEW U, U = Timeline' PROVE Screen'
      BY <2>2, <2>3, <1>1, ScreenedScreen
    <2> QED
      BY <2>3
  <1>5. CASE m.type = "attribute"
    <2>1. OnAttribute
      BY <1>0, <1>5, HandleFacts DEF m
    <2>2. CASE m.who \notin DOMAIN listeners
      <3>1. UNCHANGED <<list, ui, objects, listeners, doubled>>
        BY <2>1, <2>2, <1>0, <1>1, <1>2, AttributeFacts
      <3> QED
        BY <3>1, <1>0, SilentScreen
    <2>3. CASE m.who \in DOMAIN listeners
      <3>1. ASSUME NEW T, T = Timeline, NEW U, U = Timeline', NEW w, w = toClient[1].who PROVE Screened(U)'
        <4>1. CASE toClient[1].attr = "locked"
          BY <4>1, <3>1, <2>3, <1>0, <1>5, LockScreened DEF m
        <4>2. CASE toClient[1].attr # "locked"
          BY <4>2, <3>1, <2>3, <1>5, AttributeScreened DEF m
        <4> QED
          BY <4>1, <4>2
      <3>2. ASSUME NEW U, U = Timeline' PROVE Screened(U)'
        BY <3>1, <3>2
      <3>3. ASSUME NEW U, U = Timeline' PROVE Screen'
        BY <3>2, <3>3, <1>1, ScreenedScreen
      <3> QED
        BY <3>3
    <2> QED
      BY <2>2, <2>3
  <1>6. CASE m.type \in {"clear", "roomMuted", "muteStateCallback"}
    <2>1. UNCHANGED <<list, ui, objects, listeners, doubled>>
      BY <1>0, <1>1, <1>6, HandleFacts DEF m, OnSharedObjectClear, OnRoomMuted, KeptList
    <2> QED
      BY <2>1, <1>0, SilentScreen
  <1> QED
    BY <1>3, <1>4, <1>5, <1>6

\* A listener of which a runnable drops and changes nothing that matters.
LEMMA WithinOnLine ==
  ASSUME NEW S, NEW m, NEW B, NEW n, NEW f, Within(S, m, B, n, f), NEW u, OnLine(B, u),
         \A q \in 1..n : Live(B, q) /\ B[q].op \in {"add", "remove", "status"} /\ B[q].who = u
                           => \E p \in 1..m : f[p] = q,
         \A p \in 1..m : S[p].op \in {"add", "status"} /\ S[p].who = u => S[p].status = B[f[p]].status
  PROVE  OnLine(S, u)
  <1>1. /\ Cardinality(Seen(S, u)) = Cardinality(Seen(B, u))
        /\ Leaves(S, u) <=> Leaves(B, u)
        /\ Once(B, u) <=> Once(S, u)
    <2>1. \A q \in 1..n : Live(B, q) /\ (Is(B, q, "add", u) \/ Is(B, q, "remove", u))
                            => \E p \in 1..m : f[p] = q
      BY DEF Is
    <2> QED
      BY <2>1, WithinEntries
  <1>2. ASSUME NEW a, NEW v, WillShow(B, u, a, v) PROVE WillShow(S, u, a, v)
    <2>1. \A q \in 1..n : (Live(B, q) /\ Is(B, q, "add", u)) \/ Changes(B, q, u, a)
                            => \E p \in 1..m : f[p] = q
      BY DEF Is, Changes
    <2>2. \A p \in 1..m : p \in Seen(S, u) \/ Changes(S, p, u, a) => S[p].status[a] = B[f[p]].status[a]
      <3>1. ASSUME NEW p \in 1..m, p \in Seen(S, u) \/ Changes(S, p, u, a)
            PROVE  S[p].status = B[f[p]].status
        <4>1. S[p].op \in {"add", "status"} /\ S[p].who = u
          BY <3>1 DEF Seen, Changes, Is
        <4> QED
          BY <4>1
      <3> QED
        BY <3>1
    <2> QED
      BY <1>2, <2>1, <2>2, WithinShow
  <1>3. /\ Entries(B, u) /\ Once(B, u)
        /\ u \in DOMAIN listeners => ~Leaves(B, u)
        /\ Leaves(B, u) => Left(u)
        /\ \A a \in Attributes \ {"locked"} :
             u \in DOMAIN listeners => WillShow(B, u, a, objects[listeners[u]].status[a])
    BY DEF OnLine
  <1>4. Entries(S, u)
    BY <1>1, <1>3 DEF Entries
  <1> QED
    BY <1>1, <1>2, <1>3, <1>4 DEF OnLine

\* What a runnable has to keep.
Runs(T, U) ==
  /\ Backed(U)
  /\ Cleared(T) => Cleared(U)
  /\ conn = "listening" => \A u \in Voices : OnLine(U, u)

\* A runnable concerns the line only.
LEMMA RunFrame ==
  ASSUME Types, Screen, ListRuns, NEW T, T = Timeline, NEW U, U = Timeline', Runs(T, U)
  PROVE  Screen'
  <1>1. /\ UNCHANGED <<objects, listeners, doubled, conn, voices, toClient>>
        /\ ui # <<>> /\ ui' = Tail(ui)
    BY DEF ListRuns, server, wire, module
  <1>2. Nulls(ui')
    <2>1. /\ \A i \in 1..(Len(ui) - 1) : Tail(ui)[i] = ui[i + 1]
          /\ DOMAIN Tail(ui) = 1..(Len(ui) - 1) /\ DOMAIN ui = 1..Len(ui) /\ Len(ui) \in Nat
      BY <1>1, TimelineFacts, TailFacts
    <2>2. \A i \in 1..(Len(ui) - 1) : i + 1 \in 1..Len(ui)
      BY <2>1
    <2>3. Nulls(ui)
      BY DEF Screen
    <2> QED
      BY <2>1, <2>2, <2>3, <1>1 DEF Nulls
  <1>3. ASSUME NEW u \in Voices, conn = "listening" PROVE OnLine(U, u)'
    <2>1. OnLine(U, u)
      BY <1>3 DEF Runs
    <2>2. Leaves(U, u) => Left(u)'
      BY <2>1, <1>1 DEF OnLine, Left
    <2> QED
      BY <2>1, <2>2, <1>1, OnLineSame
  <1>4. conn = "joining" => Cleared(T)
    BY DEF Screen
  <1>5. Nulls(ui)' /\ (Running' => Backed(U)) /\ (conn' = "joining" => Cleared(U))
    BY <1>1, <1>2, <1>4 DEF Runs, Nulls
  <1>6. conn' = "listening" => \A u \in Voices : OnLine(U, u)'
    BY <1>1, <1>3
  <1> QED
    BY <1>5, <1>6 DEF Screen, Backed, Cleared, OnLine, Entries

\* The first runnable is an item behind the entries.
LEMMA HeadItem ==
  ASSUME Types, ListRuns, NEW T, T = Timeline, NEW d, d = Len(list) + 1, NEW t, t = Head(ui)
  PROVE  /\ Len(list) \in Nat /\ d \in DOMAIN T
         /\ \E n \in Nat : DOMAIN T = 1..n
         /\ T[d] = TaskItem(t, objects)
         /\ t.op = "clear" => T[d].op = "clear"
         /\ t.op \in {"add", "remove", "status"} => t.ref \in DOMAIN objects /\ Is(T, d, t.op, objects[t.ref].who)
         /\ t.op = "status" => T[d].attr = t.attr /\ T[d].status = objects[t.ref].status
         /\ \A p \in 1..Len(list) : /\ p \in DOMAIN T /\ p < d
                                    /\ T[p] = EntryItem(list[p])
                                    /\ Is(T, p, "add", list[p].who) /\ T[p].status = list[p].status
         /\ \A p \in DOMAIN T : p < d => p \in 1..Len(list)
  <1>1. /\ ui # <<>> /\ ui' = Tail(ui) /\ objects' = objects
        /\ t.op = "remove" => t.ref # NullListener
    BY DEF ListRuns, module
  <1>2. /\ Len(list) \in Nat /\ Len(ui) \in Nat /\ Len(ui) >= 1
        /\ DOMAIN T = 1..(Len(list) + Len(ui))
        /\ \A p \in 1..Len(list) : T[p] = EntryItem(list[p])
        /\ T[Len(list) + 1] = TaskItem(t, objects)
    BY <1>1, HeadLine
  <1>3. /\ t.op \in {"clear", "add", "remove", "status"}
        /\ t.ref \in DOMAIN objects \cup {NullListener}
        /\ t.op \in {"add", "status"} => t.ref \in DOMAIN objects
    BY <1>1, HeadTask
  <1>4. NullListener \notin DOMAIN objects
    BY LenProperties DEF Types, ModuleTypes, NullListener
  <1>5. \A p \in 1..Len(list) : Is(T, p, "add", list[p].who) /\ T[p].status = list[p].status
    BY <1>2, EntryItemFacts DEF Is
  <1>6. t.op \in {"add", "remove", "status"} => t.ref \in DOMAIN objects /\ t.ref # NullListener
    BY <1>1, <1>3, <1>4
  <1>7. T[d] = TaskItem(t, objects)
    BY <1>2
  <1>8. t.op \in {"add", "remove", "status"} => Is(T, d, t.op, objects[t.ref].who)
    BY <1>6, <1>7, TaskItemFacts DEF Is
  <1>9. t.op = "status" => T[d].attr = t.attr /\ T[d].status = objects[t.ref].status
    BY <1>6, <1>7, TaskItemFacts
  <1>10. t.op = "clear" => T[d].op = "clear"
    BY <1>7, TaskItemFacts
  <1>11. d \in DOMAIN T /\ (\A p \in 1..Len(list) : p \in DOMAIN T /\ p < d)
         /\ (\A p \in DOMAIN T : p < d => p \in 1..Len(list))
    BY <1>2
  <1>12. Len(list) + Len(ui) \in Nat
    BY <1>2
  <1> QED
    BY <1>2, <1>5, <1>6, <1>7, <1>8, <1>9, <1>10, <1>11, <1>12

\* clear(): whatever is before it is not seen any more.
LEMMA ClearRuns ==
  ASSUME Types, Screen, ListRuns, NEW T, T = Timeline, NEW U, U = Timeline',
         Head(ui).op = "clear", RunClear
  PROVE  Runs(T, U)
  <1> DEFINE n == Len(list) + Len(ui)
             k == Len(list) + 1
             m == n - k
             f == Past(k, m)
  <1>1. Within(U, m, T, n, f) /\ \A p \in 1..m : f[p] = p + k /\ U[p] = T[f[p]]
    BY ClearLine DEF ListRuns, RunClear, module
  <1>2. T[k].op = "clear" /\ k \in DOMAIN T /\ Len(list) \in Nat
    BY HeadItem
  <1>3. Backed(T) /\ (conn = "listening" => \A u \in Voices : OnLine(T, u))
    BY DEF Screen, ListRuns
  <1>4. n \in Nat /\ m \in Nat /\ k \in Nat /\ DOMAIN T = 1..n
    BY <1>1, <1>2 DEF Within
  <1>5. \A q \in 1..n : k < q => \E p \in 1..m : f[p] = q
    <2>1. ASSUME NEW q \in 1..n, k < q PROVE q - k \in 1..m /\ (q - k) + k = q
      BY <2>1, <1>4
    <2>2. ASSUME NEW q \in 1..n, k < q PROVE f[q - k] = q
      BY <2>1, <2>2, <1>1
    <2> QED
      BY <2>1, <2>2
  <1> HIDE DEF n, k, m, f
  <1>6. Backed(U)
    <2>1. ASSUME NEW i \in 1..m, NEW q \in 1..n, q < f[i], Is(T, q, "add", U[i].who), Lasts(T, q, f[i])
          PROVE  \E p \in 1..m : f[p] = q
      <3>1. f[i] > k
        BY <1>1, <1>4
      <3>2. ~(q < k)
        BY <2>1, <3>1, <1>2, <1>4 DEF Lasts
      <3>3. q # k
        BY <2>1, <1>2 DEF Is
      <3> QED
        BY <3>2, <3>3, <1>4, <1>5
    <2> QED
      BY <2>1, <1>1, <1>3, WithinBacked
  <1>7. Cleared(T) => Cleared(U)
    BY <1>1, WithinCleared
  <1>8. ASSUME NEW u \in Voices, OnLine(T, u) PROVE OnLine(U, u)
    <2>1. ASSUME NEW q \in 1..n, Live(T, q), T[q].op \in {"add", "remove", "status"}
          PROVE  \E p \in 1..m : f[p] = q
      <3>1. ~(q < k)
        BY <2>1, <1>2 DEF Live
      <3>2. q # k
        BY <2>1, <1>2
      <3> QED
        BY <3>1, <3>2, <1>4, <1>5
    <2>2. \A p \in 1..m : U[p].status = T[f[p]].status
      BY <1>1
    <2> QED
      BY <2>1, <2>2, <1>1, <1>8, WithinOnLine
  <1> QED
    BY <1>3, <1>6, <1>7, <1>8 DEF Runs

\* addSection(): the item does not move.
LEMMA AddRuns ==
  ASSUME Types, Screen, ListRuns, NEW T, T = Timeline, NEW U, U = Timeline',
         Head(ui).op = "add", RunAdd(Head(ui).ref)
  PROVE  Runs(T, U)
  <1>1. U = T
    BY AddLine DEF ListRuns, module
  <1>2. Backed(T) /\ (conn = "listening" => \A u \in Voices : OnLine(T, u))
    BY DEF Screen, ListRuns
  <1> QED
    BY <1>1, <1>2 DEF Runs

\* A removal that finds nothing is not one the screen waits for.
LEMMA NothingRuns ==
  ASSUME Types, Screen, ListRuns, NEW T, T = Timeline, NEW U, U = Timeline',
         Head(ui).op = "remove", NEW w, w = objects[Head(ui).ref].who,
         list' = list, \A i \in DOMAIN list : list[i].who # w
  PROVE  Runs(T, U)
  <1> DEFINE d == Len(list) + 1
             t == Head(ui)
  <1>0. t.ref \in DOMAIN objects /\ Is(T, d, "remove", w) /\ d \in DOMAIN T
        /\ (\A p \in 1..Len(list) : Is(T, p, "add", list[p].who))
        /\ (\A p \in DOMAIN T : p < d => p \in 1..Len(list))
    BY HeadItem
  <1>1. PICK m \in Nat, n \in Nat : \E f :
           /\ n = Len(list) + Len(ui) /\ m = n - 1
           /\ Within(U, m, T, n, f)
           /\ \A q \in 1..n : q # Len(list) + 1 => \E p \in 1..m : f[p] = q
           /\ \A p \in 1..m : U[p] = T[f[p]]
    BY NothingLine DEF ListRuns, module
  <1>2. PICK f : /\ Within(U, m, T, n, f)
                 /\ \A q \in 1..n : q # d => \E p \in 1..m : f[p] = q
                 /\ \A p \in 1..m : U[p] = T[f[p]]
    BY <1>1
  <1>3. Backed(T) /\ (conn = "listening" => \A u \in Voices : OnLine(T, u))
    BY DEF Screen, ListRuns
  <1>4. DOMAIN list = 1..Len(list) /\ Len(list) \in Nat
    BY TimelineFacts
  <1>5. DOMAIN T = 1..n
    BY <1>2 DEF Within
  <1> HIDE DEF d, t
  <1>6. Backed(U)
    <2>1. \A i \in 1..m, q \in 1..n :
            U[i].op = "status" /\ q < f[i] /\ Is(T, q, "add", U[i].who) /\ Lasts(T, q, f[i])
              => \E p \in 1..m : f[p] = q
      BY <1>0, <1>2 DEF Is
    <2> QED
      BY <2>1, <1>2, <1>3, WithinBacked
  <1>7. Cleared(T) => Cleared(U)
    BY <1>2, WithinCleared
  <1>8. ASSUME NEW u \in Voices, OnLine(T, u) PROVE OnLine(U, u)
    <2>1. ASSUME Live(T, d), u = w PROVE FALSE
      <3>1. Leaves(T, w)
        BY <2>1, <1>0 DEF Leaves
      <3>2. Entries(T, w) /\ Once(T, w)
        BY <2>1, <1>8 DEF OnLine
      <3>3. Cardinality(Seen(T, w)) # 0
        BY <3>1, <3>2 DEF Entries
      <3>4. Seen(T, w) # {}
        BY <3>3, FS_EmptySet
      <3>5. PICK p \in DOMAIN T : Is(T, p, "add", w) /\ Live(T, p)
        BY <3>4 DEF Seen
      <3>6. p < d
        BY <3>2, <3>5, <2>1, <1>0 DEF Once
      <3>7. p \in 1..Len(list)
        BY <3>6, <1>0
      <3> QED
        BY <3>5, <3>7, <1>0, <1>4 DEF Is
    <2>2. \A q \in 1..n : Live(T, q) /\ T[q].op \in {"add", "remove", "status"} /\ T[q].who = u
                            => \E p \in 1..m : f[p] = q
      BY <2>1, <1>0, <1>2 DEF Is
    <2>3. \A p \in 1..m : U[p].status = T[f[p]].status
      BY <1>2
    <2> QED
      BY <2>2, <2>3, <1>2, <1>8, WithinOnLine
  <1> QED
    BY <1>3, <1>6, <1>7, <1>8 DEF Runs

\* One entry of a listener is dropped.
LEMMA WithinLess ==
  ASSUME NEW S, NEW m, NEW B, NEW n, NEW f, Within(S, m, B, n, f), NEW u, NEW r \in Seen(B, u),
         \A q \in Seen(B, u) : q # r => \E p \in 1..m : f[p] = q,
         \A p \in 1..m : f[p] # r
  PROVE  Cardinality(Seen(S, u)) = Cardinality(Seen(B, u)) - 1
  <1> DEFINE kept == {q \in Seen(B, u) : \E p \in 1..m : f[p] = q}
  <1>1. kept = Seen(B, u) \ {r}
    OBVIOUS
  <1>2. Cardinality(Seen(S, u)) = Cardinality(kept)
    BY WithinCount
  <1>3. IsFiniteSet(Seen(B, u))
    <2>1. n \in Nat /\ DOMAIN B = 1..n
      BY DEF Within
    <2>2. IsFiniteSet(1..n)
      BY <2>1, FS_Interval
    <2>3. Seen(B, u) \in SUBSET (1..n)
      BY <2>1 DEF Seen
    <2> QED
      BY <2>2, <2>3, FS_Subset
  <1> HIDE DEF kept
  <1> QED
    BY <1>1, <1>2, <1>3, FS_RemoveElement

\* A removal takes the first entry of the listener out.
LEMMA RemoveRuns ==
  ASSUME Types, Screen, ListRuns, NEW T, T = Timeline, NEW U, U = Timeline',
         Head(ui).op = "remove", NEW w, w = objects[Head(ui).ref].who,
         NEW r \in 1..Len(list), list[r].who = w,
         list' \in Seq(Entry), Len(list') = Len(list) - 1,
         \A i \in 1..(Len(list) - 1) : list'[i] = IF i < r THEN list[i] ELSE list[i + 1]
  PROVE  Runs(T, U)
  <1> DEFINE d == Len(list) + 1
             t == Head(ui)
  <1>0. /\ Is(T, d, "remove", w) /\ d \in DOMAIN T
        /\ (\A p \in 1..Len(list) : p < d /\ Is(T, p, "add", list[p].who))
        /\ (\A p \in DOMAIN T : p < d => p \in 1..Len(list))
    BY HeadItem
  <1>1. PICK m \in Nat, n \in Nat : \E f :
           /\ n = Len(list) + Len(ui) /\ m = n - 2
           /\ Within(Timeline', m, Timeline, n, f)
           /\ \A q \in 1..n : q # Len(list) + 1 /\ q # r => \E p \in 1..m : f[p] = q
           /\ \A p \in 1..m : f[p] # r /\ f[p] # Len(list) + 1
           /\ \A p \in 1..m : Timeline'[p] = Timeline[f[p]]
    <2>1. ui # <<>> /\ ui' = Tail(ui) /\ objects' = objects
      BY DEF ListRuns, module
    <2> QED
      BY <2>1, RemoveLine, Zenon
  <1>2. PICK f : /\ Within(U, m, T, n, f)
                 /\ \A q \in 1..n : q # d /\ q # r => \E p \in 1..m : f[p] = q
                 /\ \A p \in 1..m : f[p] # r /\ f[p] # d
                 /\ \A p \in 1..m : U[p] = T[f[p]]
    BY <1>1
  <1>3. Backed(T) /\ (conn = "listening" => \A u \in Voices : OnLine(T, u))
    BY DEF Screen, ListRuns
  <1>4. DOMAIN list = 1..Len(list) /\ Len(list) \in Nat
    BY TimelineFacts
  <1>5. DOMAIN T = 1..n /\ DOMAIN U = 1..m /\ n \in Nat /\ \A p \in 1..m : f[p] \in 1..n
    BY <1>2 DEF Within
  <1>6. r < d /\ Is(T, r, "add", w) /\ r \in 1..n
    BY <1>0, <1>4, <1>5
  <1>7. \A l \in 1..n : r < l /\ l <= d => T[l].op # "clear"
    BY <1>0, <1>5 DEF Is
  <1>d. d \in 1..n /\ d \in Nat
    BY <1>0, <1>4, <1>5
  <1> HIDE DEF d, t
  <1>8. Live(T, r) <=> Live(T, d)
    BY <1>5, <1>6, <1>7, <1>d DEF Live
  <1>9. Backed(U)
    <2>1. ASSUME NEW i \in 1..m, NEW q \in 1..n,
                 U[i].op = "status", q < f[i], Is(T, q, "add", U[i].who), Lasts(T, q, f[i])
          PROVE  \E p \in 1..m : f[p] = q
      <3>1. CASE q = r
        <4>1. U[i].who = w /\ T[f[i]].op = "status" /\ T[f[i]].who = w /\ f[i] \in 1..n
          BY <3>1, <2>1, <1>2, <1>5, <1>6 DEF Is
        <4>2. d < f[i]
          <5>1. f[i] \notin 1..Len(list)
            BY <4>1, <1>0 DEF Is
          <5>2. ~(f[i] < d)
            BY <5>1, <4>1, <1>0, <1>5
          <5>3. f[i] # d
            BY <1>2
          <5> QED
            BY <5>2, <5>3, <4>1, <1>d
        <4>3. ~Lasts(T, d, f[i])
          BY <4>1, <4>2, <1>0, <1>3, <1>5 DEF Backed
        <4>4. PICK l \in 1..n : d < l /\ l < f[i] /\ T[l].op = "clear"
          BY <4>3, <1>5 DEF Lasts
        <4>5. r < l
          BY <4>4, <1>6, <1>d
        <4> QED
          BY <4>4, <4>5, <3>1, <2>1, <1>5 DEF Lasts
      <3>2. CASE q # r
        BY <3>2, <2>1, <1>0, <1>2 DEF Is
      <3> QED
        BY <3>1, <3>2
    <2> QED
      BY <2>1, <1>2, <1>3, WithinBacked
  <1>10. Cleared(T) => Cleared(U)
    BY <1>2, WithinCleared
  <1>11. \A p \in 1..m : U[p].status = T[f[p]].status
    BY <1>2
  <1>12. ASSUME NEW u \in Voices, OnLine(T, u), u # w \/ ~Live(T, d) PROVE OnLine(U, u)
    <2>1. \A q \in 1..n : Live(T, q) /\ T[q].op \in {"add", "remove", "status"} /\ T[q].who = u
                            => \E p \in 1..m : f[p] = q
      BY <1>0, <1>2, <1>6, <1>8, <1>12 DEF Is
    <2> QED
      BY <2>1, <1>2, <1>11, <1>12, WithinOnLine
  <1>13. ASSUME OnLine(T, w), Live(T, d) PROVE OnLine(U, w)
    <2>1. Leaves(T, w)
      BY <1>13, <1>0 DEF Leaves
    <2>2. Entries(T, w) /\ Once(T, w) /\ w \notin DOMAIN listeners
      BY <2>1, <1>13 DEF OnLine
    <2>3. ASSUME NEW p \in 1..m, Is(U, p, "remove", w), Live(U, p) PROVE FALSE
      <3>1. Is(T, f[p], "remove", w) /\ Live(T, f[p]) /\ f[p] \in DOMAIN T
        BY <2>3, <1>2, <1>5, WithinItems, WithinLive
      <3>2. f[p] = d
        BY <3>1, <2>2, <1>0, <1>13 DEF Once
      <3> QED
        BY <3>2, <1>2
    <2>4. ~Leaves(U, w) /\ Once(U, w)
      BY <2>3, <1>5 DEF Leaves, Once
    <2>5. r \in Seen(T, w)
      BY <1>5, <1>6, <1>8, <1>13 DEF Seen
    <2>6. \A q \in Seen(T, w) : q # r => \E p \in 1..m : f[p] = q
      <3>1. d \notin Seen(T, w)
        BY <1>0 DEF Seen, Is
      <3>2. Seen(T, w) \subseteq 1..n
        BY <1>5 DEF Seen
      <3> QED
        BY <3>1, <3>2, <1>2
    <2>7. \A p \in 1..m : f[p] # r
      BY <1>2
    <2>9. Cardinality(Seen(U, w)) = Cardinality(Seen(T, w)) - 1
      BY <2>5, <2>6, <2>7, <1>2, WithinLess
    <2>10. Entries(U, w)
      BY <2>1, <2>2, <2>4, <2>9 DEF Entries
    <2> QED
      BY <2>2, <2>4, <2>10 DEF OnLine
  <1> QED
    BY <1>3, <1>9, <1>10, <1>12, <1>13 DEF Runs

\* A change of status goes to the first entry of the listener, g: d is the
\* runnable.
ChangesFirst(T, U, m, n, f, w, a, d, g) ==
  /\ Within(U, m, T, n, f)
  /\ d \in 1..n /\ Is(T, d, "status", w) /\ T[d].attr = a
  /\ g \in 1..m /\ g \in 1..n /\ g < d /\ f[g] = g /\ Is(T, g, "add", w)
  /\ \A p \in 1..n : p < d => T[p].op = "add"
  /\ \A p \in 1..n : Is(T, p, "add", w) => g <= p
  /\ \A q \in 1..n : q # d => \E p \in 1..m : f[p] = q
  /\ \A p \in 1..m : f[p] # d
  /\ \A p \in 1..m : p # g => U[p].status = T[f[p]].status
  /\ \A b \in Attributes : b # a => U[g].status[b] = T[g].status[b]
  /\ U[g].status[a] = T[d].status[a]

\* The last change of the attribute decides before and after.
LEMMA StatusShow ==
  ASSUME NEW T, NEW U, NEW m, NEW n, NEW f, NEW w, NEW a, NEW d, NEW g,
         ChangesFirst(T, U, m, n, f, w, a, d, g),
         NEW b \in Attributes, NEW v, WillShow(T, w, b, v)
  PROVE  WillShow(U, w, b, v)
  <1>a. /\ Within(U, m, T, n, f)
        /\ d \in 1..n /\ Is(T, d, "status", w) /\ T[d].attr = a
        /\ g \in 1..m /\ g \in 1..n /\ g < d /\ f[g] = g /\ Is(T, g, "add", w)
        /\ U[g].status[a] = T[d].status[a]
    BY DEF ChangesFirst
  <1>b. /\ \A p \in 1..n : p < d => T[p].op = "add"
        /\ \A p \in 1..n : Is(T, p, "add", w) => g <= p
    BY DEF ChangesFirst
  <1>c. /\ \A q \in 1..n : q # d => \E p \in 1..m : f[p] = q
        /\ \A p \in 1..m : f[p] # d
    BY DEF ChangesFirst
  <1>d. /\ \A p \in 1..m : p # g => U[p].status = T[f[p]].status
        /\ b # a => U[g].status[b] = T[g].status[b]
    BY DEF ChangesFirst
  <1>1. DOMAIN T = 1..n /\ DOMAIN U = 1..m /\ n \in Nat /\ m \in Nat
        /\ \A p \in 1..m : f[p] \in 1..n
    BY <1>a DEF Within
  <1>2. \A l \in 1..n : g < l /\ l <= d => T[l].op # "clear"
    BY <1>a, <1>b, <1>1 DEF Is
  <1>3. Live(T, g) <=> Live(T, d)
    BY <1>a, <1>1, <1>2 DEF Live
  <1>4. ASSUME b # a \/ ~Live(T, d) PROVE WillShow(U, w, b, v)
    <2>1. \A q \in 1..n : (Live(T, q) /\ Is(T, q, "add", w)) \/ Changes(T, q, w, b)
                            => \E p \in 1..m : f[p] = q
      BY <1>a, <1>c, <1>4 DEF Is, Changes
    <2>2. ASSUME NEW p \in 1..m, p \in Seen(U, w) \/ Changes(U, p, w, b)
          PROVE  U[p].status[b] = T[f[p]].status[b]
      <3>1. CASE p # g
        BY <1>d, <3>1
      <3>2. CASE p = g /\ b # a
        BY <1>a, <1>d, <3>2
      <3>3. CASE p = g /\ ~Live(T, d)
        <4>1. ~Live(U, g)
          BY <1>a, <3>3, <1>3, WithinLive
        <4> QED
          BY <4>1, <3>3, <2>2 DEF Seen, Changes
      <3> QED
        BY <3>1, <3>2, <3>3, <1>4
    <2> QED
      BY <1>a, <2>1, <2>2, WithinShow
  <1>5. ASSUME b = a, Live(T, d) PROVE WillShow(U, w, b, v)
    <2>1. Changes(T, d, w, b)
      BY <1>a, <1>5 DEF Changes
    <2>2. PICK p \in 1..n : /\ Changes(T, p, w, b) /\ T[p].status[b] = v
                            /\ \A q \in 1..n : Changes(T, q, w, b) => q <= p
      BY <1>a, <2>1, <1>1 DEF WillShow
    <2>3. ASSUME NEW q \in 1..m PROVE Changes(U, q, w, b) <=> Changes(T, f[q], w, b)
      BY <1>a, WithinItems
    <2>4. CASE p # d
      <3>1. PICK x \in 1..m : f[x] = p
        BY <1>c, <2>4
      <3>2. Changes(U, x, w, b)
        BY <2>2, <2>3, <3>1
      <3>3. x # g
        BY <1>a, <2>2, <3>1 DEF Changes, Is
      <3>4. U[x].status[b] = v
        BY <1>d, <2>2, <3>1, <3>3
      <3>5. ASSUME NEW q \in 1..m, Changes(U, q, w, b) PROVE q <= x
        <4>1. f[q] <= f[x]
          BY <3>5, <2>2, <2>3, <3>1, <1>1
        <4> QED
          BY <1>a, <4>1, WithinOrder
      <3> QED
        BY <3>2, <3>4, <3>5, <1>1 DEF WillShow
    <2>5. CASE p = d
      <3>1. ASSUME NEW q \in 1..m PROVE ~Changes(U, q, w, b)
        <4>1. SUFFICES ASSUME Changes(T, f[q], w, b) PROVE FALSE
          BY <2>3
        <4>2. f[q] \in 1..n /\ f[q] <= d /\ f[q] # d
          BY <1>c, <4>1, <2>2, <2>5, <1>1
        <4>3. f[q] < d
          BY <1>1, <1>a, <4>2
        <4>4. T[f[q]].op = "add"
          BY <1>b, <4>2, <4>3
        <4> QED
          BY <4>1, <4>4 DEF Changes, Is
      <3>2. g \in Seen(U, w)
        <4>1. g \in Seen(T, w)
          BY <1>a, <1>1, <1>3, <1>5 DEF Seen
        <4>2. g \in Seen(U, w) <=> f[g] \in Seen(T, w)
          BY <1>a, WithinItems
        <4> QED
          BY <1>a, <4>1, <4>2
      <3>3. U[g].status[b] = v
        BY <1>a, <2>2, <2>5, <1>5
      <3>4. ASSUME NEW q \in Seen(U, w) PROVE g <= q
        <4>1. q \in 1..m
          BY <1>1 DEF Seen
        <4>2. f[q] \in Seen(T, w)
          BY <1>a, <4>1, WithinItems
        <4>3. f[q] \in 1..n /\ Is(T, f[q], "add", w)
          BY <4>2, <1>1 DEF Seen
        <4>4. f[g] <= f[q]
          BY <1>a, <1>b, <4>3
        <4> QED
          BY <1>a, <4>1, <4>4, WithinOrder
      <3> QED
        BY <3>1, <3>2, <3>3, <3>4, <1>1 DEF WillShow
    <2> QED
      BY <2>4, <2>5
  <1> QED
    BY <1>4, <1>5

\* A change of status: the listener will be shown as before.
LEMMA StatusRuns ==
  ASSUME Types, Screen, ListRuns, NEW T, T = Timeline, NEW U, U = Timeline',
         NEW t, t = Head(ui), t.op = "status", NEW w, w = objects[t.ref].who,
         NEW g, g = GetUserById(w), g # 0, RunStatus(t.ref, t.attr)
  PROVE  Runs(T, U)
  <1> DEFINE d == Len(list) + 1
             a == t.attr
  <1>0. /\ Is(T, d, "status", w) /\ d \in DOMAIN T /\ T[d].attr = a
        /\ T[d].status = objects[t.ref].status /\ t.ref \in DOMAIN objects
        /\ (\A p \in 1..Len(list) : /\ p < d /\ T[p].status = list[p].status
                                    /\ Is(T, p, "add", list[p].who))
        /\ (\A p \in DOMAIN T : p < d => p \in 1..Len(list))
    BY HeadItem
  <1>a. a \in Attributes
    BY HeadTask DEF ListRuns
  <1>b. /\ list' \in Seq(Entry) /\ Len(list') = Len(list) /\ g \in DOMAIN list
        /\ \A i \in DOMAIN list \ {g} : list'[i] = list[i]
        /\ list'[g].who = list[g].who
        /\ \A b \in Attributes :
             list'[g].status[b] = IF b = a THEN objects[t.ref].status[a] ELSE list[g].status[b]
    BY <1>0, <1>a, StatusFacts
  <1>c. DOMAIN list = 1..Len(list) /\ Len(list) \in Nat
    BY TimelineFacts
  <1>e. list[g].who = w /\ \A i \in DOMAIN list : list[i].who = w => g <= i
    BY TimelineFacts, FirstFacts
  <1>f. g \in 1..Len(list)
    BY <1>b, <1>c
  <1>1. PICK m \in Nat, n \in Nat : \E f :
           /\ n = Len(list) + Len(ui) /\ m = n - 1
           /\ Within(Timeline', m, Timeline, n, f)
           /\ \A q \in 1..n : q # Len(list) + 1 => \E p \in 1..m : f[p] = q
           /\ \A p \in 1..m : f[p] # Len(list) + 1
           /\ \A p \in 1..m : p # g => Timeline'[p] = Timeline[f[p]]
           /\ g \in 1..m /\ f[g] = g /\ Timeline'[g].status = list'[g].status
    <2>1. ui # <<>> /\ ui' = Tail(ui) /\ objects' = objects /\ Head(ui).op = "status"
      BY DEF ListRuns, module
    <2> QED
      BY <2>1, <1>b, <1>f, StatusLine, Zenon
  <1>2. PICK f : /\ Within(U, m, T, n, f)
                 /\ \A q \in 1..n : q # d => \E p \in 1..m : f[p] = q
                 /\ \A p \in 1..m : f[p] # d
                 /\ \A p \in 1..m : p # g => U[p] = T[f[p]]
                 /\ g \in 1..m /\ f[g] = g /\ U[g].status = list'[g].status
    BY <1>1
  <1>3. Backed(T) /\ (conn = "listening" => \A u \in Voices : OnLine(T, u))
    BY DEF Screen, ListRuns
  <1>5. DOMAIN T = 1..n /\ DOMAIN U = 1..m /\ n \in Nat /\ \A p \in 1..m : f[p] \in 1..n
    BY <1>2 DEF Within
  <1>6. g < d /\ Is(T, g, "add", w) /\ g \in 1..n
    BY <1>0, <1>2, <1>5, <1>e, <1>f
  <1>d. d \in 1..n /\ d \in Nat
    BY <1>0, <1>c, <1>5
  <1>7. \A p \in 1..n : p < d => T[p].op = "add"
    BY <1>0, <1>5 DEF Is
  <1>8. \A p \in 1..n : Is(T, p, "add", w) => g <= p
    <2>1. ASSUME NEW p \in 1..n, Is(T, p, "add", w) PROVE g <= p
      <3>1. CASE p < d
        <4>1. p \in 1..Len(list) /\ list[p].who = w
          BY <3>1, <2>1, <1>0, <1>5 DEF Is
        <4> QED
          BY <4>1, <1>c, <1>e
      <3>2. CASE ~(p < d)
        BY <3>2, <1>6, <1>d
      <3> QED
        BY <3>1, <3>2
    <2> QED
      BY <2>1
  <1>9. /\ U[g].status[a] = T[d].status[a]
        /\ \A b \in Attributes : b # a => U[g].status[b] = T[g].status[b]
    <2>1. U[g].status = list'[g].status /\ T[d].status = objects[t.ref].status /\ T[g].status = list[g].status
      BY <1>0, <1>2, <1>f
    <2> HIDE DEF a
    <2>2. list'[g].status[a] = objects[t.ref].status[a]
      BY <1>a, <1>b
    <2>3. \A b \in Attributes : b # a => list'[g].status[b] = list[g].status[b]
      BY <1>b
    <2> QED
      BY <2>1, <2>2, <2>3
  <1> HIDE DEF d, a
  <1>10. \A p \in 1..m : p # g => U[p].status = T[f[p]].status
    BY <1>2
  <1>11. Backed(U)
    <2>1. ASSUME NEW i \in 1..m, NEW q \in 1..n, Is(T, q, "add", U[i].who) PROVE \E p \in 1..m : f[p] = q
      BY <2>1, <1>0, <1>2 DEF Is
    <2> QED
      BY <2>1, <1>2, <1>3, WithinBacked
  <1>12. Cleared(T) => Cleared(U)
    BY <1>2, WithinCleared
  <1>13. ASSUME NEW u \in Voices, OnLine(T, u), u # w PROVE OnLine(U, u)
    <2>1. \A q \in 1..n : Live(T, q) /\ T[q].op \in {"add", "remove", "status"} /\ T[q].who = u
                            => \E p \in 1..m : f[p] = q
      BY <1>0, <1>2, <1>13 DEF Is
    <2>2. ASSUME NEW p \in 1..m, U[p].op \in {"add", "status"}, U[p].who = u
          PROVE  U[p].status = T[f[p]].status
      <3>1. p # g
        <4>1. T[g].op = "add" /\ T[g].who = w
          BY <1>6 DEF Is
        <4>2. U[g].who = w
          BY <4>1, <1>2 DEF Within
        <4> QED
          BY <4>2, <2>2, <1>13
      <3> QED
        BY <3>1, <1>10
    <2> QED
      BY <2>1, <2>2, <1>2, <1>13, WithinOnLine
  <1>15. ChangesFirst(T, U, m, n, f, w, a, d, g)
    <2>1. /\ Within(U, m, T, n, f) /\ g \in 1..m /\ f[g] = g
          /\ \A q \in 1..n : q # d => \E p \in 1..m : f[p] = q
          /\ \A p \in 1..m : f[p] # d
      BY <1>2
    <2>2. Is(T, d, "status", w) /\ T[d].attr = a
      BY <1>0
    <2> QED
      BY <2>1, <2>2, <1>6, <1>7, <1>8, <1>9, <1>10, <1>d DEF ChangesFirst
  <1>14. ASSUME OnLine(T, w) PROVE OnLine(U, w)
    <2>1. /\ Cardinality(Seen(U, w)) = Cardinality(Seen(T, w))
          /\ Leaves(U, w) <=> Leaves(T, w)
          /\ Once(T, w) <=> Once(U, w)
      <3>1. \A q \in 1..n : Live(T, q) /\ (Is(T, q, "add", w) \/ Is(T, q, "remove", w))
                              => \E p \in 1..m : f[p] = q
        BY <1>0, <1>2 DEF Is
      <3> QED
        BY <3>1, <1>2, WithinEntries
    <2>2. /\ Entries(T, w) /\ Once(T, w)
          /\ w \in DOMAIN listeners => ~Leaves(T, w)
          /\ Leaves(T, w) => Left(w)
          /\ \A b \in Attributes \ {"locked"} :
               w \in DOMAIN listeners => WillShow(T, w, b, objects[listeners[w]].status[b])
      BY <1>14 DEF OnLine
    <2>3. Entries(U, w)
      BY <2>1, <2>2 DEF Entries
    <2>4. ASSUME NEW b \in Attributes, NEW v, WillShow(T, w, b, v) PROVE WillShow(U, w, b, v)
      BY <1>15, <2>4, StatusShow
    <2> QED
      BY <2>1, <2>2, <2>3, <2>4 DEF OnLine
  <1> QED
    BY <1>3, <1>11, <1>12, <1>13, <1>14 DEF Runs

\* Every runnable.
LEMMA RunScreen ==
  ASSUME Types, Screen, ListRuns
  PROVE  Screen'
  <1> DEFINE t == Head(ui)
  <1>1. ASSUME NEW T, T = Timeline, NEW U, U = Timeline' PROVE Runs(T, U)
    <2>1. CASE t.op = "clear" /\ RunClear
      BY <2>1, <1>1, ClearRuns
    <2>2. CASE t.op = "add" /\ RunAdd(t.ref)
      BY <2>2, <1>1, AddRuns
    <2>3. CASE t.op = "remove" /\ t.ref # NullListener /\ RunRemove(t.ref)
      <3>1. ASSUME NEW w, w = objects[t.ref].who PROVE Runs(T, U)
        <4>0. ui # <<>> /\ list \in Seq(Entry)
          BY TimelineFacts DEF ListRuns
        <4>1. t.ref \in DOMAIN objects
          BY <4>0, <2>3, HeadTask
        <4>2. /\ GetUserById(w) = 0 => list' = list
              /\ GetUserById(w) # 0 =>
                    /\ GetUserById(w) \in 1..Len(list)
                    /\ list' \in Seq(Entry) /\ Len(list') = Len(list) - 1
                    /\ \A i \in 1..(Len(list) - 1) :
                         list'[i] = IF i < GetUserById(w) THEN list[i] ELSE list[i + 1]
          BY <4>1, <3>1, <2>3, RemoveFacts
        <4>3. CASE GetUserById(w) = 0
          <5>1. \A i \in DOMAIN list : list[i].who # w
            BY <4>0, <4>3, FirstFacts
          <5>2. Head(ui).op = "remove" /\ list' = list
            BY <2>3, <4>2, <4>3
          <5> QED
            BY <5>1, <5>2, <1>1, <3>1, NothingRuns
        <4>4. CASE GetUserById(w) # 0
          <5>1. ASSUME NEW r, r = GetUserById(w) PROVE Runs(T, U)
            <6>1. /\ r \in 1..Len(list) /\ list' \in Seq(Entry) /\ Len(list') = Len(list) - 1
                  /\ \A i \in 1..(Len(list) - 1) : list'[i] = IF i < r THEN list[i] ELSE list[i + 1]
              BY <5>1, <4>2, <4>4
            <6>2. list[r].who = w
              BY <5>1, <4>0, <4>4, FirstFacts
            <6>3. Head(ui).op = "remove"
              BY <2>3
            <6> QED
              BY <6>1, <6>2, <6>3, <1>1, <3>1, RemoveRuns
          <5> QED
            BY <5>1
        <4> QED
          BY <4>3, <4>4
      <3> QED
        BY <3>1
    <2>4. CASE t.op = "status" /\ GetUserById(objects[t.ref].who) # 0 /\ RunStatus(t.ref, t.attr)
      <3>1. ASSUME NEW tt, tt = Head(ui), NEW w, w = objects[tt.ref].who, NEW g, g = GetUserById(w)
            PROVE  Runs(T, U)
        <4>1. tt.op = "status" /\ g # 0 /\ RunStatus(tt.ref, tt.attr)
          BY <3>1, <2>4
        <4> QED
          BY <4>1, <3>1, <1>1, StatusRuns
      <3> QED
        BY <3>1
    <2> QED
      BY <2>1, <2>2, <2>3, <2>4 DEF ListRuns
  <1>2. ASSUME NEW T, T = Timeline, NEW U, U = Timeline' PROVE Screen'
    <2>1. Runs(T, U)
      BY <1>1, <1>2
    <2> QED
      BY <2>1, <1>2, RunFrame
  <1> QED
    BY <1>2

\* The connection is lost, or the application ends.
LEMMA HungScreen ==
  ASSUME Types, Screen, Hung
  PROVE  Screen'
  <1>1. UNCHANGED <<objects, listeners, doubled>> /\ conn' = "closed"
    BY DEF Hung, module
  <1>2. CASE UNCHANGED <<ui, list, app>>
    <2>1. ASSUME NEW T, T = Timeline PROVE T = Timeline' /\ (Running' => Backed(T))
      BY <2>1, <1>1, <1>2, SameLine DEF Screen, Running
    <2>2. Nulls(ui')
      BY <1>2 DEF Screen
    <2> QED
      BY <2>1, <2>2, <1>1 DEF Screen
  <1>3. CASE app' = "crashed" /\ (ui' = ui \/ (ui # <<>> /\ ui' = Tail(ui)))
    <2>1. CASE ui' = ui
      BY <2>1, <1>1, <1>3 DEF Screen, Running, Nulls
    <2>2. CASE ui # <<>> /\ ui' = Tail(ui)
      <3>1. /\ \A i \in 1..(Len(ui) - 1) : Tail(ui)[i] = ui[i + 1]
            /\ DOMAIN Tail(ui) = 1..(Len(ui) - 1) /\ DOMAIN ui = 1..Len(ui) /\ Len(ui) \in Nat
        BY <2>2, TimelineFacts, TailFacts
      <3>2. \A i \in 1..(Len(ui) - 1) : i + 1 \in 1..Len(ui)
        BY <3>1
      <3>3. Nulls(ui)
        BY DEF Screen
      <3>4. Nulls(ui')
        BY <3>1, <3>2, <3>3, <2>2 DEF Nulls
      <3> QED
        BY <3>4, <1>1, <1>3 DEF Screen, Running
    <2> QED
      BY <2>1, <2>2, <1>3
  <1> QED
    BY <1>2, <1>3 DEF Hung

\* The invariant of the screen is inductive.
LEMMA ScreenNext ==
  ASSUME Follow, Callers, Screen, [Next]_vars
  PROVE  Screen'
  <1>0. Types /\ Wire
    BY DEF Follow
  <1>1. CASE Hung
    BY <1>0, <1>1, HungScreen
  <1>2. CASE Connect
    BY <1>0, <1>2, ConnectScreen
  <1>3. CASE CreateListenersModule
    BY <1>0, <1>3, CreateScreen
  <1>4. CASE HandleMessage
    BY <1>4, HandleScreen
  <1>5. CASE ServerStep
    BY <1>0, <1>5, ServerScreen
  <1>6. CASE ListRuns
    BY <1>0, <1>6, RunScreen
  <1>7. CASE UNCHANGED <<server, toClient, conn, module, ui, list, app>>
    <2>1. UNCHANGED <<list, ui, objects, listeners, doubled, conn>> /\ (Running' => Running)
          /\ UNCHANGED <<voices, toClient>>
      BY <1>7 DEF server, module, Running
    <2>2. \A u \in Voices : Left(u) => Left(u)'
      BY <2>1 DEF Left
    <2> QED
      BY <2>1, <2>2, ScreenSame
  <1>8. ScreenStep
    BY <1>0, ScreenSteps
  <1> QED
    BY <1>1, <1>2, <1>3, <1>4, <1>5, <1>6, <1>7, <1>8 DEF ScreenStep

LEMMA ScreenInit == Init => Callers /\ Screen
  <1>0. SUFFICES ASSUME Init PROVE Callers /\ Screen
    OBVIOUS
  <1>1. /\ toClient = <<>> /\ DOMAIN toClient = {} /\ ui = <<>> /\ list = <<>> /\ DOMAIN ui = {}
        /\ conn = "closed"
    BY <1>0 DEF Init
  <1>2. Types
    BY <1>0, TypesInit
  <1>3. DOMAIN Timeline = {}
    BY <1>1, <1>2, TimelineFacts
  <1> QED
    BY <1>1, <1>3 DEF Callers, Screen, Nulls, Backed

-----------------------------------------------------------------------------
(* No runnable about a listener ends the application.                      *)
LEMMA StatusFinds ==
  ASSUME Types, Screen, Running, ui # <<>>, Head(ui).op = "status"
  PROVE  GetUserById(objects[Head(ui).ref].who) # 0
  <1> DEFINE d == Len(list) + 1
             t == Head(ui)
             w == objects[t.ref].who
             T == Timeline
  <1>1. /\ list \in Seq(Entry) /\ Len(list) \in Nat /\ Len(ui) \in Nat
        /\ DOMAIN list = 1..Len(list) /\ DOMAIN ui = 1..Len(ui)
        /\ DOMAIN T = 1..(Len(list) + Len(ui))
        /\ \A p \in 1..Len(list) : T[p] = EntryItem(list[p])
        /\ \A i \in 1..Len(ui) : T[Len(list) + i] = TaskItem(ui[i], objects)
    BY TimelineFacts
  <1>2. t = ui[1] /\ 1 \in DOMAIN ui /\ t.ref \in DOMAIN objects
    BY HeadTask
  <1>3. t.ref # NullListener
    BY <1>2, LenProperties DEF Types, ModuleTypes, NullListener
  <1>4. d \in DOMAIN T /\ T[d] = TaskItem(t, objects)
    BY <1>1, <1>2
  <1>5. Backed(T)
    BY DEF Screen
  <1> HIDE DEF d, t, T
  <1>6. T[d].op = "status" /\ T[d].who = w
    BY <1>3, <1>4, TaskItemFacts DEF t
  <1> HIDE DEF w
  <1>7. PICK p \in DOMAIN T : p < d /\ Is(T, p, "add", w)
    BY <1>4, <1>5, <1>6 DEF Backed
  <1>8. p \in 1..Len(list)
    BY <1>1, <1>7 DEF d
  <1>9. list[p].who = w
    BY <1>1, <1>7, <1>8, EntryItemFacts DEF Is
  <1>10. GetUserById(w) # 0
    BY <1>1, <1>8, <1>9, FirstFacts
  <1> QED
    BY <1>10 DEF w, t

\* The only exceptions are those of a menu, and of a caller that left before the list.
LEMMA FindNext ==
  ASSUME Types, Screen, RunnablesFindListeners, [Next]_vars
  PROVE  RunnablesFindListeners'
  <1>0. /\ \A f \in faults : f.site = "listenerLeft" => f.known
        /\ \A f \in faults : f.site # "listenerStatus"
    BY DEF RunnablesFindListeners, LeaveSafeOnceListed, StatusFindsEntry
  <1>1. ASSUME NEW f, faults' = faults \cup {f}, f.site = "listenerLeft" => f.known,
               f.site # "listenerStatus"
        PROVE  RunnablesFindListeners'
    <2>1. /\ \A e \in faults' : e.site = "listenerLeft" => e.known
          /\ \A e \in faults' : e.site # "listenerStatus"
      BY <1>0, <1>1
    <2> QED
      BY <2>1 DEF RunnablesFindListeners, LeaveSafeOnceListed, StatusFindsEntry
  <1>2. CASE faults' = faults
    BY <1>2 DEF RunnablesFindListeners, LeaveSafeOnceListed, StatusFindsEntry
  <1>3. CASE RunPosted
    <2>1. RunStep
      BY <1>3, RunSteps
    <2>2. ui # <<>> /\ Running
      BY <1>3 DEF RunPosted
    <2>3. CASE Head(ui).op = "remove" /\ Head(ui).ref = NullListener /\ Crash(Fault("listenerLeft", ~Head(ui).listed))
      <3>1. Head(ui).listed = FALSE
        BY <2>2, <2>3, HeadTask DEF Screen, Nulls
      <3>2. faults' = faults \cup {Fault("listenerLeft", TRUE)}
        BY <2>3, <3>1 DEF Crash
      <3>3. Fault("listenerLeft", TRUE).known /\ Fault("listenerLeft", TRUE).site = "listenerLeft"
        BY DEF Fault
      <3> QED
        BY <3>2, <3>3, <1>1
    <2>4. CASE Head(ui).op = "status" /\ GetUserById(objects[Head(ui).ref].who) = 0
      BY <2>2, <2>4, StatusFinds
    <2>5. CASE UNCHANGED activity
      BY <2>5, <1>2 DEF activity
    <2> QED
      BY <2>1, <2>3, <2>4, <2>5 DEF RunStep
  <1>4. CASE ChooseFromMenu
    <2>1. CASE menu.pos \notin DOMAIN list
      <3>1. faults' = faults \cup {Fault("listenerMenu", menu.shifted)}
        BY <2>1, <1>4 DEF ChooseFromMenu, Crash
      <3>2. Fault("listenerMenu", menu.shifted).site = "listenerMenu"
        BY DEF Fault
      <3> QED
        BY <3>1, <3>2, <1>1
    <2>2. CASE menu.pos \in DOMAIN list
      BY <2>2, <1>2, <1>4 DEF ChooseFromMenu, activity
    <2> QED
      BY <2>1, <2>2
  <1>5. ASSUME NEW i \in DOMAIN list, OpenMenu(i) PROVE faults' = faults
    BY <1>5 DEF OpenMenu, activity
  <1>6. ASSUME NEW mute \in BOOLEAN, MuteRoom(mute) PROVE faults' = faults
    BY <1>6 DEF MuteRoom, activity
  <1>7. CASE Server
    BY <1>7, <1>2 DEF Server, ServerAnswers, ModeratorMutesRoom, VoiceJoins, VoiceLeaves, VoiceChanges,
                ClientUnchanged, activity
  <1>8. CASE Connect \/ ConnectionLost \/ CreateListenersModule
    BY <1>8, <1>2 DEF Connect, ConnectionLost, CreateListenersModule, activity
  <1>9. CASE HandleMessage
    BY <1>9, <1>2 DEF HandleMessage, OnSharedObjectClear, OnGetCurrentUsers, OnUserJoin, OnUserLeft,
           OnAttribute, OnRoomMuted, Receive, activity
  <1>10. CASE UNCHANGED vars
    BY <1>10, <1>2 DEF vars, activity
  <1> QED
    BY <1>2, <1>3, <1>4, <1>5, <1>6, <1>7, <1>8, <1>9, <1>10 DEF Next, User

\* Once the list of listeners was handled, no runnable about a listener ends the
\* application, although none of them tests what it was handed or finds, and
\* although the connection may be replaced while they wait: what a change of
\* status looks up is there, because a listener is announced before, and removed
\* after, whatever is said about it.
THEOREM RunnablesFind == Spec => []RunnablesFindListeners
  <1> DEFINE Inv == Follow /\ Callers /\ Screen /\ RunnablesFindListeners
  <1>1. Init => Inv
    <2>1. Init => RunnablesFindListeners
      BY DEF Init, RunnablesFindListeners, LeaveSafeOnceListed, StatusFindsEntry
    <2> QED
      BY <2>1, FollowInit, ScreenInit
  <1>2. Inv /\ [Next]_vars => Inv'
    <2>1. SUFFICES ASSUME Inv, [Next]_vars PROVE Inv'
      OBVIOUS
    <2>2. Follow'
      BY <2>1, FollowNext
    <2>3. Callers'
      BY <2>1, CallersNext DEF Follow
    <2>4. Screen'
      BY <2>1, ScreenNext
    <2>5. RunnablesFindListeners'
      BY <2>1, FindNext DEF Follow
    <2> QED
      BY <2>2, <2>3, <2>4, <2>5
  <1>3. Inv => RunnablesFindListeners
    OBVIOUS
  <1> QED
    BY <1>1, <1>2, <1>3, PTL DEF Spec

-----------------------------------------------------------------------------
(* The screen, when everything has run.                                    *)
LEMMA SettledLine ==
  ASSUME Types, Screen, Settled, NEW T, T = Timeline
  PROVE  /\ list \in Seq(Entry) /\ DOMAIN list = 1..Len(list)
         /\ DOMAIN T = DOMAIN list
         /\ \A p \in DOMAIN list : T[p] = EntryItem(list[p])
         /\ \A u \in Voices : OnLine(T, u)
         /\ \A u : Seen(T, u) = Positions(u) /\ ~Leaves(T, u) /\ \A a, p : p \in DOMAIN T => ~Changes(T, p, u, a)
  <1>1. ui = <<>> /\ conn = "listening"
    BY DEF Settled
  <1>2. /\ list \in Seq(Entry) /\ Len(list) \in Nat /\ DOMAIN list = 1..Len(list)
        /\ DOMAIN T = 1..(Len(list) + Len(ui))
        /\ \A p \in 1..Len(list) : T[p] = EntryItem(list[p])
    BY TimelineFacts
  <1>3. DOMAIN T = DOMAIN list
    BY <1>1, <1>2
  <1>4. \A p \in DOMAIN T : T[p].op = "add" /\ T[p].who = list[p].who
    BY <1>2, <1>3, EntryItemFacts
  <1>5. \A p \in DOMAIN T : Live(T, p)
    BY <1>4 DEF Live
  <1>6. ASSUME NEW u PROVE Seen(T, u) = Positions(u) /\ ~Leaves(T, u)
    BY <1>3, <1>4, <1>5 DEF Seen, Leaves, Positions, Is
  <1>7. \A u, a, p : p \in DOMAIN T => ~Changes(T, p, u, a)
    BY <1>4 DEF Changes, Is
  <1>8. \A u \in Voices : OnLine(T, u)
    BY <1>1 DEF Screen
  <1> QED
    BY <1>2, <1>3, <1>6, <1>7, <1>8

\* With nothing posted, the line is the list, and nothing in it is to change.
LEMMA ScreenImplies ==
  ASSUME Follow, Screen
  PROVE  ScreenShowsConference
  <1>0. SUFFICES ASSUME Settled
                 PROVE  /\ \A u \in Voices : Cardinality(Positions(u)) =
                             (IF u \in voices THEN 1 ELSE 0) + (IF u \in doubled THEN 1 ELSE 0)
                        /\ \A u \in voices, a \in Attributes \ {"locked"} :
                             list[GetUserById(u)].status[a] = status[u][a]
    BY DEF ScreenShowsConference, ScreenCountsVoices, FirstEntryCurrent
  <1>1. Types
    BY DEF Follow
  <1>2. /\ DOMAIN listeners = voices
        /\ \A u \in voices : objects[listeners[u]] = [who |-> u, status |-> status[u]]
    BY <1>0, ChannelImplies DEF Follow, ModuleFollowsConference
  <1>3. voices \subseteq Voices
    BY <1>1 DEF Types, ServerTypes
  <1>4. ASSUME NEW T, T = Timeline
        PROVE  /\ list \in Seq(Entry) /\ DOMAIN list = 1..Len(list)
               /\ DOMAIN T = DOMAIN list
               /\ \A p \in DOMAIN list : T[p] = EntryItem(list[p])
               /\ \A u \in Voices : OnLine(T, u)
               /\ \A u : Seen(T, u) = Positions(u) /\ ~Leaves(T, u) /\ \A a, p : p \in DOMAIN T => ~Changes(T, p, u, a)
    BY <1>0, <1>1, <1>4, SettledLine
  <1>5. ASSUME NEW u \in Voices
        PROVE  Cardinality(Positions(u)) = (IF u \in voices THEN 1 ELSE 0) + (IF u \in doubled THEN 1 ELSE 0)
    <2>1. ASSUME NEW T, T = Timeline
          PROVE  Cardinality(Positions(u)) = (IF u \in voices THEN 1 ELSE 0) + (IF u \in doubled THEN 1 ELSE 0)
      <3>1. Seen(T, u) = Positions(u) /\ ~Leaves(T, u) /\ Entries(T, u)
        BY <2>1, <1>4 DEF OnLine
      <3> QED
        BY <3>1, <1>2 DEF Entries
    <2> QED
      BY <2>1
  <1>6. ASSUME NEW u \in voices, NEW a \in Attributes \ {"locked"}
        PROVE  list[GetUserById(u)].status[a] = status[u][a]
    <2>1. ASSUME NEW T, T = Timeline PROVE list[GetUserById(u)].status[a] = status[u][a]
      <3>1. /\ list \in Seq(Entry) /\ DOMAIN T = DOMAIN list /\ DOMAIN list = 1..Len(list)
            /\ \A p \in DOMAIN list : T[p] = EntryItem(list[p])
            /\ OnLine(T, u) /\ Seen(T, u) = Positions(u) /\ \A p \in DOMAIN T : ~Changes(T, p, u, a)
        BY <2>1, <1>3, <1>4
      <3>2. objects[listeners[u]].status[a] = status[u][a] /\ u \in DOMAIN listeners
        <4>1. objects[listeners[u]] = [who |-> u, status |-> status[u]] /\ u \in DOMAIN listeners
          BY <1>2, Zenon
        <4> QED
          BY <4>1
      <3>3. WillShow(T, u, a, status[u][a])
        BY <3>1, <3>2 DEF OnLine
      <3>4. PICK p \in Positions(u) : T[p].status[a] = status[u][a] /\ \A q \in Positions(u) : p <= q
        BY <3>1, <3>3 DEF WillShow
      <3>5. p \in DOMAIN list /\ list[p].who = u /\ p \in Nat
        BY <3>1, <3>4 DEF Positions
      <3>6. GetUserById(u) # 0
        BY <3>1, <3>5, FirstFacts
      <3>7. /\ GetUserById(u) \in DOMAIN list /\ list[GetUserById(u)].who = u
            /\ \A i \in DOMAIN list : list[i].who = u => GetUserById(u) <= i
        BY <3>1, <3>6, FirstFacts
      <3>8. GetUserById(u) \in Positions(u)
        BY <3>7 DEF Positions
      <3>9. p <= GetUserById(u) /\ GetUserById(u) <= p /\ GetUserById(u) \in Nat
        BY <3>1, <3>4, <3>5, <3>7, <3>8
      <3>10. GetUserById(u) = p
        BY <3>5, <3>9
      <3>11. T[p].status = list[p].status
        BY <3>1, <3>5, EntryItemFacts
      <3> QED
        BY <3>4, <3>10, <3>11
    <2> QED
      BY <2>1
  <1> QED
    BY <1>5, <1>6

\* Once the UI thread has caught up, the screen has one entry for every caller,
\* the first of which shows whether the caller talks and is muted, and a second
\* one for exactly the callers that joined between the subscription and the list.
THEOREM ScreenShows == Spec => []ScreenShowsConference
  <1> DEFINE Inv == Follow /\ Callers /\ Screen
  <1>1. Init => Inv
    BY FollowInit, ScreenInit
  <1>2. Inv /\ [Next]_vars => Inv'
    <2>1. SUFFICES ASSUME Inv, [Next]_vars PROVE Inv'
      OBVIOUS
    <2>2. Follow'
      BY <2>1, FollowNext
    <2>3. Callers'
      BY <2>1, CallersNext DEF Follow
    <2>4. Screen'
      BY <2>1, ScreenNext
    <2> QED
      BY <2>2, <2>3, <2>4
  <1>3. Inv => ScreenShowsConference
    BY ScreenImplies
  <1> QED
    BY <1>1, <1>2, <1>3, PTL DEF Spec
=============================================================================
