------------------------ MODULE MeetingSessionProofs ------------------------
(***************************************************************************)
(* The meeting session, for any number of users, connections and events.   *)
(*                                                                         *)
(* Each connection is one conversation.  At most one step of its handshake *)
(* is on its way, in either direction, and tells how far the client and the*)
(* server are (Wire).  From the answer to getParticipants on, the list in  *)
(* that answer, and later the client's own, mirrors the members of the     *)
(* meeting: the messages behind it bring it up to date, and each of them   *)
(* finds the user it looks up (Mirror, Answered, Current).  The contacts   *)
(* are what the last runnable about a user leaves (Contacts).              *)
(***************************************************************************)
EXTENDS MeetingSession, FiniteSetTheorems, TLAPS

\* What is written to either side of the connection, and posted to the UI thread.
Requests ==
  [type : {"connect", "getMyUserId", "getParticipants"}]
    \cup [type : {"connectSO"}, so : SharedObjects]
    \cup [type : {"setParticipantStatus"}, who : Users, raised : BOOLEAN]
    \cup [type : {"kickUser", "privateMessage"}, who : Users]

Messages ==
  [type : {"connectSuccess", "connectRejected", "myUserId"}]
    \cup [type : {"clear"}, so : SharedObjects]
    \cup [type : {"participants"}, map : Statuses]
    \cup [type : {"participantJoined"}, who : Others, raised : BOOLEAN]
    \cup [type : {"participantStatusChange"}, who : Users, raised : BOOLEAN]
    \cup [type : {"participantLeft", "messageReceived"}, who : Others]
    \cup [type : {"kickUserCallback"}, who : Users]

Tasks == [op : {"clear"}] \cup [op : {"add", "remove", "status"}, who : Users]

-----------------------------------------------------------------------------
(* What the first messages of a queue do to the list of participants: the   *)
(* user u is listed after the messages k + 1 to i of q, and its flag is v    *)
(* after all from k + 1 on.                                                  *)
Listed(list, q, k, i, u) ==
  \/ \E j \in (k + 1)..i : Joins(q[j], u) /\ \A l \in (j + 1)..i : ~Leaves(q[l], u)
  \/ u \in DOMAIN list /\ \A l \in (k + 1)..i : ~Leaves(q[l], u)

Raised(list, q, k, u, v) ==
  \/ \E j \in (k + 1)..Len(q) :
       /\ SetsHand(q[j], u) /\ q[j].raised = v
       /\ \A l \in (j + 1)..Len(q) : ~SetsHand(q[l], u)
  \/ list[u] = v /\ \A l \in (k + 1)..Len(q) : ~SetsHand(q[l], u)

\* A message whose handler looks its user up.
Needs(m) == m.type \in {"participantLeft", "participantStatusChange"}

\* From the list, taken at message k, the messages that follow lead to the
\* members M with their flags H, and every lookup on the way succeeds.
Mirror(list, q, k, M, H) ==
  /\ Me \in DOMAIN list
  /\ \A u \in Users : u \in M <=> Listed(list, q, k, Len(q), u)
  /\ \A u \in Users : u \in M => Raised(list, q, k, u, H[u])
  /\ \A i \in (k + 1)..Len(q) : Needs(q[i]) => Listed(list, q, k, i - 1, q[i].who)

LEMMA ListedAppend ==
  ASSUME NEW S, NEW q \in Seq(S), NEW m, NEW list, NEW u, NEW k \in 0..Len(q)
  PROVE  /\ \A i \in k..Len(q) : Listed(list, Append(q, m), k, i, u) <=> Listed(list, q, k, i, u)
         /\ Listed(list, Append(q, m), k, Len(q) + 1, u)
              <=> Joins(m, u) \/ (Listed(list, q, k, Len(q), u) /\ ~Leaves(m, u))
<1> DEFINE r == Append(q, m)
           n == Len(q)
<1>1. n \in Nat /\ r[n + 1] = m /\ \A i \in 1..n : r[i] = q[i]
  OBVIOUS
<1>2. ~(Joins(m, u) /\ Leaves(m, u))
  BY DEF Joins, Leaves
<1> HIDE DEF r, n
<1>3. k \in 0..n
  BY DEF n
<1>4. ASSUME NEW i \in k..n PROVE Listed(list, r, k, i, u) <=> Listed(list, q, k, i, u)
  <2>1. \A j \in (k + 1)..i : r[j] = q[j] /\ \A l \in (j + 1)..i : r[l] = q[l]
    BY <1>1, <1>3
  <2> QED
    BY <2>1 DEF Listed
<1>5. Listed(list, r, k, n + 1, u) <=> Joins(m, u) \/ (Listed(list, q, k, n, u) /\ ~Leaves(m, u))
  <2>1. ASSUME Joins(m, u) PROVE Listed(list, r, k, n + 1, u)
    <3>1. n + 1 \in (k + 1)..(n + 1) /\ \A l \in (n + 1 + 1)..(n + 1) : FALSE
      BY <1>1, <1>3
    <3> QED
      BY <1>1, <2>1, <3>1 DEF Listed
  <2>2. ASSUME Listed(list, q, k, n, u), ~Leaves(m, u) PROVE Listed(list, r, k, n + 1, u)
    <3>1. CASE u \in DOMAIN list /\ \A l \in (k + 1)..n : ~Leaves(q[l], u)
      <4>1. \A l \in (k + 1)..(n + 1) : ~Leaves(r[l], u)
        BY <1>1, <1>3, <2>2, <3>1
      <4> QED
        BY <3>1, <4>1 DEF Listed
    <3>2. ASSUME NEW j \in (k + 1)..n, Joins(q[j], u), \A l \in (j + 1)..n : ~Leaves(q[l], u)
          PROVE  Listed(list, r, k, n + 1, u)
      <4>1. j \in (k + 1)..(n + 1) /\ Joins(r[j], u)
        BY <1>1, <1>3, <3>2
      <4>2. \A l \in (j + 1)..(n + 1) : ~Leaves(r[l], u)
        BY <1>1, <1>3, <2>2, <3>2
      <4> QED
        BY <4>1, <4>2 DEF Listed
    <3> QED
      BY <2>2, <3>1, <3>2 DEF Listed
  <2>3. ASSUME Listed(list, r, k, n + 1, u)
        PROVE  Joins(m, u) \/ (Listed(list, q, k, n, u) /\ ~Leaves(m, u))
    <3>1. CASE u \in DOMAIN list /\ \A l \in (k + 1)..(n + 1) : ~Leaves(r[l], u)
      <4>1. ~Leaves(m, u) /\ \A l \in (k + 1)..n : ~Leaves(q[l], u)
        BY <1>1, <1>3, <3>1
      <4> QED
        BY <3>1, <4>1 DEF Listed
    <3>2. ASSUME NEW j \in (k + 1)..(n + 1), Joins(r[j], u),
                 \A l \in (j + 1)..(n + 1) : ~Leaves(r[l], u)
          PROVE  Joins(m, u) \/ (Listed(list, q, k, n, u) /\ ~Leaves(m, u))
      <4>1. CASE j = n + 1
        BY <1>1, <3>2, <4>1
      <4>2. CASE j # n + 1
        <5>1. j \in (k + 1)..n /\ Joins(q[j], u) /\ ~Leaves(m, u)
          BY <1>1, <1>3, <3>2, <4>2
        <5>2. \A l \in (j + 1)..n : ~Leaves(q[l], u)
          BY <1>1, <1>3, <3>2, <4>2
        <5> QED
          BY <5>1, <5>2 DEF Listed
      <4> QED
        BY <4>1, <4>2
    <3> QED
      BY <2>3, <3>1, <3>2 DEF Listed
  <2> QED
    BY <2>1, <2>2, <2>3
<1> QED
  BY <1>4, <1>5 DEF r, n

\* Without the first message: it was before the list, or it changed the list.
LEMMA ListedTail ==
  ASSUME NEW S, NEW q \in Seq(S), q # <<>>, NEW list, NEW u, NEW k \in 1..Len(q)
  PROVE  \A i \in k..Len(q) : Listed(list, Tail(q), k - 1, i - 1, u) <=> Listed(list, q, k, i, u)
<1> DEFINE r == Tail(q)
<1>1. \A i \in 2..Len(q) : r[i - 1] = q[i]
  OBVIOUS
<1>2. Len(q) \in Nat
  OBVIOUS
<1> HIDE DEF r
<1> SUFFICES ASSUME NEW i \in k..Len(q)
             PROVE  Listed(list, r, k - 1, i - 1, u) <=> Listed(list, q, k, i, u)
  BY DEF r
<1>3. ASSUME Listed(list, q, k, i, u) PROVE Listed(list, r, k - 1, i - 1, u)
  <2>1. CASE u \in DOMAIN list /\ \A l \in (k + 1)..i : ~Leaves(q[l], u)
    <3>1. ASSUME NEW l \in (k - 1 + 1)..(i - 1) PROVE ~Leaves(r[l], u)
      <4>1. l + 1 \in (k + 1)..i /\ r[l + 1 - 1] = q[l + 1] /\ l + 1 - 1 = l
        BY <1>1, <1>2
      <4> QED
        BY <2>1, <4>1
    <3> QED
      BY <2>1, <3>1 DEF Listed
  <2>2. ASSUME NEW j \in (k + 1)..i, Joins(q[j], u), \A l \in (j + 1)..i : ~Leaves(q[l], u)
        PROVE  Listed(list, r, k - 1, i - 1, u)
    <3>1. j - 1 \in (k - 1 + 1)..(i - 1) /\ Joins(r[j - 1], u)
      BY <1>1, <1>2, <2>2
    <3>2. ASSUME NEW l \in (j - 1 + 1)..(i - 1) PROVE ~Leaves(r[l], u)
      <4>1. l + 1 \in (j + 1)..i /\ r[l + 1 - 1] = q[l + 1] /\ l + 1 - 1 = l
        BY <1>1, <1>2
      <4> QED
        BY <2>2, <4>1
    <3> QED
      BY <3>1, <3>2 DEF Listed
  <2> QED
    BY <1>3, <2>1, <2>2 DEF Listed
<1>4. ASSUME Listed(list, r, k - 1, i - 1, u) PROVE Listed(list, q, k, i, u)
  <2>1. CASE u \in DOMAIN list /\ \A l \in (k - 1 + 1)..(i - 1) : ~Leaves(r[l], u)
    <3>1. ASSUME NEW l \in (k + 1)..i PROVE ~Leaves(q[l], u)
      <4>1. l - 1 \in (k - 1 + 1)..(i - 1) /\ r[l - 1] = q[l]
        BY <1>1, <1>2
      <4> QED
        BY <2>1, <4>1
    <3> QED
      BY <2>1, <3>1 DEF Listed
  <2>2. ASSUME NEW j \in (k - 1 + 1)..(i - 1), Joins(r[j], u),
               \A l \in (j + 1)..(i - 1) : ~Leaves(r[l], u)
        PROVE  Listed(list, q, k, i, u)
    <3>1. j + 1 \in (k + 1)..i /\ r[j + 1 - 1] = q[j + 1] /\ j + 1 - 1 = j
      BY <1>1, <1>2
    <3>2. ASSUME NEW l \in (j + 1 + 1)..i PROVE ~Leaves(q[l], u)
      <4>1. l - 1 \in (j + 1)..(i - 1) /\ r[l - 1] = q[l]
        BY <1>1, <1>2
      <4> QED
        BY <2>2, <4>1
    <3> QED
      BY <2>2, <3>1, <3>2 DEF Listed
  <2> QED
    BY <1>4, <2>1, <2>2 DEF Listed
<1> QED
  BY <1>3, <1>4

LEMMA ListedHead ==
  ASSUME NEW S, NEW q \in Seq(S), q # <<>>, NEW list, NEW list2, NEW u,
         u \in DOMAIN list2 <=> Joins(q[1], u) \/ (u \in DOMAIN list /\ ~Leaves(q[1], u))
  PROVE  \A i \in 1..Len(q) : Listed(list2, Tail(q), 0, i - 1, u) <=> Listed(list, q, 0, i, u)
<1>1. Len(q) \in Nat /\ 1 \in 1..Len(q) /\ 0 + 1 = 1 /\ 1 - 1 = 0
  OBVIOUS
<1> SUFFICES ASSUME NEW i \in 1..Len(q)
             PROVE  Listed(list2, Tail(q), 0, i - 1, u) <=> Listed(list, q, 0, i, u)
  OBVIOUS
<1>2. Listed(list2, Tail(q), 0, i - 1, u) <=> Listed(list2, q, 1, i, u)
  BY <1>1, ListedTail
<1>3. Listed(list2, q, 1, i, u) <=> Listed(list, q, 0, i, u)
  <2>1. ASSUME Listed(list2, q, 1, i, u) PROVE Listed(list, q, 0, i, u)
    <3>1. CASE u \in DOMAIN list2 /\ \A l \in (1 + 1)..i : ~Leaves(q[l], u)
      <4>1. CASE Joins(q[1], u)
        BY <1>1, <3>1, <4>1 DEF Listed
      <4>2. CASE u \in DOMAIN list /\ ~Leaves(q[1], u)
        <5>1. \A l \in (0 + 1)..i : l = 1 \/ l \in (1 + 1)..i
          BY <1>1
        <5> QED
          BY <3>1, <4>2, <5>1 DEF Listed
      <4> QED
        BY <3>1, <4>1, <4>2
    <3>2. CASE \E j \in (1 + 1)..i : Joins(q[j], u) /\ \A l \in (j + 1)..i : ~Leaves(q[l], u)
      <4>1. \A j \in (1 + 1)..i : j \in (0 + 1)..i
        BY <1>1
      <4> QED
        BY <3>2, <4>1 DEF Listed
    <3> QED
      BY <2>1, <3>1, <3>2 DEF Listed
  <2>2. ASSUME Listed(list, q, 0, i, u) PROVE Listed(list2, q, 1, i, u)
    <3>0. \A l \in (1 + 1)..i : l \in (0 + 1)..i
      BY <1>1
    <3>1. CASE u \in DOMAIN list /\ \A l \in (0 + 1)..i : ~Leaves(q[l], u)
      <4>1. u \in DOMAIN list2
        BY <1>1, <3>1
      <4> QED
        BY <3>0, <3>1, <4>1 DEF Listed
    <3>2. ASSUME NEW j \in (0 + 1)..i, Joins(q[j], u), \A l \in (j + 1)..i : ~Leaves(q[l], u)
          PROVE  Listed(list2, q, 1, i, u)
      <4>1. CASE j = 1
        BY <3>2, <4>1 DEF Listed
      <4>2. CASE j # 1
        <5>1. j \in (1 + 1)..i
          BY <1>1, <4>2
        <5> QED
          BY <3>2, <5>1 DEF Listed
      <4> QED
        BY <4>1, <4>2
    <3> QED
      BY <2>2, <3>1, <3>2 DEF Listed
  <2> QED
    BY <2>1, <2>2
<1> QED
  BY <1>2, <1>3
-----------------------------------------------------------------------------
(* The flags of the list, along the same three changes of the queue.        *)
LEMMA RaisedAppend ==
  ASSUME NEW S, NEW q \in Seq(S), NEW m, NEW list, NEW u, NEW v, NEW w, NEW k \in 0..Len(q),
         IF SetsHand(m, u) THEN m.raised = w ELSE Raised(list, q, k, u, v) /\ w = v
  PROVE  Raised(list, Append(q, m), k, u, w)
<1> DEFINE r == Append(q, m)
           n == Len(q)
<1>1. n \in Nat /\ r[n + 1] = m /\ Len(r) = n + 1 /\ \A i \in 1..n : r[i] = q[i]
  OBVIOUS
<1>2. k \in 0..n
  OBVIOUS
<1>3. SetsHand(m, u) => m.raised = w
  OBVIOUS
<1>4. ~SetsHand(m, u) => Raised(list, q, k, u, v) /\ w = v
  OBVIOUS
<1> HIDE DEF r
<1>5. CASE SetsHand(m, u)
  <2>1. n + 1 \in (k + 1)..(n + 1) /\ \A l \in (n + 1 + 1)..(n + 1) : FALSE
    BY <1>1, <1>2
  <2>2. Raised(list, r, k, u, w)
    BY <1>1, <1>3, <1>5, <2>1 DEF Raised
  <2> QED
    BY <2>2 DEF r
<1>6. CASE ~SetsHand(m, u)
  <2> HIDE DEF n
  <2>1. CASE list[u] = v /\ \A l \in (k + 1)..n : ~SetsHand(q[l], u)
    <3>1. \A l \in (k + 1)..(n + 1) : ~SetsHand(r[l], u)
      BY <1>1, <1>2, <1>6, <2>1
    <3>2. Raised(list, r, k, u, w)
      BY <1>1, <1>4, <1>6, <2>1, <3>1 DEF Raised
    <3> QED
      BY <3>2 DEF r
  <2>2. ASSUME NEW j \in (k + 1)..n, SetsHand(q[j], u), q[j].raised = v,
               \A l \in (j + 1)..n : ~SetsHand(q[l], u)
        PROVE  Raised(list, Append(q, m), k, u, w)
    <3>1. j \in (k + 1)..(n + 1) /\ SetsHand(r[j], u) /\ r[j].raised = v
      BY <1>1, <1>2, <2>2
    <3>2. \A l \in (j + 1)..(n + 1) : ~SetsHand(r[l], u)
      BY <1>1, <1>2, <1>6, <2>2
    <3>3. Raised(list, r, k, u, w)
      BY <1>1, <1>4, <1>6, <3>1, <3>2 DEF Raised
    <3> QED
      BY <3>3 DEF r
  <2> QED
    BY <1>4, <1>6, <2>1, <2>2 DEF Raised, n
<1> QED
  BY <1>5, <1>6

LEMMA RaisedTail ==
  ASSUME NEW S, NEW q \in Seq(S), q # <<>>, NEW list, NEW u, NEW v, NEW k \in 1..Len(q),
         Raised(list, q, k, u, v)
  PROVE  Raised(list, Tail(q), k - 1, u, v)
<1> DEFINE r == Tail(q)
           n == Len(q)
<1>1. n \in Nat /\ Len(r) = n - 1 /\ \A i \in 2..n : r[i - 1] = q[i]
  OBVIOUS
<1>2. k \in 1..n
  OBVIOUS
<1> HIDE DEF r, n
<1>3. CASE list[u] = v /\ \A l \in (k + 1)..n : ~SetsHand(q[l], u)
  <2>1. ASSUME NEW l \in (k - 1 + 1)..(n - 1) PROVE ~SetsHand(r[l], u)
    <3>1. l + 1 \in (k + 1)..n /\ r[l + 1 - 1] = q[l + 1] /\ l + 1 - 1 = l
      BY <1>1, <1>2
    <3> QED
      BY <1>3, <3>1
  <2>2. Raised(list, r, k - 1, u, v)
    BY <1>1, <1>3, <2>1 DEF Raised
  <2> QED
    BY <2>2 DEF r
<1>4. ASSUME NEW j \in (k + 1)..n, SetsHand(q[j], u), q[j].raised = v,
             \A l \in (j + 1)..n : ~SetsHand(q[l], u)
      PROVE  Raised(list, Tail(q), k - 1, u, v)
  <2>1. j - 1 \in (k - 1 + 1)..(n - 1) /\ r[j - 1] = q[j]
    BY <1>1, <1>2
  <2>2. ASSUME NEW l \in (j - 1 + 1)..(n - 1) PROVE ~SetsHand(r[l], u)
    <3>1. l + 1 \in (j + 1)..n /\ r[l + 1 - 1] = q[l + 1] /\ l + 1 - 1 = l
      BY <1>1, <1>2
    <3> QED
      BY <1>4, <3>1
  <2>3. Raised(list, r, k - 1, u, v)
    BY <1>1, <1>4, <2>1, <2>2 DEF Raised
  <2> QED
    BY <2>3 DEF r
<1> QED
  BY <1>3, <1>4 DEF Raised, n

\* The first message is handled, and the list holds the flag it set.
LEMMA RaisedHead ==
  ASSUME NEW S, NEW q \in Seq(S), q # <<>>, NEW list, NEW list2, NEW u, NEW v,
         Raised(list, q, 0, u, v),
         list2[u] = IF SetsHand(q[1], u) THEN q[1].raised ELSE list[u]
  PROVE  Raised(list2, Tail(q), 0, u, v)
<1>1. Len(q) \in Nat /\ 1 \in 1..Len(q) /\ 0 + 1 = 1 /\ 1 - 1 = 0
  OBVIOUS
<1>2. Raised(list2, q, 1, u, v)
  <2>1. CASE list[u] = v /\ \A l \in (0 + 1)..Len(q) : ~SetsHand(q[l], u)
    <3>1. list2[u] = v
      BY <1>1, <2>1
    <3>2. \A l \in (1 + 1)..Len(q) : l \in (0 + 1)..Len(q)
      BY <1>1
    <3> QED
      BY <2>1, <3>1, <3>2 DEF Raised
  <2>2. ASSUME NEW j \in (0 + 1)..Len(q), SetsHand(q[j], u), q[j].raised = v,
               \A l \in (j + 1)..Len(q) : ~SetsHand(q[l], u)
        PROVE  Raised(list2, q, 1, u, v)
    <3>1. CASE j = 1
      <4>1. list2[u] = v
        BY <2>2, <3>1
      <4> QED
        BY <2>2, <3>1, <4>1 DEF Raised
    <3>2. CASE j # 1
      <4>1. j \in (1 + 1)..Len(q)
        BY <1>1, <3>2
      <4> QED
        BY <2>2, <4>1 DEF Raised
    <3> QED
      BY <3>1, <3>2
  <2> QED
    BY <2>1, <2>2 DEF Raised
<1> QED
  BY <1>1, <1>2, RaisedTail

(* The list and the members keep agreeing.                                  *)
LEMMA MirrorAppend ==
  ASSUME NEW S, NEW q \in Seq(S), NEW m, NEW list, NEW k \in 0..Len(q),
         NEW M, NEW H, NEW M2, NEW H2, Mirror(list, q, k, M, H),
         \A u \in Users : u \in M2 <=> (Joins(m, u) \/ (u \in M /\ ~Leaves(m, u))),
         \A u \in Users : u \in M2 =>
           IF SetsHand(m, u) THEN m.raised = H2[u] ELSE u \in M /\ H2[u] = H[u],
         Needs(m) => m.who \in Users /\ m.who \in M
  PROVE  Mirror(list, Append(q, m), k, M2, H2)
<1> DEFINE r == Append(q, m)
           n == Len(q)
<1>1. n \in Nat /\ Len(r) = n + 1 /\ r[n + 1] = m /\ k \in 0..n /\ \A i \in 1..n : r[i] = q[i]
  OBVIOUS
<1>2. \A i \in k..n, u \in Users : Listed(list, r, k, i, u) <=> Listed(list, q, k, i, u)
  BY ListedAppend
<1>3. \A u \in Users : Listed(list, r, k, n + 1, u)
                         <=> (Joins(m, u) \/ (Listed(list, q, k, n, u) /\ ~Leaves(m, u)))
  BY ListedAppend
<1>4. \A u \in Users : u \in M <=> Listed(list, q, k, n, u)
  BY DEF Mirror
<1>5. \A u \in Users : u \in M2 => Raised(list, r, k, u, H2[u])
  <2> SUFFICES ASSUME NEW u \in Users, u \in M2 PROVE Raised(list, r, k, u, H2[u])
    OBVIOUS
  <2>1. u \in M => Raised(list, q, k, u, H[u])
    BY DEF Mirror
  <2>2. IF SetsHand(m, u) THEN m.raised = H2[u] ELSE u \in M /\ H2[u] = H[u]
    OBVIOUS
  <2>3. IF SetsHand(m, u) THEN m.raised = H2[u]
                          ELSE Raised(list, q, k, u, H[u]) /\ H2[u] = H[u]
    BY <2>1, <2>2
  <2> QED
    BY <2>3, RaisedAppend
<1>6. \A i \in (k + 1)..n : Needs(q[i]) => Listed(list, q, k, i - 1, q[i].who)
  BY DEF Mirror
<1>7. \A u : \A i \in k..n : Listed(list, r, k, i, u) <=> Listed(list, q, k, i, u)
  BY ListedAppend
<1> HIDE DEF r, n
<1>8. \A i \in (k + 1)..(n + 1) : Needs(r[i]) => Listed(list, r, k, i - 1, r[i].who)
  <2> SUFFICES ASSUME NEW i \in (k + 1)..(n + 1), Needs(r[i])
               PROVE  Listed(list, r, k, i - 1, r[i].who)
    OBVIOUS
  <2>1. CASE i = n + 1
    <3>1. r[i] = m /\ i - 1 = n /\ n \in k..n
      BY <1>1, <2>1
    <3>2. Listed(list, q, k, n, m.who)
      BY <1>4, <3>1
    <3> QED
      BY <1>7, <3>1, <3>2
  <2>2. CASE i # n + 1
    <3>1. i \in (k + 1)..n /\ i - 1 \in k..n /\ r[i] = q[i]
      BY <1>1, <2>2
    <3> QED
      BY <1>6, <1>7, <3>1
  <2> QED
    BY <2>1, <2>2
<1>9. \A u \in Users : u \in M2 <=> Listed(list, r, k, n + 1, u)
  BY <1>3, <1>4
<1>10. Me \in DOMAIN list
  BY DEF Mirror
<1>11. Mirror(list, r, k, M2, H2)
  BY <1>1, <1>5, <1>8, <1>9, <1>10 DEF Mirror
<1> QED
  BY <1>11 DEF r

LEMMA MirrorTail ==
  ASSUME NEW S, NEW q \in Seq(S), q # <<>>, NEW list, NEW k \in 1..Len(q), NEW M, NEW H,
         Mirror(list, q, k, M, H)
  PROVE  Mirror(list, Tail(q), k - 1, M, H)
<1> DEFINE r == Tail(q)
           n == Len(q)
<1>1. n \in Nat /\ Len(r) = n - 1 /\ k \in 1..n /\ \A i \in 2..n : r[i - 1] = q[i]
  OBVIOUS
<1>2. \A u : \A i \in k..n : Listed(list, r, k - 1, i - 1, u) <=> Listed(list, q, k, i, u)
  BY ListedTail
<1>3. \A u \in Users : u \in M <=> Listed(list, q, k, n, u)
  BY DEF Mirror
<1>4. \A u \in Users : u \in M => Raised(list, q, k, u, H[u])
  BY DEF Mirror
<1>5. \A u \in Users : u \in M => Raised(list, r, k - 1, u, H[u])
  BY <1>4, RaisedTail
<1>6. \A i \in (k + 1)..n : Needs(q[i]) => Listed(list, q, k, i - 1, q[i].who)
  BY DEF Mirror
<1> HIDE DEF r, n
<1>7. \A u \in Users : u \in M <=> Listed(list, r, k - 1, n - 1, u)
  BY <1>1, <1>2, <1>3
<1>8. ASSUME NEW i \in (k - 1 + 1)..(n - 1), Needs(r[i])
      PROVE  Listed(list, r, k - 1, i - 1, r[i].who)
  <2>1. i + 1 \in (k + 1)..n /\ r[i + 1 - 1] = q[i + 1] /\ i + 1 - 1 = i /\ i \in k..n
    BY <1>1
  <2>2. Listed(list, q, k, i, q[i + 1].who)
    BY <1>6, <1>8, <2>1
  <2> QED
    BY <1>2, <2>1, <2>2
<1>9. Me \in DOMAIN list
  BY DEF Mirror
<1>10. Mirror(list, r, k - 1, M, H)
  BY <1>1, <1>5, <1>7, <1>8, <1>9 DEF Mirror
<1> QED
  BY <1>10 DEF r

\* The handler of the first message brings the list up to date with it.
LEMMA MirrorHead ==
  ASSUME NEW S, NEW q \in Seq(S), q # <<>>, NEW list, NEW list2, NEW M, NEW H,
         Mirror(list, q, 0, M, H), Me \in DOMAIN list2,
         \A u : u \in DOMAIN list2 <=> (Joins(q[1], u) \/ (u \in DOMAIN list /\ ~Leaves(q[1], u))),
         \A u \in DOMAIN list2 :
           list2[u] = IF SetsHand(q[1], u) THEN q[1].raised ELSE list[u]
  PROVE  Mirror(list2, Tail(q), 0, M, H)
<1> DEFINE r == Tail(q)
           n == Len(q)
<1>1. n \in Nat /\ Len(r) = n - 1 /\ n \in 1..n /\ \A i \in 2..n : r[i - 1] = q[i]
  OBVIOUS
<1>2. \A u : \A i \in 1..n : Listed(list2, r, 0, i - 1, u) <=> Listed(list, q, 0, i, u)
  BY ListedHead
<1>3. \A u \in Users : u \in M <=> Listed(list, q, 0, n, u)
  BY DEF Mirror
<1>4. \A u \in Users : u \in M => Raised(list, q, 0, u, H[u])
  BY DEF Mirror
<1>5. \A i \in (0 + 1)..n : Needs(q[i]) => Listed(list, q, 0, i - 1, q[i].who)
  BY DEF Mirror
<1>6. \A u, v : (Raised(list, q, 0, u, v) /\ u \in DOMAIN list2) => Raised(list2, r, 0, u, v)
  BY RaisedHead
<1> HIDE DEF r, n
<1>7. \A u \in Users : u \in M <=> Listed(list2, r, 0, n - 1, u)
  BY <1>1, <1>2, <1>3
<1>8. ASSUME NEW u \in Users, u \in M PROVE Raised(list2, r, 0, u, H[u])
  <2>1. CASE u \in DOMAIN list2
    BY <1>4, <1>6, <1>8, <2>1
  <2>2. CASE u \notin DOMAIN list2
    \* It joins later: the flag is that of a later message.
    <3>1. Listed(list2, r, 0, n - 1, u)
      BY <1>7, <1>8
    <3>2. PICK j \in (0 + 1)..(n - 1) : Joins(r[j], u)
      BY <2>2, <3>1 DEF Listed
    <3>3. j + 1 \in (0 + 1)..n /\ q[j + 1] = r[j] /\ j + 1 # 1
      <4>1. j + 1 \in 2..n /\ j + 1 - 1 = j
        BY <1>1
      <4> QED
        BY <1>1, <4>1
    <3>4. SetsHand(q[j + 1], u)
      BY <3>2, <3>3 DEF Joins, SetsHand
    <3>5. PICK i \in (0 + 1)..n : /\ SetsHand(q[i], u) /\ q[i].raised = H[u]
                                  /\ \A l \in (i + 1)..n : ~SetsHand(q[l], u)
      BY <1>4, <1>8, <3>3, <3>4 DEF Raised, n
    <3>6. i # 1
      BY <1>1, <3>3, <3>4, <3>5
    <3>7. i - 1 \in (0 + 1)..(n - 1) /\ r[i - 1] = q[i]
      BY <1>1, <3>6
    <3>8. ASSUME NEW l \in (i - 1 + 1)..(n - 1) PROVE ~SetsHand(r[l], u)
      <4>1. l + 1 \in (i + 1)..n /\ l + 1 \in 2..n /\ l + 1 - 1 = l
        BY <1>1
      <4>2. r[l] = q[l + 1]
        BY <1>1, <4>1
      <4> QED
        BY <3>5, <4>1, <4>2
    <3> QED
      BY <1>1, <3>5, <3>7, <3>8 DEF Raised
  <2> QED
    BY <2>1, <2>2
<1>9. ASSUME NEW i \in (0 + 1)..(n - 1), Needs(r[i]) PROVE Listed(list2, r, 0, i - 1, r[i].who)
  <2>1. i + 1 \in (0 + 1)..n /\ i + 1 \in 2..n /\ i + 1 - 1 = i /\ i \in 1..n
    BY <1>1
  <2>2. Listed(list, q, 0, i, q[i + 1].who) /\ r[i] = q[i + 1]
    BY <1>1, <1>5, <1>9, <2>1
  <2> QED
    BY <1>2, <2>1, <2>2
<1>10. Mirror(list2, r, 0, M, H)
  BY <1>1, <1>7, <1>8, <1>9 DEF Mirror
<1> QED
  BY <1>10 DEF r
-----------------------------------------------------------------------------
(* The inductive invariant.                                                 *)
Types ==
  /\ toServer \in Seq(Requests) /\ toClient \in Seq(Messages) /\ ui \in Seq(Tasks)
  /\ members \subseteq Users /\ arrived \subseteq Others
  /\ handRaised \in [Users -> BOOLEAN]
  /\ subscribed \subseteq SharedObjects /\ sharedObjects \subseteq SharedObjects
  /\ conn \in {"open", "closed"} /\ sessions \in 0..MaxSessions
  /\ participants \in [DOMAIN participants -> BOOLEAN] /\ DOMAIN participants \subseteq Users
  /\ moderatorCount \in Nat /\ participantCount \in Nat
  /\ privateChats \in [Others -> Nat] \cup {NoModule}
  /\ contacts \subseteq Users /\ chats \subseteq Others

ActivityTypes ==
  /\ kicked \in BOOLEAN /\ reconnecting \in BOOLEAN
  /\ app \in {"running", "finished", "crashed"}
  /\ exceptions \subseteq [site : Sites, synced : BOOLEAN]
  /\ events \in 0..MaxEvents

\* The handshake: one request or answer after the other, up to the list.
Hellos == {"connect", "getMyUserId", "connectSuccess", "connectRejected", "myUserId"}
Asks(m) ==
  m.type \in {"getParticipants", "participants"}
    \/ (m.type \in {"connectSO", "clear"} /\ m.so = "participantsSO")
Handshake(m) == m.type \in Hellos \/ Asks(m)
Quiet(q) == \A i \in DOMAIN q : ~Handshake(q[i])
Single(q) == \A i, j \in DOMAIN q : Handshake(q[i]) /\ Handshake(q[j]) => i = j

OneHandshake ==
  /\ Single(toServer) /\ Single(toClient)
  /\ Quiet(toServer) \/ Quiet(toClient)

Broadcasts == {"participantJoined", "participantLeft", "participantStatusChange",
               "kickUserCallback"}

\* What is known of the connection as long as message m is on its way: the
\* objects the client asked for, those the server subscribed it to, and whether
\* the server has let the client in.
Fits(m, asked, given, in) ==
  /\ m.type \in Hellos => "participantsSO" \notin asked
  /\ Handshake(m) /\ m.type \notin {"connect", "connectRejected"} => in
  /\ Asks(m) => "participantsSO" \in asked /\ "privateSO" \notin asked
  /\ m.type = "connectSO" => m.so \in asked
  /\ m.type \in {"getParticipants", "participants"} \cup Broadcasts => "participantsSO" \in given
  /\ m.type = "clear" => m.so \in given
  /\ m.type = "messageReceived" => "privateSO" \in given

AllFit(q, asked, given, in) == \A i \in DOMAIN q : Fits(q[i], asked, given, in)

Wire ==
  /\ conn = "closed" => toServer = <<>> /\ toClient = <<>> /\ subscribed = {}
  /\ subscribed \subseteq sharedObjects
  /\ Synced => "participantsSO" \in sharedObjects
  /\ conn = "open" /\ Synced => "participantsSO" \in subscribed
  /\ conn = "open" /\ "participantsSO" \in sharedObjects \ subscribed => DOMAIN participants = {}
  /\ AllFit(toServer, sharedObjects, subscribed, Me \in members)
  /\ AllFit(toClient, sharedObjects, subscribed, Me \in members)
  /\ OneHandshake

\* The list, or the answer that will replace it, and what is on its way agree
\* with the server.
Current ==
  conn = "open" /\ Synced => Mirror(participants, toClient, 0, members, handRaised)
Answered ==
  \A k \in DOMAIN toClient : toClient[k].type = "participants" =>
    /\ Mirror(toClient[k].map, toClient, k, members, handRaised)
    /\ \A u \in Users : Listed(participants, toClient, 0, k - 1, u) => u \in DOMAIN toClient[k].map
NoGhosts ==
  conn = "open" /\ "participantsSO" \in sharedObjects =>
    \A u \in Users : Listed(participants, toClient, 0, Len(toClient), u) => u \in members

\* Shown after the first i runnables, and after all of them.
Shown(shown, tasks, i, u) ==
  \/ \E j \in 1..i :
       /\ tasks[j].op = "add" /\ tasks[j].who = u
       /\ \A l \in (j + 1)..i : ~Hides(tasks[l], u)
  \/ u \in shown /\ \A l \in 1..i : ~Hides(tasks[l], u)

InRoster(u) == "participantsSO" \in sharedObjects /\ u \in DOMAIN participants

\* Once its chat has ended the connection, a user is in the list of participants
\* but not shown.
Contacts ==
  /\ \A u \in Users : Shown(contacts, ui, Len(ui), u) => InRoster(u)
  /\ conn = "open" => \A u \in Users : InRoster(u) => Shown(contacts, ui, Len(ui), u)
  /\ \A i \in DOMAIN ui : ui[i].op = "status" => Shown(contacts, ui, i - 1, ui[i].who)

FirstConnection ==
  /\ sessions = 0 => conn = "closed" /\ sharedObjects = {} /\ ui = <<>>
  /\ sessions <= 1 =>
       /\ "participantsSO" \notin sharedObjects =>
            /\ contacts = {} /\ chats = {}
            /\ \A i \in DOMAIN ui : ui[i].op = "clear"
       /\ \A i \in DOMAIN ui : ui[i].op = "clear" => i = 1 /\ contacts = {} /\ chats = {}

Chats == Synced \/ chats # {} => privateChats \in [Others -> Nat]

\* At most one view is displayed that has a chat, and the chat is open.
Displays == displayed \subseteq chats /\ \A u, v \in displayed : u = v

Lookups == LookupsSafeOnceSynced /\ RunnablesFindContacts

MInv ==
  /\ Types /\ ActivityTypes /\ Wire /\ Current /\ Answered /\ NoGhosts /\ Contacts
  /\ FirstConnection /\ ChatsFollowRoster /\ Chats /\ Displays /\ CountersCoverRoster
  /\ Lookups
-----------------------------------------------------------------------------
(* The contact list, along the runnables that are posted and run.           *)
Adds(task, u) == task.op = "add" /\ task.who = u

LEMMA ShownAppend ==
  ASSUME NEW S, NEW q \in Seq(S), NEW m, NEW shown, NEW u
  PROVE  /\ \A i \in 0..Len(q) : Shown(shown, Append(q, m), i, u) <=> Shown(shown, q, i, u)
         /\ Shown(shown, Append(q, m), Len(q) + 1, u)
              <=> (Adds(m, u) \/ (Shown(shown, q, Len(q), u) /\ ~Hides(m, u)))
<1> DEFINE r == Append(q, m)
           n == Len(q)
<1>1. n \in Nat /\ r[n + 1] = m /\ \A i \in 1..n : r[i] = q[i]
  OBVIOUS
<1>2. ~(Adds(m, u) /\ Hides(m, u))
  BY DEF Adds, Hides
<1> HIDE DEF r, n
<1>4. ASSUME NEW i \in 0..n PROVE Shown(shown, r, i, u) <=> Shown(shown, q, i, u)
  <2>1. \A j \in 1..i : r[j] = q[j] /\ \A l \in (j + 1)..i : r[l] = q[l]
    BY <1>1
  <2> QED
    BY <2>1 DEF Shown
<1>5. Shown(shown, r, n + 1, u) <=> (Adds(m, u) \/ (Shown(shown, q, n, u) /\ ~Hides(m, u)))
  <2>1. ASSUME Adds(m, u) PROVE Shown(shown, r, n + 1, u)
    <3>1. n + 1 \in 1..(n + 1) /\ \A l \in (n + 1 + 1)..(n + 1) : FALSE
      BY <1>1
    <3> QED
      BY <1>1, <2>1, <3>1 DEF Shown, Adds
  <2>2. ASSUME Shown(shown, q, n, u), ~Hides(m, u) PROVE Shown(shown, r, n + 1, u)
    <3>1. CASE u \in shown /\ \A l \in 1..n : ~Hides(q[l], u)
      <4>1. \A l \in 1..(n + 1) : ~Hides(r[l], u)
        BY <1>1, <2>2, <3>1
      <4> QED
        BY <3>1, <4>1 DEF Shown
    <3>2. ASSUME NEW j \in 1..n, q[j].op = "add", q[j].who = u,
                 \A l \in (j + 1)..n : ~Hides(q[l], u)
          PROVE  Shown(shown, r, n + 1, u)
      <4>1. j \in 1..(n + 1) /\ r[j].op = "add" /\ r[j].who = u
        BY <1>1, <3>2
      <4>2. \A l \in (j + 1)..(n + 1) : ~Hides(r[l], u)
        BY <1>1, <2>2, <3>2
      <4> QED
        BY <4>1, <4>2 DEF Shown
    <3> QED
      BY <2>2, <3>1, <3>2 DEF Shown
  <2>3. ASSUME Shown(shown, r, n + 1, u)
        PROVE  Adds(m, u) \/ (Shown(shown, q, n, u) /\ ~Hides(m, u))
    <3>1. CASE u \in shown /\ \A l \in 1..(n + 1) : ~Hides(r[l], u)
      <4>1. ~Hides(m, u) /\ \A l \in 1..n : ~Hides(q[l], u)
        BY <1>1, <3>1
      <4> QED
        BY <3>1, <4>1 DEF Shown
    <3>2. ASSUME NEW j \in 1..(n + 1), r[j].op = "add", r[j].who = u,
                 \A l \in (j + 1)..(n + 1) : ~Hides(r[l], u)
          PROVE  Adds(m, u) \/ (Shown(shown, q, n, u) /\ ~Hides(m, u))
      <4>1. CASE j = n + 1
        BY <1>1, <3>2, <4>1 DEF Adds
      <4>2. CASE j # n + 1
        <5>1. j \in 1..n /\ r[j] = q[j] /\ ~Hides(m, u)
          BY <1>1, <3>2, <4>2
        <5>2. \A l \in (j + 1)..n : ~Hides(q[l], u)
          BY <1>1, <3>2, <4>2
        <5> QED
          BY <3>2, <5>1, <5>2 DEF Shown
      <4> QED
        BY <4>1, <4>2
    <3> QED
      BY <2>3, <3>1, <3>2 DEF Shown
  <2> QED
    BY <2>1, <2>2, <2>3
<1> QED
  BY <1>4, <1>5 DEF r, n

LEMMA ShownHead ==
  ASSUME NEW S, NEW q \in Seq(S), q # <<>>, NEW shown, NEW shown2, NEW u,
         u \in shown2 <=> (Adds(q[1], u) \/ (u \in shown /\ ~Hides(q[1], u)))
  PROVE  \A i \in 1..Len(q) : Shown(shown2, Tail(q), i - 1, u) <=> Shown(shown, q, i, u)
<1> DEFINE r == Tail(q)
<1>1. Len(q) \in Nat /\ 1 \in 1..Len(q) /\ \A i \in 2..Len(q) : r[i - 1] = q[i]
  OBVIOUS
<1>2. ~(Adds(q[1], u) /\ Hides(q[1], u))
  BY DEF Adds, Hides
<1> HIDE DEF r
<1> SUFFICES ASSUME NEW i \in 1..Len(q)
             PROVE  Shown(shown2, r, i - 1, u) <=> Shown(shown, q, i, u)
  BY DEF r
<1>3. ASSUME Shown(shown, q, i, u) PROVE Shown(shown2, r, i - 1, u)
  <2>0. ASSUME NEW j \in 1..i, \A l \in (j + 1)..i : ~Hides(q[l], u)
        PROVE  \A l \in j..(i - 1) : ~Hides(r[l], u)
    <3> TAKE l \in j..(i - 1)
    <3>1. l + 1 \in (j + 1)..i /\ l + 1 \in 2..Len(q) /\ l + 1 - 1 = l
      BY <1>1
    <3>2. r[l] = q[l + 1]
      BY <1>1, <3>1
    <3> QED
      BY <2>0, <3>1, <3>2
  <2>1. CASE u \in shown2 /\ \A l \in 2..i : ~Hides(q[l], u)
    <3>0. 1 \in 1..i /\ 1 + 1 = 2
      BY <1>1
    <3>1. \A l \in 1..(i - 1) : ~Hides(r[l], u)
      BY <2>0, <2>1, <3>0
    <3> QED
      BY <2>1, <3>1 DEF Shown
  <2>2. ASSUME NEW j \in 2..i, q[j].op = "add", q[j].who = u,
               \A l \in (j + 1)..i : ~Hides(q[l], u)
        PROVE  Shown(shown2, r, i - 1, u)
    <3>1. j - 1 \in 1..(i - 1) /\ r[j - 1] = q[j] /\ j - 1 + 1 = j /\ j \in 1..i
      BY <1>1
    <3>2. \A l \in (j - 1 + 1)..(i - 1) : ~Hides(r[l], u)
      BY <2>0, <2>2, <3>1
    <3> QED
      BY <2>2, <3>1, <3>2 DEF Shown
  <2>3. CASE u \in shown /\ \A l \in 1..i : ~Hides(q[l], u)
    <3>1. u \in shown2
      BY <1>1, <2>3
    <3>2. \A l \in 2..i : l \in 1..i
      OBVIOUS
    <3> QED
      BY <2>1, <2>3, <3>1, <3>2
  <2>4. ASSUME NEW j \in 1..i, q[j].op = "add", q[j].who = u,
               \A l \in (j + 1)..i : ~Hides(q[l], u)
        PROVE  Shown(shown2, r, i - 1, u)
    <3>1. CASE j = 1
      BY <2>1, <2>4, <3>1 DEF Adds
    <3>2. CASE j # 1
      <4>1. j \in 2..i
        BY <3>2
      <4> QED
        BY <2>2, <2>4, <4>1
    <3> QED
      BY <3>1, <3>2
  <2> QED
    BY <1>3, <2>3, <2>4 DEF Shown
<1>4. ASSUME Shown(shown2, r, i - 1, u) PROVE Shown(shown, q, i, u)
  <2>0. ASSUME NEW j \in 1..i, \A l \in j..(i - 1) : ~Hides(r[l], u)
        PROVE  \A l \in (j + 1)..i : ~Hides(q[l], u)
    <3> TAKE l \in (j + 1)..i
    <3>1. l - 1 \in j..(i - 1) /\ l \in 2..Len(q)
      BY <1>1
    <3>2. r[l - 1] = q[l]
      BY <1>1, <3>1
    <3> QED
      BY <2>0, <3>1, <3>2
  <2>1. ASSUME NEW j \in 1..(i - 1), r[j].op = "add", r[j].who = u,
               \A l \in (j + 1)..(i - 1) : ~Hides(r[l], u)
        PROVE  Shown(shown, q, i, u)
    <3>1. j + 1 \in 1..i /\ j + 1 \in 2..Len(q) /\ j + 1 - 1 = j
      BY <1>1
    <3>2. r[j] = q[j + 1]
      BY <1>1, <3>1
    <3>3. \A l \in (j + 1 + 1)..i : ~Hides(q[l], u)
      BY <2>0, <2>1, <3>1
    <3> QED
      BY <2>1, <3>1, <3>2, <3>3 DEF Shown
  <2>2. CASE u \in shown2 /\ \A l \in 1..(i - 1) : ~Hides(r[l], u)
    <3>1. 1 \in 1..i /\ \A l \in (1 + 1)..i : ~Hides(q[l], u)
      BY <1>1, <2>0, <2>2
    <3>2. CASE Adds(q[1], u)
      BY <3>1, <3>2 DEF Adds, Shown
    <3>3. CASE u \in shown /\ ~Hides(q[1], u)
      <4>1. \A l \in 1..i : l = 1 \/ l \in (1 + 1)..i
        OBVIOUS
      <4>2. \A l \in 1..i : ~Hides(q[l], u)
        BY <3>1, <3>3, <4>1
      <4> QED
        BY <3>3, <4>2 DEF Shown
    <3> QED
      BY <2>2, <3>2, <3>3
  <2> QED
    BY <1>4, <2>1, <2>2 DEF Shown
<1> QED
  BY <1>3, <1>4

\* A queue of runnables that add contacts is posted after the others.
LEMMA ShownAll ==
  ASSUME NEW S, NEW q \in Seq(S), NEW p \in Seq(S), NEW shown, NEW u,
         \A i \in 1..Len(p) : p[i].op = "add"
  PROVE  /\ \A i \in 0..Len(q) : Shown(shown, q \o p, i, u) <=> Shown(shown, q, i, u)
         /\ Shown(shown, q \o p, Len(q) + Len(p), u)
              <=> (Shown(shown, q, Len(q), u) \/ \E i \in 1..Len(p) : p[i].who = u)
<1> DEFINE r == q \o p
           n == Len(q)
           m == Len(p)
<1>1. n \in Nat /\ m \in Nat
      /\ (\A i \in 1..n : r[i] = q[i]) /\ \A i \in (n + 1)..(n + m) : r[i] = p[i - n]
  OBVIOUS
<1>2. \A i \in 1..m : p[i].op = "add"
  OBVIOUS
<1> HIDE DEF r, n, m
<1>3. ASSUME NEW i \in (n + 1)..(n + m) PROVE r[i].op = "add" /\ ~Hides(r[i], u)
  <2>1. i - n \in 1..m
    BY <1>1
  <2>2. r[i].op = "add"
    BY <1>1, <1>2, <2>1
  <2> QED
    BY <2>2 DEF Hides
<1>4. ASSUME NEW i \in 0..n PROVE Shown(shown, r, i, u) <=> Shown(shown, q, i, u)
  <2>1. \A j \in 1..i : r[j] = q[j] /\ \A l \in (j + 1)..i : r[l] = q[l]
    BY <1>1
  <2> QED
    BY <2>1 DEF Shown
<1>5. ASSUME Shown(shown, q, n, u) PROVE Shown(shown, r, n + m, u)
  <2>1. Shown(shown, r, n, u) /\ \A l \in 1..(n + m) : l \in 1..n \/ l \in (n + 1)..(n + m)
    BY <1>1, <1>4, <1>5
  <2>2. CASE u \in shown /\ \A l \in 1..n : ~Hides(r[l], u)
    BY <1>3, <2>1, <2>2 DEF Shown
  <2>3. ASSUME NEW j \in 1..n, r[j].op = "add", r[j].who = u,
               \A l \in (j + 1)..n : ~Hides(r[l], u)
        PROVE  Shown(shown, r, n + m, u)
    <3>1. j \in 1..(n + m)
          /\ \A l \in (j + 1)..(n + m) : l \in (j + 1)..n \/ l \in (n + 1)..(n + m)
      BY <1>1
    <3> QED
      BY <1>3, <2>3, <3>1 DEF Shown
  <2> QED
    BY <2>1, <2>2, <2>3 DEF Shown
<1>6. ASSUME NEW i \in 1..m, p[i].who = u PROVE Shown(shown, r, n + m, u)
  <2>1. i + n \in (n + 1)..(n + m) /\ i + n - n = i /\ i + n \in 1..(n + m)
        /\ \A l \in (i + n + 1)..(n + m) : l \in (n + 1)..(n + m)
    BY <1>1
  <2>2. r[i + n] = p[i]
    BY <1>1, <2>1
  <2> QED
    BY <1>3, <1>6, <2>1, <2>2 DEF Shown
<1>7. ASSUME Shown(shown, r, n + m, u)
      PROVE  Shown(shown, q, n, u) \/ \E i \in 1..m : p[i].who = u
  <2>1. CASE u \in shown /\ \A l \in 1..(n + m) : ~Hides(r[l], u)
    <3>1. \A l \in 1..n : l \in 1..(n + m)
      BY <1>1
    <3> QED
      BY <1>1, <2>1, <3>1 DEF Shown
  <2>2. ASSUME NEW j \in 1..(n + m), r[j].op = "add", r[j].who = u,
               \A l \in (j + 1)..(n + m) : ~Hides(r[l], u)
        PROVE  Shown(shown, q, n, u) \/ \E i \in 1..m : p[i].who = u
    <3>1. CASE j \in 1..n
      <4>1. \A l \in (j + 1)..n : l \in (j + 1)..(n + m) /\ r[l] = q[l]
        BY <1>1, <3>1
      <4> QED
        BY <1>1, <2>2, <3>1, <4>1 DEF Shown
    <3>2. CASE j \in (n + 1)..(n + m)
      <4>1. j - n \in 1..m /\ r[j] = p[j - n]
        BY <1>1, <3>2
      <4> QED
        BY <2>2, <4>1
    <3>3. j \in 1..n \/ j \in (n + 1)..(n + m)
      BY <1>1
    <3> QED
      BY <3>1, <3>2, <3>3
  <2> QED
    BY <1>7, <2>1, <2>2 DEF Shown
<1> QED
  BY <1>4, <1>5, <1>6, <1>7 DEF r, n, m

-----------------------------------------------------------------------------
(* Queues that lose their first element, or get one more.                   *)
LEMMA TailOf ==
  ASSUME NEW S, NEW q \in Seq(S), q # <<>>
  PROVE  /\ Tail(q) \in Seq(S) /\ Head(q) = q[1] /\ 1 \in DOMAIN q /\ Head(q) \in S
         /\ DOMAIN q = 1..Len(q) /\ Len(q) \in Nat
         /\ DOMAIN Tail(q) = 1..(Len(q) - 1) /\ Len(Tail(q)) = Len(q) - 1
         /\ \A i \in DOMAIN Tail(q) : i + 1 \in DOMAIN q /\ Tail(q)[i] = q[i + 1] /\ i \in Int
OBVIOUS

LEMMA AppendOf ==
  ASSUME NEW S, NEW q \in Seq(S), NEW m \in S
  PROVE  /\ Append(q, m) \in Seq(S) /\ Len(q) \in Nat /\ Len(Append(q, m)) = Len(q) + 1
         /\ q \o <<m>> = Append(q, m)
         /\ DOMAIN q = 1..Len(q) /\ DOMAIN Append(q, m) = 1..(Len(q) + 1)
         /\ Append(q, m)[Len(q) + 1] = m
         /\ \A i \in DOMAIN Append(q, m) :
              i \in Int /\ (i = Len(q) + 1 \/ (i \in DOMAIN q /\ Append(q, m)[i] = q[i]))
OBVIOUS

LEMMA HandshakeTail ==
  ASSUME NEW S, NEW q \in Seq(S), q # <<>>
  PROVE  /\ Single(q) => Single(Tail(q))
         /\ Quiet(q) => Quiet(Tail(q)) /\ ~Handshake(q[1])
         /\ Single(q) /\ Handshake(q[1]) => Quiet(Tail(q))
<1>1. /\ 1 \in DOMAIN q
      /\ \A i \in DOMAIN Tail(q) : i + 1 \in DOMAIN q /\ Tail(q)[i] = q[i + 1] /\ i \in Int
      /\ \A i \in DOMAIN Tail(q) : i + 1 # 1
  OBVIOUS
<1>2. Single(q) => Single(Tail(q))
  BY <1>1 DEF Single
<1>3. Quiet(q) => Quiet(Tail(q)) /\ ~Handshake(q[1])
  BY <1>1 DEF Quiet
<1>4. Single(q) /\ Handshake(q[1]) => Quiet(Tail(q))
  BY <1>1 DEF Single, Quiet
<1> QED
  BY <1>2, <1>3, <1>4

LEMMA HandshakeAppend ==
  ASSUME NEW S, NEW q \in Seq(S), NEW m \in S
  PROVE  /\ Quiet(q) => Single(Append(q, m))
         /\ ~Handshake(m) => /\ Quiet(q) => Quiet(Append(q, m))
                             /\ Single(q) => Single(Append(q, m))
<1> DEFINE r == Append(q, m)
           n == Len(q)
<1>1. /\ r[n + 1] = m
      /\ \A i \in DOMAIN r : i = n + 1 \/ (i \in DOMAIN q /\ r[i] = q[i])
  BY AppendOf
<1> HIDE DEF r, n
<1>2. Quiet(q) => Single(r)
  BY <1>1 DEF Quiet, Single
<1>3. ~Handshake(m) /\ Quiet(q) => Quiet(r)
  BY <1>1 DEF Quiet
<1>4. ~Handshake(m) /\ Single(q) => Single(r)
  BY <1>1 DEF Single
<1> QED
  BY <1>2, <1>3, <1>4 DEF r
-----------------------------------------------------------------------------
(* What a step can be: the end of the connection, whoever caused it, a step *)
(* that changes nothing the invariant is about, a command of the user that  *)
(* only sends, a runnable that runs, or one of the other actions.           *)
PostsLeft ==
  /\ conn = "open" /\ toClient # <<>> /\ Head(toClient).type = "participantLeft"
  /\ Head(toClient).who \in DOMAIN participants
  /\ ui' = Append(ui, TaskLeft(Head(toClient).who))

Ended ==
  /\ conn' = "closed" /\ toServer' = <<>> /\ toClient' = <<>> /\ subscribed' = {}
  /\ members' = members \ {Me}
  /\ UNCHANGED <<handRaised, arrived, sessions, sharedObjects, roster, privateChats,
                 contacts, chats>>
  /\ ui' = ui \/ PostsLeft

Idle == UNCHANGED <<server, wire, connection, roster, privateChats, screen>>

Plain(m) == m.type \in {"setParticipantStatus", "kickUser", "privateMessage"}

Commanded ==
  /\ \/ toServer' = toServer
     \/ conn = "open" /\ \E m \in Requests : Plain(m) /\ toServer' = Append(toServer, m)
  /\ UNCHANGED <<server, toClient, connection, roster, ui, contacts>>
  /\ \/ chats' \subseteq chats /\ UNCHANGED privateChats
     \/ \E u \in Others :
          \/ /\ u \in contacts /\ privateChats # NoModule
             /\ chats' = chats \cup {u} /\ UNCHANGED privateChats
          \/ /\ u \in chats
             /\ privateChats' = [privateChats EXCEPT ![u] = @ + 1] /\ UNCHANGED chats

RanPosted ==
  /\ ui # <<>> /\ ui' = Tail(ui)
  /\ UNCHANGED <<server, wire, connection, roster, privateChats>>
  /\ \/ /\ Head(ui).op = "clear"
        /\ contacts' = {} /\ UNCHANGED chats
     \/ /\ Head(ui).op = "add"
        /\ contacts' = contacts \cup {Head(ui).who} /\ UNCHANGED chats
     \/ /\ Head(ui).op = "remove"
        /\ contacts' = contacts \ {Head(ui).who} /\ chats' = chats \ {Head(ui).who}
     \/ /\ Head(ui).op = "status"
        /\ UNCHANGED <<contacts, chats>>

Takes(type) ==
  conn = "open" /\ toClient # <<>> /\ Head(toClient).type = type /\ Took

Greeted ==
  /\ Takes("connectSuccess") /\ Write(<<[type |-> "getMyUserId"]>>)
  /\ UNCHANGED <<sharedObjects, roster, privateChats, screen>>

ParticipantGone ==
  /\ Takes("participantLeft") /\ Head(toClient).who \in DOMAIN participants
  /\ ui' = Append(ui, TaskLeft(Head(toClient).who))
  /\ CountOut(Head(toClient).who) /\ participants' = WithoutEntry(Head(toClient).who)
  /\ UNCHANGED <<toServer, sharedObjects, privateChats, contacts, chats>>

\* A message is handled without an exception.
Handles ==
  \/ Greeted \/ OnGetMyUserId \/ OnSharedObjectClear
  \/ OnQueryParticipants \/ OnParticipantJoined
  \/ ParticipantGone
  \/ OnParticipantStatusChange /\ Took /\ Head(toClient).who \in DOMAIN participants
  \/ OnKickUserCallback /\ Took /\ Head(toClient).who # Me
  \/ OnPrivateChatMessage /\ Took /\ Head(toClient).who \in DOMAIN participants

Step ==
  \/ Ended \/ Idle \/ Commanded \/ RanPosted \/ Connect \/ Server \/ Handles

LEMMA StepsHandle ==
  ASSUME HandleMessage PROVE Ended \/ Handles
<1>1. CASE OnConnect
  <2>1. CASE Receive("connectSuccess") /\ Took /\ Write(<<[type |-> "getMyUserId"]>>)
             /\ UNCHANGED <<sharedObjects, roster, privateChats, screen, activity>>
    BY <2>1 DEF Handles, Greeted, Takes, Receive
  <2>2. CASE Receive("connectRejected") /\ Close
             /\ UNCHANGED <<roster, privateChats, screen, kicked, app, exceptions>>
    BY <2>2 DEF Ended, Close, Hangup, screen
  <2> QED
    BY <1>1, <2>1, <2>2 DEF OnConnect
<1>2. ASSUME NEW site, FailWith(site) PROVE Ended
  BY <1>2 DEF FailWith, Close, Hangup, Ended, screen
<1>3. CASE OnParticipantLeft
  <2> DEFINE u == Head(toClient).who
  <2>1. CASE u \notin DOMAIN participants
    BY <1>2, <1>3, <2>1 DEF OnParticipantLeft
  <2>2. CASE u \in DOMAIN participants /\ ChatLookupFails(u)
    BY <1>3, <2>2 DEF OnParticipantLeft, Receive, ChatLookupFails, Close, Hangup, PostsLeft, Ended
  <2>3. CASE u \in DOMAIN participants /\ ~ChatLookupFails(u)
    BY <1>3, <2>3 DEF OnParticipantLeft, Receive, ParticipantGone, Takes, Handles
  <2> QED
    BY <2>1, <2>2, <2>3
<1>4. CASE OnParticipantStatusChange
  BY <1>2, <1>4 DEF OnParticipantStatusChange, Handles
<1>5. CASE OnKickUserCallback
  BY <1>5 DEF OnKickUserCallback, Handles, Close, Hangup, Ended, screen
<1>6. CASE OnPrivateChatMessage
  BY <1>2, <1>6 DEF OnPrivateChatMessage, Handles
<1> QED
  BY <1>1, <1>3, <1>4, <1>5, <1>6 DEF HandleMessage, Handles

LEMMA StepsRun ==
  ASSUME RunPosted PROVE Ended \/ RanPosted
<1>1. CASE Head(ui).op = "status" /\ Head(ui).who \notin contacts
  BY <1>1 DEF RunPosted, Crash, Hangup, Ended, screen
<1>2. CASE ~(Head(ui).op = "status" /\ Head(ui).who \notin contacts)
  BY <1>2 DEF RunPosted, RanPosted, RemoveChat
<1> QED
  BY <1>1, <1>2

LEMMA StepsUser ==
  ASSUME Types, User PROVE Ended \/ Commanded
<1>0. ASSUME NEW site, Crash(site) PROVE Ended
  BY <1>0 DEF Crash, Hangup, Ended, screen
<1>1. ASSUME NEW m \in Requests, Plain(m), Send(<<m>>)
      PROVE  /\ \/ toServer' = toServer
                \/ conn = "open" /\ \E r \in Requests : Plain(r) /\ toServer' = Append(toServer, r)
             /\ UNCHANGED <<server, toClient, connection, roster, ui, contacts>>
  <2>1. toServer \o <<m>> = Append(toServer, m)
    BY AppendOf DEF Types
  <2> QED
    BY <1>1, <2>1 DEF Send, Write
<1>2. CASE OpenMenu
  BY <1>0, <1>2 DEF OpenMenu
<1>3. CASE Quit
  BY <1>3 DEF Quit, Hangup, Ended, screen
<1>4. CASE RaiseHand
  <2> DEFINE m == [type |-> "setParticipantStatus", who |-> Me, raised |-> ~participants[Me]]
  <2>1. m \in Requests /\ Plain(m)
    BY DEF Requests, Users, Plain
  <2>2. Send(<<m>>) /\ UNCHANGED <<privateChats, chats>>
    BY <1>4 DEF RaiseHand
  <2> HIDE DEF m
  <2> QED
    BY <1>1, <2>1, <2>2 DEF Commanded
<1>5. ASSUME NEW u \in Users, LowerHand(u) PROVE Commanded
  <2> DEFINE m == [type |-> "setParticipantStatus", who |-> u, raised |-> FALSE]
  <2>1. m \in Requests /\ Plain(m)
    BY DEF Requests, Plain
  <2>2. Send(<<m>>) /\ UNCHANGED <<privateChats, chats>>
    BY <1>5 DEF LowerHand
  <2> HIDE DEF m
  <2> QED
    BY <1>1, <2>1, <2>2 DEF Commanded
<1>6. ASSUME NEW u \in Others, KickUser(u) PROVE Ended \/ Commanded
  <2> DEFINE m == [type |-> "kickUser", who |-> u]
  <2>1. m \in Requests /\ Plain(m)
    BY DEF Requests, Users, Plain
  <2>2. CASE Me \in DOMAIN participants
    <3>1. Send(<<m>>) /\ chats' = chats \ {u} /\ UNCHANGED privateChats
      BY <1>6, <2>2 DEF KickUser, RemoveChat
    <3> HIDE DEF m
    <3> QED
      BY <1>1, <2>1, <3>1 DEF Commanded
  <2>3. CASE Me \notin DOMAIN participants
    BY <1>0, <1>6, <2>3 DEF KickUser
  <2> QED
    BY <2>2, <2>3
<1>7. ASSUME NEW u \in Others, OpenChat(u) PROVE Ended \/ Commanded
  <2>1. CASE u \notin chats /\ privateChats = NoModule
    BY <1>0, <1>7, <2>1 DEF OpenChat
  <2>2. CASE ~(u \notin chats /\ privateChats = NoModule)
    <3>1. u \in contacts /\ chats' = chats \cup {u}
          /\ UNCHANGED <<server, wire, connection, roster, privateChats, ui, contacts>>
      BY <1>7, <2>2 DEF OpenChat
    <3>2. u \in chats => chats' \subseteq chats
      BY <3>1
    <3> QED
      BY <2>2, <3>1, <3>2 DEF Commanded, wire
  <2> QED
    BY <2>1, <2>2
<1>8. ASSUME NEW u \in Others, SendPrivate(u) PROVE Ended \/ Commanded
  <2> DEFINE m == [type |-> "privateMessage", who |-> u]
  <2>1. m \in Requests /\ Plain(m)
    BY DEF Requests, Users, Plain
  <2>2. CASE u \in DOMAIN participants
    <3>1. Send(<<m>>) /\ privateChats' = [privateChats EXCEPT ![u] = @ + 1] /\ UNCHANGED chats
          /\ u \in chats
      BY <1>8, <2>2 DEF SendPrivate
    <3> HIDE DEF m
    <3> QED
      BY <1>1, <2>1, <3>1 DEF Commanded
  <2>3. CASE u \notin DOMAIN participants
    BY <1>0, <1>8, <2>3 DEF SendPrivate
  <2> QED
    BY <2>2, <2>3
<1>9. CASE SwipeChat \/ CloseChat
  BY <1>9 DEF SwipeChat, CloseChat, Commanded, wire
<1> QED
  BY <1>2, <1>3, <1>4, <1>5, <1>6, <1>7, <1>8, <1>9 DEF User

LEMMA Steps ==
  ASSUME Types, [Next]_vars PROVE Step
<1>1. CASE UserConnects \/ ThreadReconnects
  BY <1>1 DEF UserConnects, ThreadReconnects, Step
<1>2. CASE ConnectionLost
  BY <1>2 DEF ConnectionLost, Close, Hangup, Ended, screen, Step
<1>3. CASE GiveUp
  BY <1>3 DEF GiveUp, Idle, Step
<1>4. CASE JoinFails
  BY <1>4 DEF JoinFails, Hangup, Ended, screen, Step
<1>5. CASE KickedQuits
  BY <1>5 DEF KickedQuits, Hangup, Ended, screen, Step
<1>6. CASE UNCHANGED vars
  BY <1>6 DEF vars, Idle, Step
<1> QED
  BY <1>1, <1>2, <1>3, <1>4, <1>5, <1>6, StepsHandle, StepsRun, StepsUser DEF Next, Step
-----------------------------------------------------------------------------
(* Types.                                                                   *)
QueueTypes == toServer \in Seq(Requests) /\ toClient \in Seq(Messages) /\ ui \in Seq(Tasks)
ServerTypes ==
  /\ members \subseteq Users /\ arrived \subseteq Others
  /\ handRaised \in [Users -> BOOLEAN] /\ subscribed \subseteq SharedObjects
ClientTypes ==
  /\ sharedObjects \subseteq SharedObjects
  /\ conn \in {"open", "closed"} /\ sessions \in 0..MaxSessions
  /\ privateChats \in [Others -> Nat] \cup {NoModule}
  /\ contacts \subseteq Users /\ chats \subseteq Others
ListTypes ==
  /\ participants \in [DOMAIN participants -> BOOLEAN] /\ DOMAIN participants \subseteq Users
  /\ moderatorCount \in Nat /\ participantCount \in Nat

LEMMA TypesParts == Types <=> QueueTypes /\ ServerTypes /\ ClientTypes /\ ListTypes
BY DEF Types, QueueTypes, ServerTypes, ClientTypes, ListTypes

LEMMA UserSets == Me \in Users /\ Others \subseteq Users /\ IsFiniteSet(Users)
<1>1. IsFiniteSet(Others \cup {Me})
  BY UsersAssumption, FS_AddElement
<1> QED
  BY <1>1 DEF Users

LEMMA BroadcastTypes ==
  ASSUME Types, NEW m \in Messages, Broadcast(m)
  PROVE  toClient' \in Seq(Messages)
BY DEF Types, Broadcast

LEMMA ServerTypesStep ==
  ASSUME Types, Server PROVE Types'
<1> USE UserSets
<1>1. ASSUME toServer' \in Seq(Requests), toClient' \in Seq(Messages), ServerTypes', ServerUnchanged
      PROVE  Types'
  BY <1>1 DEF Types, ServerTypes, ServerUnchanged, connection, roster, screen
<1>2. CASE ServerAnswers
  <2> DEFINE m == Head(toServer)
  <2>1. m \in Requests /\ Tail(toServer) \in Seq(Requests)
    BY <1>2, TailOf DEF Types, ServerAnswers
  <2>2. toServer' \in Seq(Requests) /\ Answer(m) /\ ServerUnchanged
    BY <1>2, <2>1 DEF ServerAnswers
  <2> HIDE DEF m
  <2>3. /\ m.type = "connectSO" => m.so \in SharedObjects
        /\ m.type = "setParticipantStatus" => m.who \in Users /\ m.raised \in BOOLEAN
        /\ m.type = "kickUser" => m.who \in Users
    BY <2>1 DEF Requests
  <2>4. ServerTypes /\ toClient \in Seq(Messages)
    BY DEF Types, ServerTypes
  <2>5. ASSUME NEW r \in Messages, toClient' = Append(toClient, r) PROVE toClient' \in Seq(Messages)
    BY <2>4, <2>5
  <2>6. CASE m.type = "connect" /\ AnswerConnect
    <3>1. [type |-> "connectSuccess"] \in Messages /\ [type |-> "connectRejected"] \in Messages
      BY DEF Messages
    <3>2. toClient' \in Seq(Messages)
      BY <2>4, <2>6, <3>1 DEF AnswerConnect
    <3>3. ServerTypes'
      BY <2>4, <2>6 DEF AnswerConnect, ServerTypes, server
    <3> QED
      BY <1>1, <2>2, <3>2, <3>3
  <2>7. CASE m.type = "getMyUserId" /\ toClient' = Append(toClient, [type |-> "myUserId"])
             /\ UNCHANGED server
    <3>1. [type |-> "myUserId"] \in Messages
      BY DEF Messages
    <3>2. toClient' \in Seq(Messages) /\ ServerTypes'
      BY <2>4, <2>7, <3>1 DEF ServerTypes, server
    <3> QED
      BY <1>1, <2>2, <3>2
  <2>8. CASE m.type = "connectSO" /\ subscribed' = subscribed \cup {m.so}
             /\ toClient' = Append(toClient, [type |-> "clear", so |-> m.so])
             /\ UNCHANGED <<members, handRaised, arrived>>
    <3>1. [type |-> "clear", so |-> m.so] \in Messages
      BY <2>3, <2>8 DEF Messages
    <3>2. toClient' \in Seq(Messages) /\ ServerTypes'
      BY <2>3, <2>4, <2>8, <3>1 DEF ServerTypes
    <3> QED
      BY <1>1, <2>2, <3>2
  <2>9. CASE m.type = "getParticipants" /\ UNCHANGED server
             /\ toClient' = Append(toClient, [type |-> "participants",
                                              map |-> [u \in members |-> handRaised[u]]])
    <3> DEFINE map == [u \in members |-> handRaised[u]]
    <3>1. map \in [members -> BOOLEAN] /\ members \in SUBSET Users
      BY <2>4 DEF ServerTypes
    <3>2. map \in Statuses
      BY <3>1 DEF Statuses
    <3>3. [type |-> "participants", map |-> map] \in Messages
      BY <3>2 DEF Messages
    <3> HIDE DEF map
    <3>4. toClient' = Append(toClient, [type |-> "participants", map |-> map])
      BY <2>9 DEF map
    <3>5. toClient' \in Seq(Messages) /\ ServerTypes'
      BY <2>4, <2>9, <3>3, <3>4 DEF ServerTypes, server
    <3> QED
      BY <1>1, <2>2, <3>5
  <2>10. CASE m.type = "setParticipantStatus" /\ UNCHANGED <<members, arrived, subscribed>>
              /\ IF m.who \in members THEN SetStatus(m.who, m.raised)
                                      ELSE UNCHANGED <<handRaised, toClient>>
    <3>1. [type |-> "participantStatusChange", who |-> m.who, raised |-> m.raised] \in Messages
      BY <2>3, <2>10 DEF Messages
    <3>2. toClient' \in Seq(Messages)
      BY <2>4, <2>10, <3>1, BroadcastTypes DEF SetStatus
    <3>3. ServerTypes'
      BY <2>3, <2>4, <2>10 DEF ServerTypes, SetStatus
    <3> QED
      BY <1>1, <2>2, <3>2, <3>3
  <2>11. CASE m.type = "kickUser" /\ Broadcast([type |-> "kickUserCallback", who |-> m.who])
              /\ UNCHANGED server
    <3>1. [type |-> "kickUserCallback", who |-> m.who] \in Messages
      BY <2>3, <2>11 DEF Messages
    <3>2. toClient' \in Seq(Messages) /\ ServerTypes'
      BY <2>4, <2>11, <3>1, BroadcastTypes DEF ServerTypes, server
    <3> QED
      BY <1>1, <2>2, <3>2
  <2>12. CASE UNCHANGED <<server, toClient>>
    <3>1. toClient' \in Seq(Messages) /\ ServerTypes'
      BY <2>4, <2>12 DEF ServerTypes, server
    <3> QED
      BY <1>1, <2>2, <3>1
  <2> QED
    BY <2>2, <2>6, <2>7, <2>8, <2>9, <2>10, <2>11, <2>12 DEF Answer
<1>3. ServerTypes /\ toServer \in Seq(Requests) /\ toClient \in Seq(Messages)
  BY DEF Types, ServerTypes
<1>4. ASSUME NEW u \in Others, UserJoins(u) PROVE Types'
  <2>1. [type |-> "participantJoined", who |-> u, raised |-> handRaised[u]] \in Messages
    BY <1>3 DEF Messages, ServerTypes
  <2>2. toClient' \in Seq(Messages)
    BY <1>4, <2>1, BroadcastTypes DEF UserJoins
  <2>3. ServerTypes' /\ ServerUnchanged /\ toServer' \in Seq(Requests)
    BY <1>3, <1>4 DEF UserJoins, ServerTypes
  <2> QED
    BY <1>1, <2>2, <2>3
<1>5. ASSUME NEW u \in Others, UserLeaves(u) PROVE Types'
  <2>1. [type |-> "participantLeft", who |-> u] \in Messages
    BY DEF Messages
  <2>2. toClient' \in Seq(Messages)
    BY <1>5, <2>1, BroadcastTypes DEF UserLeaves
  <2>3. ServerTypes' /\ ServerUnchanged /\ toServer' \in Seq(Requests)
    BY <1>3, <1>5 DEF UserLeaves, ServerTypes
  <2> QED
    BY <1>1, <2>2, <2>3
<1>6. ASSUME NEW u \in Others, PeerWrites(u) PROVE Types'
  <2>1. [type |-> "messageReceived", who |-> u] \in Messages
    BY DEF Messages
  <2>2. toClient' \in Seq(Messages)
    BY <1>3, <1>6, <2>1 DEF PeerWrites
  <2>3. ServerTypes' /\ ServerUnchanged /\ toServer' \in Seq(Requests)
    BY <1>3, <1>6 DEF PeerWrites, ServerTypes, server
  <2> QED
    BY <1>1, <2>2, <2>3
<1>7. ASSUME NEW u \in Users, StatusChanges(u) PROVE Types'
  <2>1. [type |-> "participantStatusChange", who |-> u, raised |-> ~handRaised[u]] \in Messages
    BY <1>3 DEF Messages, ServerTypes
  <2>2. toClient' \in Seq(Messages)
    BY <1>7, <2>1, BroadcastTypes DEF StatusChanges, SetStatus
  <2>3. ServerTypes' /\ ServerUnchanged /\ toServer' \in Seq(Requests)
    BY <1>3, <1>7 DEF StatusChanges, SetStatus, ServerTypes
  <2> QED
    BY <1>1, <2>2, <2>3
<1>8. ASSUME NEW u \in Users, ModeratorKicks(u) PROVE Types'
  <2>1. [type |-> "kickUserCallback", who |-> u] \in Messages
    BY DEF Messages
  <2>2. toClient' \in Seq(Messages)
    BY <1>8, <2>1, BroadcastTypes DEF ModeratorKicks
  <2>3. ServerTypes' /\ ServerUnchanged /\ toServer' \in Seq(Requests)
    BY <1>3, <1>8 DEF ModeratorKicks, ServerTypes, server
  <2> QED
    BY <1>1, <2>2, <2>3
<1> QED
  BY <1>2, <1>4, <1>5, <1>6, <1>7, <1>8 DEF Server
-----------------------------------------------------------------------------
(* The list and its counters.                                               *)
Leads(S) == {u \in S : u \in Moderators}
Guests(S) == {u \in S : u \notin Moderators}

LEMMA Counted ==
  ASSUME NEW S \in SUBSET Users
  PROVE  /\ IsFiniteSet(Leads(S)) /\ IsFiniteSet(Guests(S))
         /\ Cardinality(Leads(S)) \in Nat /\ Cardinality(Guests(S)) \in Nat
<1>1. Leads(S) \subseteq Users /\ Guests(S) \subseteq Users
  BY DEF Leads, Guests
<1> QED
  BY <1>1, UserSets, FS_Subset, FS_CardinalityType

LEMMA CountedUnion ==
  ASSUME NEW S \in SUBSET Users, NEW T \in SUBSET Users
  PROVE  /\ Cardinality(Leads(S \cup T)) <= Cardinality(Leads(S)) + Cardinality(Leads(T))
         /\ Cardinality(Guests(S \cup T)) <= Cardinality(Guests(S)) + Cardinality(Guests(T))
<1>1. ASSUME NEW A, NEW B, IsFiniteSet(A), IsFiniteSet(B)
      PROVE  Cardinality(A \cup B) <= Cardinality(A) + Cardinality(B)
  <2> DEFINE C == A \cap B
  <2>1. IsFiniteSet(C)
    <3>1. C \subseteq A
      OBVIOUS
    <3> QED
      BY <1>1, <3>1, FS_Subset
  <2>2. Cardinality(A) \in Nat /\ Cardinality(B) \in Nat /\ Cardinality(C) \in Nat
    BY <1>1, <2>1, FS_CardinalityType
  <2>3. Cardinality(A \cup B) = Cardinality(A) + Cardinality(B) - Cardinality(C)
    BY <1>1, FS_Union
  <2> QED
    BY <2>2, <2>3
<1>2. Leads(S \cup T) = Leads(S) \cup Leads(T) /\ Guests(S \cup T) = Guests(S) \cup Guests(T)
  BY DEF Leads, Guests
<1> QED
  BY <1>1, <1>2, Counted

LEMMA CountedWithout ==
  ASSUME NEW S \in SUBSET Users, NEW u \in S
  PROVE  /\ u \in Moderators => /\ Cardinality(Leads(S \ {u})) = Cardinality(Leads(S)) - 1
                                /\ Guests(S \ {u}) = Guests(S)
         /\ u \notin Moderators => /\ Cardinality(Guests(S \ {u})) = Cardinality(Guests(S)) - 1
                                   /\ Leads(S \ {u}) = Leads(S)
<1>0. ASSUME NEW T, IsFiniteSet(T), u \in T PROVE Cardinality(T \ {u}) = Cardinality(T) - 1
  BY <1>0, FS_RemoveElement
<1>1. CASE u \in Moderators
  <2>1. Leads(S \ {u}) = Leads(S) \ {u} /\ Guests(S \ {u}) = Guests(S) /\ u \in Leads(S)
    BY <1>1 DEF Leads, Guests
  <2> QED
    BY <1>0, <1>1, <2>1, Counted
<1>2. CASE u \notin Moderators
  <2>1. Guests(S \ {u}) = Guests(S) \ {u} /\ Leads(S \ {u}) = Leads(S) /\ u \in Guests(S)
    BY <1>2 DEF Leads, Guests
  <2> QED
    BY <1>0, <1>2, <2>1, Counted
<1> QED
  BY <1>1, <1>2

LEMMA CountersSay ==
  CountersCoverRoster <=>
    /\ moderatorCount >= Cardinality(Leads(DOMAIN participants))
    /\ participantCount >= Cardinality(Guests(DOMAIN participants))
BY DEF CountersCoverRoster, Leads, Guests

LEMMA CountsIn ==
  ASSUME NEW S, CountIn(S)
  PROVE  /\ moderatorCount' = moderatorCount + Cardinality(Leads(S))
         /\ participantCount' = participantCount + Cardinality(Guests(S))
BY DEF CountIn, IsModerator, Leads, Guests

\* The message that is handled, and the rest.
LEMMA Taken ==
  ASSUME Types, toClient # <<>>
  PROVE  /\ Head(toClient) \in Messages /\ Head(toClient) = toClient[1]
         /\ Tail(toClient) \in Seq(Messages) /\ 1 \in DOMAIN toClient
BY TailOf DEF Types

LEMMA ListStep ==
  ASSUME Types, CountersCoverRoster, Step
  PROVE  ListTypes' /\ CountersCoverRoster'
<1> DEFINE D == DOMAIN participants
           m == Head(toClient)
<1>0. ListTypes
  BY TypesParts
<1>1. ASSUME UNCHANGED roster PROVE ListTypes' /\ CountersCoverRoster'
  BY <1>0, <1>1 DEF roster, ListTypes, CountersCoverRoster
<1>2. CASE Ended \/ Idle \/ Commanded \/ RanPosted \/ Connect \/ Greeted
           \/ OnSharedObjectClear \/ (OnKickUserCallback /\ m.who # Me)
  BY <1>1, <1>2 DEF Ended, Idle, Commanded, RanPosted, Connect, Greeted, OnSharedObjectClear,
     OnKickUserCallback
<1>3. CASE Server
  BY <1>1, <1>3 DEF Server, ServerAnswers, UserJoins, UserLeaves, PeerWrites, StatusChanges,
     ModeratorKicks, ServerUnchanged
<1>4. CASE OnPrivateChatMessage /\ Took /\ m.who \in D
  <2>1. UNCHANGED roster
    <3>1. CASE m.who \in contacts
      BY <1>4, <3>1 DEF OnPrivateChatMessage
    <3>2. CASE m.who \notin contacts
      BY <1>4, <3>2 DEF OnPrivateChatMessage, FailWith
    <3> QED
      BY <3>1, <3>2
  <2> QED
    BY <1>1, <2>1
<1>5. CASE OnGetMyUserId
  <2>1. participants' = Nobody /\ moderatorCount' = 0 /\ participantCount' = 0
    BY <1>5 DEF OnGetMyUserId
  <2>2. DOMAIN participants' = {} /\ participants' \in [DOMAIN participants' -> BOOLEAN]
    BY <2>1 DEF Nobody
  <2>3. Cardinality({}) = 0
    BY FS_EmptySet
  <2>4. ListTypes'
    BY <2>1, <2>2 DEF ListTypes
  <2>5. /\ moderatorCount' >= Cardinality(Leads(DOMAIN participants'))
        /\ participantCount' >= Cardinality(Guests(DOMAIN participants'))
    <3>1. Leads(DOMAIN participants') = {} /\ Guests(DOMAIN participants') = {}
      BY <2>2 DEF Leads, Guests
    <3> QED
      BY <2>1, <2>3, <3>1
  <2> QED
    BY <2>4, <2>5 DEF CountersCoverRoster, Leads, Guests
<1>6. ASSUME DOMAIN participants' \subseteq Users,
             participants' \in [DOMAIN participants' -> BOOLEAN],
             moderatorCount' \in Nat, participantCount' \in Nat,
             moderatorCount' >= Cardinality(Leads(DOMAIN participants')),
             participantCount' >= Cardinality(Guests(DOMAIN participants'))
      PROVE  ListTypes' /\ CountersCoverRoster'
  BY <1>6 DEF ListTypes, CountersCoverRoster, Leads, Guests
<1>7. D \subseteq Users /\ moderatorCount \in Nat /\ participantCount \in Nat
      /\ participants \in [D -> BOOLEAN]
  BY <1>0 DEF ListTypes
<1>8. moderatorCount >= Cardinality(Leads(D)) /\ participantCount >= Cardinality(Guests(D))
  BY CountersSay
<1>9. ASSUME NEW S \in SUBSET Users
      PROVE  Cardinality(Leads(S)) \in Nat /\ Cardinality(Guests(S)) \in Nat
  BY Counted
<1>10. CASE OnQueryParticipants
  <2>1. m \in Messages /\ m.type = "participants"
    BY <1>10, Taken DEF OnQueryParticipants, Receive
  <2>2. m.map \in Statuses
    BY <2>1 DEF Messages
  <2>3. PICK S \in SUBSET Users : m.map \in [S -> BOOLEAN]
    BY <2>2 DEF Statuses
  <2>4. participants' = m.map /\ CountIn(DOMAIN m.map) /\ DOMAIN m.map = S
    BY <1>10, <2>3 DEF OnQueryParticipants
  <2>5. /\ moderatorCount' = moderatorCount + Cardinality(Leads(S))
        /\ participantCount' = participantCount + Cardinality(Guests(S))
    BY <2>4, CountsIn
  <2> QED
    BY <1>6, <1>7, <1>9, <2>3, <2>4, <2>5
<1>11. CASE OnParticipantJoined
  <2>1. m \in Messages /\ m.type = "participantJoined"
    BY <1>11, Taken DEF OnParticipantJoined, Receive
  <2>2. m.who \in Users /\ m.raised \in BOOLEAN
    BY <2>1, UserSets DEF Messages
  <2> DEFINE u == m.who
             after == [v \in D \cup {u} |-> IF v = u THEN m.raised ELSE participants[v]]
  <2>3. participants' = after /\ CountIn({u})
    BY <1>11 DEF OnParticipantJoined
  <2>4. after \in [D \cup {u} -> BOOLEAN]
    BY <1>7, <2>2
  <2>5. DOMAIN after = D \cup {u}
    OBVIOUS
  <2> HIDE DEF after
  <2>6. /\ Cardinality(Leads(D \cup {u})) <= Cardinality(Leads(D)) + Cardinality(Leads({u}))
        /\ Cardinality(Guests(D \cup {u})) <= Cardinality(Guests(D)) + Cardinality(Guests({u}))
    BY <1>7, <2>2, CountedUnion
  <2>7. /\ moderatorCount' = moderatorCount + Cardinality(Leads({u}))
        /\ participantCount' = participantCount + Cardinality(Guests({u}))
    BY <2>3, CountsIn
  <2>8. {u} \in SUBSET Users /\ D \cup {u} \in SUBSET Users /\ D \in SUBSET Users
    BY <1>7, <2>2
  <2>9. /\ Cardinality(Leads({u})) \in Nat /\ Cardinality(Guests({u})) \in Nat
        /\ Cardinality(Leads(D)) \in Nat /\ Cardinality(Guests(D)) \in Nat
        /\ Cardinality(Leads(D \cup {u})) \in Nat /\ Cardinality(Guests(D \cup {u})) \in Nat
    BY <1>9, <2>8
  <2> HIDE DEF u, D
  <2>10. /\ moderatorCount' \in Nat /\ participantCount' \in Nat
         /\ moderatorCount' >= Cardinality(Leads(D \cup {u}))
         /\ participantCount' >= Cardinality(Guests(D \cup {u}))
    BY <1>7, <1>8, <2>6, <2>7, <2>9
  <2> QED
    BY <1>6, <2>3, <2>4, <2>5, <2>8, <2>10
<1>12. CASE ParticipantGone
  <2> DEFINE u == m.who
  <2>1. CountOut(u) /\ participants' = WithoutEntry(u)
    BY <1>12 DEF ParticipantGone
  <2>2. DOMAIN participants' = D \ {u} /\ participants' \in [D \ {u} -> BOOLEAN]
    BY <1>7, <2>1 DEF WithoutEntry
  <2>3. u \in D /\ u \in Users /\ D \in SUBSET Users /\ D \ {u} \in SUBSET Users
    BY <1>7, <1>12 DEF ParticipantGone
  <2>4. /\ Cardinality(Leads(D)) \in Nat /\ Cardinality(Guests(D)) \in Nat
        /\ Cardinality(Leads(D \ {u})) \in Nat /\ Cardinality(Guests(D \ {u})) \in Nat
    BY <1>9, <2>3
  <2> HIDE DEF u, D
  <2>5. /\ moderatorCount' \in Nat /\ participantCount' \in Nat
        /\ moderatorCount' >= Cardinality(Leads(D \ {u}))
        /\ participantCount' >= Cardinality(Guests(D \ {u}))
    <3>1. CASE u \in Moderators
      <4>1. moderatorCount' = moderatorCount - 1 /\ participantCount' = participantCount
        BY <2>1, <3>1 DEF CountOut, IsModerator
      <4> QED
        BY <1>7, <1>8, <2>3, <2>4, <3>1, <4>1, CountedWithout
    <3>2. CASE u \notin Moderators
      <4>1. moderatorCount' = moderatorCount /\ participantCount' = participantCount - 1
        BY <2>1, <3>2 DEF CountOut, IsModerator
      <4> QED
        BY <1>7, <1>8, <2>3, <2>4, <3>2, <4>1, CountedWithout
    <3> QED
      BY <3>1, <3>2
  <2> QED
    BY <1>6, <2>2, <2>3, <2>5
<1>13. CASE OnParticipantStatusChange /\ Took /\ m.who \in D
  <2>1. m \in Messages /\ m.type = "participantStatusChange"
    BY <1>13, Taken DEF OnParticipantStatusChange, Receive
  <2>2. m.raised \in BOOLEAN
    BY <2>1 DEF Messages
  <2>3. participants' = [participants EXCEPT ![m.who] = m.raised]
        /\ moderatorCount' = moderatorCount /\ participantCount' = participantCount
    BY <1>13 DEF OnParticipantStatusChange
  <2>4. participants' \in [D -> BOOLEAN] /\ DOMAIN participants' = D
    BY <1>7, <2>2, <2>3
  <2> QED
    BY <1>6, <1>7, <1>8, <2>3, <2>4
<1> QED
  BY <1>2, <1>3, <1>4, <1>5, <1>10, <1>11, <1>12, <1>13 DEF Step, Handles
-----------------------------------------------------------------------------
\* A handler takes the message, writes at most one request, posts runnables.
LEMMA TookTypes ==
  ASSUME Types, toClient # <<>>, Took
  PROVE  toClient' \in Seq(Messages) /\ ServerTypes' /\ conn' = conn /\ sessions' = sessions
BY Taken DEF Types, Took, ServerTypes, server

LEMMA WriteTypes ==
  ASSUME Types, NEW m \in Requests, Write(<<m>>)
  PROVE  toServer' = Append(toServer, m) /\ toServer' \in Seq(Requests)
BY AppendOf DEF Types, Write

LEMMA WriteNothing ==
  ASSUME Types, Write(<<>>)
  PROVE  toServer' = toServer
BY DEF Types, Write

LEMMA PostTypes ==
  ASSUME Types, NEW u \in Users
  PROVE  /\ Append(ui, TaskJoined(u)) \in Seq(Tasks) /\ Append(ui, TaskLeft(u)) \in Seq(Tasks)
         /\ Append(ui, TaskStatus(u)) \in Seq(Tasks)
<1>1. TaskJoined(u) \in Tasks /\ TaskLeft(u) \in Tasks /\ TaskStatus(u) \in Tasks
  BY DEF TaskJoined, TaskLeft, TaskStatus, Tasks
<1> QED
  BY <1>1 DEF Types

\* The users of the list, in some order, are the runnables that show them.
LEMMA OrderedTasks ==
  ASSUME NEW n \in Nat, NEW found \in SUBSET Users, NEW order \in [1..n -> found]
  PROVE  LET tasks == [i \in DOMAIN order |-> TaskJoined(order[i])] IN
           /\ tasks \in Seq(Tasks) /\ Len(tasks) = n
           /\ \A i \in 1..n : tasks[i].op = "add" /\ tasks[i].who = order[i]
<1> DEFINE tasks == [i \in DOMAIN order |-> TaskJoined(order[i])]
<1>1. DOMAIN order = 1..n
  OBVIOUS
<1>2. \A i \in 1..n : TaskJoined(order[i]) \in Tasks
  BY DEF TaskJoined, Tasks
<1>3. tasks \in [1..n -> Tasks]
  BY <1>1, <1>2
<1>4. tasks \in Seq(Tasks) /\ Len(tasks) = n
  BY <1>3
<1>5. \A i \in 1..n : tasks[i].op = "add" /\ tasks[i].who = order[i]
  BY <1>1 DEF TaskJoined
<1> QED
  BY <1>4, <1>5

LEMMA HandlesTypes ==
  ASSUME Types, Handles
  PROVE  QueueTypes' /\ ServerTypes' /\ ClientTypes'
<1> USE UserSets
<1> DEFINE m == Head(toClient)
<1>1. toClient # <<>> /\ Took
  BY DEF Handles, Greeted, Takes, OnGetMyUserId, OnSharedObjectClear, OnQueryParticipants,
     OnParticipantJoined, Receive, ParticipantGone, OnParticipantStatusChange,
     OnKickUserCallback, OnPrivateChatMessage
<1>2. toClient' \in Seq(Messages) /\ ServerTypes' /\ conn' = conn /\ sessions' = sessions
      /\ m \in Messages
  BY <1>1, TookTypes, Taken
<1>3. QueueTypes /\ ClientTypes /\ ListTypes
  BY TypesParts
<1>4. ASSUME toServer' \in Seq(Requests), ui' \in Seq(Tasks), sharedObjects' \subseteq SharedObjects,
             privateChats' \in [Others -> Nat] \cup {NoModule}, contacts' = contacts, chats' = chats
      PROVE  QueueTypes' /\ ServerTypes' /\ ClientTypes'
  BY <1>2, <1>3, <1>4 DEF QueueTypes, ClientTypes
<1>5. /\ [type |-> "getMyUserId"] \in Requests /\ [type |-> "getParticipants"] \in Requests
      /\ [type |-> "connectSO", so |-> "participantsSO"] \in Requests
      /\ [type |-> "connectSO", so |-> "privateSO"] \in Requests
  BY DEF Requests, SharedObjects
<1>6. NoMessages \in [Others -> Nat]
  BY DEF NoMessages
<1>7. CASE Greeted
  BY <1>3, <1>4, <1>5, <1>7, WriteTypes DEF Greeted, QueueTypes, ClientTypes, screen
<1>8. CASE OnGetMyUserId
  <2>1. sharedObjects' \subseteq SharedObjects
    BY <1>3, <1>8 DEF OnGetMyUserId, ClientTypes, SharedObjects
  <2> QED
    BY <1>3, <1>4, <1>5, <1>8, <2>1, WriteTypes
    DEF OnGetMyUserId, QueueTypes, ClientTypes, screen, RequestsToConnect
<1>9. CASE OnSharedObjectClear
  <2>1. toServer' \in Seq(Requests)
    <3>1. CASE m.so = "participantsSO"
      BY <1>5, <1>9, <3>1, WriteTypes DEF OnSharedObjectClear, RequestsOnClear
    <3>2. CASE m.so # "participantsSO"
      BY <1>3, <1>9, <3>2, WriteNothing DEF OnSharedObjectClear, RequestsOnClear, QueueTypes
    <3> QED
      BY <3>1, <3>2
  <2>2. privateChats' \in [Others -> Nat] \cup {NoModule}
    BY <1>3, <1>6, <1>9 DEF OnSharedObjectClear, ClientTypes
  <2> QED
    BY <1>3, <1>4, <1>9, <2>1, <2>2 DEF OnSharedObjectClear, QueueTypes, ClientTypes, screen
<1>10. CASE OnQueryParticipants
  <2>1. m.type = "participants"
    BY <1>10 DEF OnQueryParticipants, Receive
  <2>2. m.map \in Statuses
    BY <1>2, <2>1 DEF Messages
  <2>3. PICK found \in SUBSET Users : m.map \in [found -> BOOLEAN]
    BY <2>2 DEF Statuses
  <2>4. DOMAIN m.map = found /\ Cardinality(found) \in Nat
    BY <2>3, UserSets, FS_Subset, FS_CardinalityType
  <2>5. PICK order \in [1..Cardinality(found) -> found] :
          ui' = ui \o [i \in DOMAIN order |-> TaskJoined(order[i])]
    BY <1>10, <2>4 DEF OnQueryParticipants
  <2> DEFINE tasks == [i \in DOMAIN order |-> TaskJoined(order[i])]
  <2>6. tasks \in Seq(Tasks) /\ ui' = ui \o tasks
    BY <2>4, <2>5, OrderedTasks
  <2> HIDE DEF tasks
  <2>7. ui' \in Seq(Tasks)
    BY <1>3, <2>6 DEF QueueTypes
  <2>8. toServer' \in Seq(Requests)
    BY <1>5, <1>10, WriteTypes DEF OnQueryParticipants, RequestsToConnect
  <2>9. sharedObjects' \subseteq SharedObjects /\ privateChats' = NoMessages
        /\ contacts' = contacts /\ chats' = chats
    BY <1>3, <1>10 DEF OnQueryParticipants, ClientTypes, SharedObjects
  <2> QED
    BY <1>4, <1>6, <2>7, <2>8, <2>9
<1>11. CASE OnParticipantJoined
  <2>1. m.who \in Users
    BY <1>2, <1>11 DEF OnParticipantJoined, Receive, Messages
  <2>2. ui' \in Seq(Tasks)
    BY <1>11, <2>1, PostTypes DEF OnParticipantJoined
  <2> QED
    BY <1>3, <1>4, <1>11, <2>2 DEF OnParticipantJoined, QueueTypes, ClientTypes
<1>12. CASE ParticipantGone
  <2>1. m.who \in Users
    BY <1>3, <1>12 DEF ParticipantGone, ListTypes
  <2>2. ui' \in Seq(Tasks)
    BY <1>12, <2>1, PostTypes DEF ParticipantGone
  <2> QED
    BY <1>3, <1>4, <1>12, <2>2 DEF ParticipantGone, QueueTypes, ClientTypes
<1>13. CASE OnParticipantStatusChange /\ Took /\ m.who \in DOMAIN participants
  <2>1. m.who \in Users
    BY <1>3, <1>13 DEF ListTypes
  <2>2. ui' \in Seq(Tasks)
    BY <1>13, <2>1, PostTypes DEF OnParticipantStatusChange
  <2> QED
    BY <1>3, <1>4, <1>13, <2>2 DEF OnParticipantStatusChange, QueueTypes, ClientTypes
<1>14. CASE OnKickUserCallback /\ Took /\ m.who # Me
  BY <1>3, <1>4, <1>14 DEF OnKickUserCallback, QueueTypes, ClientTypes, screen
<1>15. CASE OnPrivateChatMessage /\ Took /\ m.who \in DOMAIN participants
  <2>1. CASE m.who \in contacts
    <3>1. privateChats' = [privateChats EXCEPT ![m.who] = @ + 1]
          /\ UNCHANGED <<toServer, sharedObjects, screen>>
      BY <1>15, <2>1 DEF OnPrivateChatMessage
    <3>2. m.who \in Others
      BY <1>2, <1>15 DEF OnPrivateChatMessage, Receive, Messages
    <3>3. privateChats' \in [Others -> Nat] \cup {NoModule}
      BY <1>3, <3>1, <3>2 DEF ClientTypes, NoModule
    <3> QED
      BY <1>3, <1>4, <3>1, <3>3 DEF QueueTypes, ClientTypes, screen
  <2>2. CASE m.who \notin contacts
    <3>1. conn = "open" /\ conn' = "closed"
      BY <1>15, <2>2 DEF OnPrivateChatMessage, Receive, FailWith, Close, Hangup
    <3> QED
      BY <1>2, <3>1
  <2> QED
    BY <2>1, <2>2
<1> QED
  BY <1>7, <1>8, <1>9, <1>10, <1>11, <1>12, <1>13, <1>14, <1>15 DEF Handles

LEMMA TypesStep ==
  ASSUME Types, CountersCoverRoster, Step
  PROVE  Types'
<1> USE UserSets
<1>1. ListTypes'
  BY ListStep
<1>2. QueueTypes /\ ServerTypes /\ ClientTypes
  BY TypesParts
<1>3. ASSUME QueueTypes', ServerTypes', ClientTypes' PROVE Types'
  BY <1>1, <1>3 DEF Types, QueueTypes, ServerTypes, ClientTypes, ListTypes
<1>4. CASE Ended
  <2>1. ui' \in Seq(Tasks)
    <3>1. CASE PostsLeft
      <4>1. Head(toClient).who \in Users
        BY <3>1 DEF PostsLeft, Types
      <4> QED
        BY <3>1, <4>1, PostTypes DEF PostsLeft
    <3> QED
      BY <1>2, <1>4, <3>1 DEF Ended, QueueTypes
  <2>2. QueueTypes'
    BY <1>4, <2>1 DEF Ended, QueueTypes
  <2>3. ServerTypes' /\ ClientTypes'
    BY <1>2, <1>4 DEF Ended, ServerTypes, ClientTypes
  <2> QED
    BY <1>3, <2>2, <2>3
<1>5. CASE Idle
  <2>1. QueueTypes'
    BY <1>2, <1>5 DEF Idle, QueueTypes, wire, screen
  <2>2. ServerTypes' /\ ClientTypes'
    BY <1>2, <1>5 DEF Idle, ServerTypes, ClientTypes, screen, connection, server
  <2> QED
    BY <1>3, <2>1, <2>2
<1>6. CASE Commanded
  <2>1. UNCHANGED <<toClient, ui>> /\ toServer \in Seq(Requests)
    BY <1>2, <1>6 DEF Commanded, QueueTypes
  <2>2. toServer' = toServer \/ \E m \in Requests : toServer' = Append(toServer, m)
    BY <1>6 DEF Commanded
  <2>3. toServer' \in Seq(Requests)
    BY <2>1, <2>2, AppendOf
  <2>4. QueueTypes'
    BY <1>2, <2>1, <2>3 DEF QueueTypes
  <2>5. ServerTypes'
    BY <1>2, <1>6 DEF Commanded, ServerTypes, server
  <2>6. privateChats' \in [Others -> Nat] \cup {NoModule} /\ chats' \subseteq Others
    BY <1>2, <1>6 DEF Commanded, ClientTypes, NoModule
  <2>7. ClientTypes'
    BY <1>2, <1>6, <2>6 DEF Commanded, ClientTypes, connection
  <2> QED
    BY <1>3, <2>4, <2>5, <2>7
<1>7. CASE RanPosted
  <2>1. Head(ui) \in Tasks /\ ui' \in Seq(Tasks)
    BY <1>2, <1>7, TailOf DEF QueueTypes, RanPosted
  <2>2. QueueTypes' /\ ServerTypes'
    BY <1>2, <1>7, <2>1 DEF RanPosted, QueueTypes, ServerTypes, wire, server
  <2>3. contacts' \subseteq Users /\ chats' \subseteq Others
    BY <1>2, <1>7, <2>1 DEF RanPosted, ClientTypes, Tasks
  <2>4. ClientTypes'
    BY <1>2, <1>7, <2>3 DEF RanPosted, ClientTypes, connection
  <2> QED
    BY <1>3, <2>2, <2>4
<1>8. CASE Connect
  <2>1. [type |-> "connect"] \in Requests /\ [op |-> "clear"] \in Tasks
    BY DEF Requests, Tasks
  <2>2. QueueTypes' /\ ServerTypes'
    BY <1>2, <1>8, <2>1 DEF Connect, QueueTypes, ServerTypes, server
  <2>3. sessions' \in 0..MaxSessions
    BY <1>2, <1>8, LimitsAssumption DEF Connect, ClientTypes
  <2>4. ClientTypes'
    BY <1>2, <1>8, <2>3 DEF Connect, ClientTypes
  <2> QED
    BY <1>3, <2>2, <2>4
<1> QED
  BY <1>3, <1>4, <1>5, <1>6, <1>7, <1>8, ServerTypesStep, HandlesTypes DEF Step
-----------------------------------------------------------------------------
(* The handshake and the subscriptions.                                     *)
LEMMA FitTail ==
  ASSUME NEW S, NEW q \in Seq(S), q # <<>>, NEW asked, NEW given, NEW in, AllFit(q, asked, given, in)
  PROVE  AllFit(Tail(q), asked, given, in) /\ Fits(Head(q), asked, given, in)
BY TailOf DEF AllFit

LEMMA FitAppend ==
  ASSUME NEW S, NEW q \in Seq(S), NEW m \in S, NEW asked, NEW given, NEW in,
         AllFit(q, asked, given, in), Fits(m, asked, given, in)
  PROVE  AllFit(Append(q, m), asked, given, in)
<1> DEFINE r == Append(q, m)
           n == Len(q)
<1>1. /\ r[n + 1] = m
      /\ \A i \in DOMAIN r : i = n + 1 \/ (i \in DOMAIN q /\ r[i] = q[i])
  BY AppendOf
<1> HIDE DEF r, n
<1>2. AllFit(r, asked, given, in)
  BY <1>1 DEF AllFit
<1> QED
  BY <1>2 DEF r

\* The client asks for more, when nothing of the handshake is on its way.
LEMMA FitAsked ==
  ASSUME NEW q, NEW asked, NEW given, NEW in, NEW asked2,
         AllFit(q, asked, given, in), Quiet(q), asked \subseteq asked2
  PROVE  AllFit(q, asked2, given, in)
BY DEF AllFit, Fits, Quiet, Handshake

\* One step of the handshake replaces the one before it.
LEMMA HandOver ==
  ASSUME NEW S, NEW T, NEW q \in Seq(S), NEW p \in Seq(T), NEW m \in T, q # <<>>,
         Single(q), Single(p), Quiet(q) \/ Quiet(p), Handshake(m) => Handshake(Head(q))
  PROVE  /\ Single(Tail(q)) /\ Single(Append(p, m))
         /\ Quiet(Tail(q)) \/ Quiet(Append(p, m))
<1>1. Head(q) = q[1]
  BY TailOf
<1>2. CASE Handshake(m)
  <2>1. ~Quiet(q)
    BY <1>1, <1>2, HandshakeTail
  <2> QED
    BY <1>1, <1>2, <2>1, HandshakeTail, HandshakeAppend
<1>3. CASE ~Handshake(m)
  BY <1>3, HandshakeTail, HandshakeAppend
<1> QED
  BY <1>2, <1>3

LEMMA HandOff ==
  ASSUME NEW S, NEW q \in Seq(S), NEW p, q # <<>>,
         Single(q), Single(p), Quiet(q) \/ Quiet(p)
  PROVE  Single(Tail(q)) /\ (Quiet(Tail(q)) \/ Quiet(p))
BY HandshakeTail

LEMMA BroadcastWire ==
  ASSUME Types, Wire, NEW m \in Messages, m.type \in Broadcasts, Broadcast(m),
         toServer' = toServer \/ (toServer # <<>> /\ toServer' = Tail(toServer)),
         subscribed' = subscribed, UNCHANGED <<connection, roster>>,
         Me \in members' <=> Me \in members
  PROVE  Wire'
<1>1. toServer \in Seq(Requests) /\ toClient \in Seq(Messages)
  BY DEF Types
<1>2. ~Handshake(m) /\ Fits(m, sharedObjects, {"participantsSO"}, TRUE)
  BY DEF Handshake, Hellos, Asks, Broadcasts, Fits
<1>3. toClient' = toClient
      \/ (toClient' = Append(toClient, m) /\ "participantsSO" \in subscribed)
  BY DEF Broadcast
<1>4. /\ AllFit(toServer, sharedObjects, subscribed, Me \in members)
      /\ AllFit(toClient, sharedObjects, subscribed, Me \in members)
      /\ Single(toServer) /\ Single(toClient) /\ (Quiet(toServer) \/ Quiet(toClient))
  BY DEF Wire, OneHandshake
<1>5. /\ AllFit(toServer', sharedObjects, subscribed, Me \in members)
      /\ Single(toServer') /\ (Quiet(toServer) => Quiet(toServer'))
  BY <1>1, <1>4, FitTail, HandshakeTail
<1>6. /\ AllFit(toClient', sharedObjects, subscribed, Me \in members)
      /\ Single(toClient') /\ (Quiet(toClient) => Quiet(toClient'))
  <2>1. CASE toClient' = toClient
    BY <1>4, <2>1
  <2>2. CASE toClient' = Append(toClient, m) /\ "participantsSO" \in subscribed
    <3>1. Fits(m, sharedObjects, subscribed, Me \in members)
      BY <1>2, <2>2 DEF Fits, Broadcasts, Hellos, Handshake, Asks
    <3>2. AllFit(toClient', sharedObjects, subscribed, Me \in members)
      BY <1>1, <1>4, <2>2, <3>1, FitAppend
    <3> QED
      BY <1>1, <1>2, <1>4, <2>2, <3>2, HandshakeAppend
  <2> QED
    BY <1>3, <2>1, <2>2
<1>7. OneHandshake'
  BY <1>4, <1>5, <1>6 DEF OneHandshake
<1>8. /\ sharedObjects' = sharedObjects /\ conn' = conn /\ participants' = participants
  BY DEF connection, roster
<1>9. /\ AllFit(toServer', sharedObjects', subscribed', Me \in members')
      /\ AllFit(toClient', sharedObjects', subscribed', Me \in members')
  BY <1>5, <1>6, <1>8
<1>10. conn' = "closed" => toServer' = <<>> /\ toClient' = <<>> /\ subscribed' = {}
  BY <1>3, <1>8 DEF Wire
<1> QED
  BY <1>7, <1>8, <1>9, <1>10 DEF Wire, Synced

LEMMA ServerWire ==
  ASSUME Types, Wire, Server PROVE Wire'
<1> DEFINE m == Head(toServer)
           W(q) == AllFit(q, sharedObjects, subscribed, Me \in members)
<1>1. toServer \in Seq(Requests) /\ toClient \in Seq(Messages)
  BY DEF Types
<1>2. /\ W(toServer) /\ W(toClient) /\ Single(toServer) /\ Single(toClient)
      /\ (Quiet(toServer) \/ Quiet(toClient))
  BY DEF Wire, OneHandshake
<1>3. UNCHANGED <<connection, roster>>
  BY DEF Server, ServerAnswers, UserJoins, UserLeaves, PeerWrites, StatusChanges, ModeratorKicks,
     ServerUnchanged
<1>4. ASSUME NEW u \in Others, UserJoins(u) \/ UserLeaves(u) PROVE Wire'
  <2>1. Me \in members' <=> Me \in members
    BY <1>4, UsersAssumption DEF UserJoins, UserLeaves
  <2>2. CASE UserJoins(u)
    <3> DEFINE r == [type |-> "participantJoined", who |-> u, raised |-> handRaised[u]]
    <3>1. handRaised[u] \in BOOLEAN
      BY UserSets DEF Types
    <3>2. r \in Messages /\ r.type \in Broadcasts
      BY <3>1 DEF Messages, Broadcasts
    <3>3. Broadcast(r) /\ toServer' = toServer /\ subscribed' = subscribed
      BY <2>2 DEF UserJoins
    <3> HIDE DEF r
    <3> QED
      BY <1>3, <2>1, <3>2, <3>3, BroadcastWire
  <2>3. CASE UserLeaves(u)
    <3> DEFINE r == [type |-> "participantLeft", who |-> u]
    <3>1. r \in Messages /\ r.type \in Broadcasts
      BY DEF Messages, Broadcasts
    <3>2. Broadcast(r) /\ toServer' = toServer /\ subscribed' = subscribed
      BY <2>3 DEF UserLeaves
    <3> HIDE DEF r
    <3> QED
      BY <1>3, <2>1, <3>1, <3>2, BroadcastWire
  <2> QED
    BY <1>4, <2>2, <2>3
<1>5. ASSUME NEW u \in Users, StatusChanges(u) PROVE Wire'
  <2> DEFINE r == [type |-> "participantStatusChange", who |-> u, raised |-> ~handRaised[u]]
  <2>1. r \in Messages /\ r.type \in Broadcasts
    BY DEF Messages, Broadcasts
  <2>2. Broadcast(r) /\ toServer' = toServer /\ subscribed' = subscribed /\ members' = members
    BY <1>5 DEF StatusChanges, SetStatus
  <2> HIDE DEF r
  <2> QED
    BY <1>3, <2>1, <2>2, BroadcastWire
<1>6. ASSUME NEW u \in Users, ModeratorKicks(u) PROVE Wire'
  <2> DEFINE r == [type |-> "kickUserCallback", who |-> u]
  <2>1. r \in Messages /\ r.type \in Broadcasts
    BY DEF Messages, Broadcasts
  <2>2. Broadcast(r) /\ toServer' = toServer /\ subscribed' = subscribed /\ members' = members
    BY <1>6 DEF ModeratorKicks, server
  <2> HIDE DEF r
  <2> QED
    BY <1>3, <2>1, <2>2, BroadcastWire
<1>7. sharedObjects' = sharedObjects /\ conn' = conn /\ participants' = participants
  BY <1>3 DEF connection, roster
<1>8. ASSUME AllFit(toServer', sharedObjects, subscribed', Me \in members'),
             AllFit(toClient', sharedObjects, subscribed', Me \in members'),
             OneHandshake', conn # "closed",
             subscribed \subseteq subscribed', subscribed' \subseteq sharedObjects
      PROVE  Wire'
  BY <1>7, <1>8 DEF Wire, Synced
<1>9. ASSUME NEW u \in Others, PeerWrites(u) PROVE Wire'
  <2> DEFINE r == [type |-> "messageReceived", who |-> u]
  <2>1. r \in Messages /\ ~Handshake(r)
    BY DEF Messages, Handshake, Hellos, Asks
  <2>2. toClient' = Append(toClient, r) /\ "privateSO" \in subscribed
        /\ toServer' = toServer /\ subscribed' = subscribed /\ members' = members
    BY <1>9 DEF PeerWrites, server
  <2>3. Fits(r, sharedObjects, subscribed, Me \in members)
    BY <2>2 DEF Fits, Hellos, Handshake, Asks, Broadcasts
  <2> HIDE DEF r
  <2>4. W(toClient')
    BY <1>1, <1>2, <2>1, <2>2, <2>3, FitAppend
  <2>5. OneHandshake'
    BY <1>1, <1>2, <2>1, <2>2, HandshakeAppend DEF OneHandshake
  <2>6. conn # "closed" /\ subscribed \subseteq sharedObjects
    BY <2>2 DEF Wire
  <2> QED
    BY <1>2, <1>8, <2>2, <2>4, <2>5, <2>6
<1>10. CASE ServerAnswers
  <2>1. toServer # <<>> /\ toServer' = Tail(toServer) /\ Answer(m)
    BY <1>10 DEF ServerAnswers
  <2>2. m \in Requests /\ W(Tail(toServer)) /\ Fits(m, sharedObjects, subscribed, Me \in members)
    BY <1>1, <1>2, <2>1, TailOf, FitTail
  <2>3. conn # "closed" /\ subscribed \subseteq sharedObjects
    BY <2>1 DEF Wire
  \* The answer, which the server subscribed or let in before it.
  <2>4. ASSUME NEW r \in Messages, toClient' = Append(toClient, r), Handshake(r) => Handshake(m),
               Fits(r, sharedObjects, subscribed', Me \in members'),
               subscribed \subseteq subscribed', subscribed' \subseteq sharedObjects,
               Me \in members => Me \in members'
        PROVE  Wire'
    <3>1. OneHandshake'
      <4>1. /\ Single(Tail(toServer)) /\ Single(Append(toClient, r))
            /\ Quiet(Tail(toServer)) \/ Quiet(Append(toClient, r))
        BY <1>1, <1>2, <2>1, <2>4, HandOver
      <4> QED
        BY <2>1, <2>4, <4>1 DEF OneHandshake
    <3>2. /\ AllFit(Tail(toServer), sharedObjects, subscribed', Me \in members')
          /\ AllFit(toClient, sharedObjects, subscribed', Me \in members')
      BY <1>2, <2>2, <2>4 DEF AllFit, Fits
    <3>3. AllFit(toClient', sharedObjects, subscribed', Me \in members')
      BY <1>1, <2>4, <3>2, FitAppend
    <3> QED
      BY <1>8, <2>1, <2>3, <2>4, <3>1, <3>2, <3>3
  <2> HIDE DEF m
  <2>5. CASE m.type = "connect" /\ AnswerConnect
    <3>1. "participantsSO" \notin sharedObjects /\ Handshake(m)
      BY <2>2, <2>5 DEF Fits, Hellos, Handshake
    <3>2. CASE members' = members \cup {Me} /\ UNCHANGED <<arrived, subscribed>>
               /\ toClient' = Append(toClient, [type |-> "connectSuccess"])
      <4> DEFINE r == [type |-> "connectSuccess"]
      <4>1. r \in Messages /\ Fits(r, sharedObjects, subscribed', Me \in members')
        BY <3>1, <3>2 DEF Messages, Fits, Hellos, Handshake, Asks, Broadcasts
      <4> HIDE DEF r
      <4> QED
        BY <2>3, <2>4, <3>1, <3>2, <4>1 DEF r
    <3>3. CASE UNCHANGED server /\ toClient' = Append(toClient, [type |-> "connectRejected"])
      <4> DEFINE r == [type |-> "connectRejected"]
      <4>1. r \in Messages /\ Fits(r, sharedObjects, subscribed', Me \in members')
        BY <3>1, <3>3 DEF Messages, Fits, Hellos, Handshake, Asks, Broadcasts
      <4> HIDE DEF r
      <4> QED
        BY <2>3, <2>4, <3>1, <3>3, <4>1 DEF r, server
    <3> QED
      BY <2>5, <3>2, <3>3 DEF AnswerConnect
  <2>6. CASE m.type = "getMyUserId" /\ toClient' = Append(toClient, [type |-> "myUserId"])
             /\ UNCHANGED server
    <3> DEFINE r == [type |-> "myUserId"]
    <3>1. "participantsSO" \notin sharedObjects /\ Me \in members /\ Handshake(m)
      BY <2>2, <2>6 DEF Fits, Hellos, Handshake
    <3>2. r \in Messages /\ Fits(r, sharedObjects, subscribed', Me \in members')
      BY <2>6, <3>1 DEF Messages, Fits, Hellos, Handshake, Asks, Broadcasts, server
    <3> HIDE DEF r
    <3> QED
      BY <2>3, <2>4, <2>6, <3>1, <3>2 DEF r, server
  <2>7. CASE m.type = "connectSO" /\ subscribed' = subscribed \cup {m.so}
             /\ toClient' = Append(toClient, [type |-> "clear", so |-> m.so])
             /\ UNCHANGED <<members, handRaised, arrived>>
    <3> DEFINE r == [type |-> "clear", so |-> m.so]
    <3>1. m.so \in SharedObjects
      BY <2>2, <2>7 DEF Requests
    <3>2. r \in Messages
      BY <3>1 DEF Messages
    <3>3. (Handshake(r) <=> m.so = "participantsSO") /\ (Asks(m) <=> m.so = "participantsSO")
          /\ (Asks(r) <=> m.so = "participantsSO")
      BY <2>7 DEF Handshake, Asks, Hellos
    <3>4. m.so \in sharedObjects
          /\ (m.so = "participantsSO" => "privateSO" \notin sharedObjects /\ Me \in members)
      BY <2>2, <2>7, <3>3 DEF Fits, Handshake, Hellos
    <3>5. Fits(r, sharedObjects, subscribed', Me \in members')
      BY <2>7, <3>3, <3>4 DEF Fits, Hellos, Broadcasts
    <3>6. Handshake(r) => Handshake(m)
      BY <3>3 DEF Handshake
    <3> HIDE DEF r
    <3> QED
      BY <2>3, <2>4, <2>7, <3>2, <3>4, <3>5, <3>6 DEF r
  <2>8. CASE m.type = "getParticipants" /\ UNCHANGED server
             /\ toClient' = Append(toClient, [type |-> "participants",
                                              map |-> [u \in members |-> handRaised[u]]])
    <3> DEFINE map == [u \in members |-> handRaised[u]]
               r == [type |-> "participants", map |-> map]
    <3>1. map \in [members -> BOOLEAN] /\ members \in SUBSET Users
      BY DEF Types
    <3>2. map \in Statuses
      BY <3>1 DEF Statuses
    <3> HIDE DEF map
    <3>3. r \in Messages /\ r.type = "participants"
      BY <3>2 DEF Messages
    <3>4. Asks(m) /\ Handshake(m) /\ m.type \notin Hellos
      BY <2>8 DEF Asks, Handshake, Hellos
    <3>5. Fits(r, sharedObjects, subscribed', Me \in members')
      BY <2>2, <2>8, <3>3, <3>4 DEF Fits, Hellos, server
    <3> HIDE DEF r
    <3>6. toClient' = Append(toClient, r)
      BY <2>8 DEF r, map
    <3> QED
      BY <2>3, <2>4, <2>8, <3>3, <3>4, <3>5, <3>6 DEF server
  <2>9. ASSUME toClient' = toClient, subscribed' = subscribed, members' = members PROVE Wire'
    <3>1. OneHandshake'
      <4>1. Single(Tail(toServer)) /\ (Quiet(Tail(toServer)) \/ Quiet(toClient))
        BY <1>1, <1>2, <2>1, HandOff
      <4> QED
        BY <1>2, <2>1, <2>9, <4>1 DEF OneHandshake
    <3> QED
      BY <1>2, <1>8, <2>1, <2>2, <2>3, <2>9, <3>1
  <2>10. CASE m.type = "setParticipantStatus" /\ UNCHANGED <<members, arrived, subscribed>>
              /\ IF m.who \in members THEN SetStatus(m.who, m.raised)
                                      ELSE UNCHANGED <<handRaised, toClient>>
    <3> DEFINE r == [type |-> "participantStatusChange", who |-> m.who, raised |-> m.raised]
    <3>1. CASE m.who \in members
      <4>1. m.who \in Users /\ m.raised \in BOOLEAN
        BY <2>2, <2>10 DEF Requests
      <4>2. r \in Messages /\ r.type \in Broadcasts
        BY <4>1 DEF Messages, Broadcasts
      <4>3. Broadcast(r)
        BY <2>10, <3>1 DEF SetStatus
      <4> HIDE DEF r
      <4> QED
        BY <1>3, <2>1, <2>10, <4>2, <4>3, BroadcastWire
    <3>2. CASE m.who \notin members
      BY <2>9, <2>10, <3>2
    <3> QED
      BY <3>1, <3>2
  <2>11. CASE m.type = "kickUser" /\ Broadcast([type |-> "kickUserCallback", who |-> m.who])
              /\ UNCHANGED server
    <3> DEFINE r == [type |-> "kickUserCallback", who |-> m.who]
    <3>1. m.who \in Users
      BY <2>2, <2>11 DEF Requests
    <3>2. r \in Messages /\ r.type \in Broadcasts
      BY <3>1 DEF Messages, Broadcasts
    <3>3. Broadcast(r) /\ subscribed' = subscribed /\ members' = members
      BY <2>11 DEF server
    <3> HIDE DEF r
    <3> QED
      BY <1>3, <2>1, <3>2, <3>3, BroadcastWire
  <2>12. CASE UNCHANGED <<server, toClient>>
    BY <2>9, <2>12 DEF server
  <2> QED
    BY <2>1, <2>5, <2>6, <2>7, <2>8, <2>10, <2>11, <2>12 DEF Answer
<1> QED
  BY <1>4, <1>5, <1>6, <1>9, <1>10 DEF Server
-----------------------------------------------------------------------------
\* What is known of the message that is handled.
LEMMA FitsTaken ==
  ASSUME Types, Wire, toClient # <<>>
  PROVE  /\ Fits(Head(toClient), sharedObjects, subscribed, Me \in members)
         /\ AllFit(Tail(toClient), sharedObjects, subscribed, Me \in members)
         /\ Single(Tail(toClient))
         /\ Quiet(toServer) \/ Quiet(Tail(toClient))
         /\ Handshake(Head(toClient)) => Quiet(toServer) /\ Quiet(Tail(toClient))
<1>1. toClient \in Seq(Messages) /\ Head(toClient) = toClient[1]
  BY Taken DEF Types
<1>2. /\ AllFit(toClient, sharedObjects, subscribed, Me \in members) /\ Single(toClient)
      /\ Quiet(toServer) \/ Quiet(toClient)
  BY DEF Wire, OneHandshake
<1> QED
  BY <1>1, <1>2, FitTail, HandshakeTail

\* The handler takes a message and writes nothing, or the next request.
LEMMA HandlerWire ==
  ASSUME Types, Wire, toClient # <<>>, Took, conn = "open",
         \/ toServer' = toServer
         \/ \E r \in Requests :
              /\ toServer' = Append(toServer, r)
              /\ Handshake(r) => Handshake(Head(toClient))
              /\ Fits(r, sharedObjects', subscribed, Me \in members),
         sharedObjects \subseteq sharedObjects',
         sharedObjects' # sharedObjects => Handshake(Head(toClient)),
         "privateSO" \in sharedObjects' => "participantsSO" \in subscribed,
         "participantsSO" \in subscribed \/ DOMAIN participants' = {}
           \/ "participantsSO" \notin sharedObjects'
  PROVE  Wire'
<1> DEFINE m == Head(toClient)
           W(q) == AllFit(q, sharedObjects', subscribed, Me \in members)
<1>1. toServer \in Seq(Requests) /\ toClient' = Tail(toClient) /\ toClient' \in Seq(Messages)
      /\ toClient \in Seq(Messages)
      /\ members' = members /\ subscribed' = subscribed /\ conn' = "open"
  BY Taken DEF Types, Took, server
<1>2. /\ AllFit(toServer, sharedObjects, subscribed, Me \in members)
      /\ Single(toServer) /\ Single(toClient) /\ (Quiet(toServer) \/ Quiet(toClient))
      /\ subscribed \subseteq sharedObjects
  BY DEF Wire, OneHandshake
<1>3. /\ AllFit(toClient', sharedObjects, subscribed, Me \in members) /\ Single(toClient')
      /\ Quiet(toServer) \/ Quiet(toClient')
      /\ Handshake(m) => Quiet(toServer) /\ Quiet(toClient')
  BY <1>1, FitsTaken
<1>4. W(toServer) /\ W(toClient')
  <2>1. CASE sharedObjects' = sharedObjects
    BY <1>2, <1>3, <2>1
  <2>2. CASE sharedObjects' # sharedObjects
    BY <1>2, <1>3, <2>2, FitAsked
  <2> QED
    BY <2>1, <2>2
<1>5. W(toServer') /\ OneHandshake'
  <2>1. CASE toServer' = toServer
    BY <1>1, <1>2, <1>3, <1>4, <2>1 DEF OneHandshake
  <2>2. ASSUME NEW r \in Requests, toServer' = Append(toServer, r), Handshake(r) => Handshake(m),
               Fits(r, sharedObjects', subscribed, Me \in members)
        PROVE  W(toServer') /\ OneHandshake'
    <3>1. W(toServer')
      BY <1>1, <1>4, <2>2, FitAppend
    <3>2. /\ Single(Tail(toClient)) /\ Single(Append(toServer, r))
          /\ Quiet(Tail(toClient)) \/ Quiet(Append(toServer, r))
      BY <1>1, <1>2, <2>2, HandOver
    <3> QED
      BY <1>1, <2>2, <3>1, <3>2 DEF OneHandshake
  <2> QED
    BY <2>1, <2>2
<1>6. subscribed' \subseteq sharedObjects' /\ (Synced' => "participantsSO" \in sharedObjects')
  BY <1>1, <1>2 DEF Synced
<1> QED
  BY <1>1, <1>4, <1>5, <1>6 DEF Wire, Synced

LEMMA HandlesWire ==
  ASSUME Types, Wire, Handles PROVE Wire'
<1> DEFINE m == Head(toClient)
           so == sharedObjects
<1>1. toClient # <<>> /\ Took
  BY DEF Handles, Greeted, Takes, OnGetMyUserId, OnSharedObjectClear, OnQueryParticipants,
     OnParticipantJoined, Receive, ParticipantGone, OnParticipantStatusChange,
     OnKickUserCallback, OnPrivateChatMessage
<1>2. conn = "open"
  BY DEF Handles, Greeted, Takes, OnGetMyUserId, OnSharedObjectClear, OnQueryParticipants,
     OnParticipantJoined, Receive, ParticipantGone, OnParticipantStatusChange,
     OnKickUserCallback, OnPrivateChatMessage
<1>3. Fits(m, so, subscribed, Me \in members) /\ m \in Messages
  BY <1>1, FitsTaken, Taken
<1>4. subscribed \subseteq so /\ ("privateSO" \in so => "participantsSO" \in so)
      /\ ("privateSO" \in so => "participantsSO" \in subscribed)
  BY <1>2 DEF Wire, Synced
<1>5. "participantsSO" \in so => "participantsSO" \in subscribed \/ DOMAIN participants = {}
  BY <1>2 DEF Wire
<1>6. CASE Greeted
  <2> DEFINE r == [type |-> "getMyUserId"]
  <2>1. r \in Requests /\ m.type = "connectSuccess"
    BY <1>6 DEF Requests, Greeted, Takes
  <2>2. Handshake(m) /\ "participantsSO" \notin so /\ Me \in members
    BY <1>3, <2>1 DEF Handshake, Hellos, Fits
  <2>3. Fits(r, so, subscribed, Me \in members) /\ sharedObjects' = so /\ participants' = participants
    BY <1>6, <2>2 DEF Fits, Hellos, Asks, Broadcasts, Greeted, roster
  <2>4. toServer' = Append(toServer, r)
    BY <1>6, <2>1, WriteTypes DEF Greeted
  <2> HIDE DEF r
  <2> QED
    BY <1>1, <1>2, <1>4, <1>5, <2>1, <2>2, <2>3, <2>4, HandlerWire
<1>7. CASE OnGetMyUserId
  <2> DEFINE r == [type |-> "connectSO", so |-> "participantsSO"]
  <2>1. r \in Requests /\ m.type = "myUserId"
    BY <1>7 DEF Requests, SharedObjects, OnGetMyUserId, Receive
  <2>2. Handshake(m) /\ "participantsSO" \notin so /\ Me \in members
    BY <1>3, <2>1 DEF Handshake, Hellos, Fits
  <2>3. sharedObjects' = so \cup {"participantsSO"} /\ DOMAIN participants' = {}
    BY <1>7 DEF OnGetMyUserId, Nobody
  <2>4. Fits(r, sharedObjects', subscribed, Me \in members)
    BY <1>4, <2>2, <2>3 DEF Fits, Hellos, Asks, Broadcasts
  <2>5. toServer' = Append(toServer, r)
    BY <1>7, <2>1, WriteTypes DEF OnGetMyUserId, RequestsToConnect
  <2> HIDE DEF r
  <2> QED
    BY <1>1, <1>2, <1>4, <1>5, <2>1, <2>2, <2>3, <2>4, <2>5, HandlerWire
<1>8. CASE OnSharedObjectClear
  <2>1. m.type = "clear" /\ sharedObjects' = so /\ participants' = participants
    BY <1>8 DEF OnSharedObjectClear, Receive, roster
  <2>2. CASE m.so # "participantsSO"
    <3>1. toServer' = toServer
      BY <1>8, <2>2, WriteNothing DEF OnSharedObjectClear, RequestsOnClear
    <3> QED
      BY <1>1, <1>2, <1>4, <1>5, <2>1, <3>1, HandlerWire
  <2>3. CASE m.so = "participantsSO"
    <3> DEFINE r == [type |-> "getParticipants"]
    <3>1. r \in Requests /\ Asks(m) /\ Handshake(m) /\ m.type \notin Hellos
      BY <2>1, <2>3 DEF Requests, Asks, Handshake, Hellos
    <3>2. Fits(r, so, subscribed, Me \in members)
      BY <1>3, <2>1, <2>3, <3>1 DEF Fits, Hellos, Broadcasts
    <3>3. toServer' = Append(toServer, r)
      BY <1>8, <2>3, <3>1, WriteTypes DEF OnSharedObjectClear, RequestsOnClear
    <3> HIDE DEF r
    <3> QED
      BY <1>1, <1>2, <1>4, <1>5, <2>1, <3>1, <3>2, <3>3, HandlerWire
  <2> QED
    BY <2>2, <2>3
<1>9. CASE OnQueryParticipants
  <2> DEFINE r == [type |-> "connectSO", so |-> "privateSO"]
  <2>1. r \in Requests /\ m.type = "participants"
    BY <1>9 DEF Requests, SharedObjects, OnQueryParticipants, Receive
  <2>2. Handshake(m) /\ "participantsSO" \in subscribed
    BY <1>3, <2>1 DEF Handshake, Asks, Fits
  <2>3. sharedObjects' = so \cup {"privateSO"}
    BY <1>9 DEF OnQueryParticipants
  <2>4. Fits(r, sharedObjects', subscribed, Me \in members) /\ ~Handshake(r)
    BY <2>3 DEF Fits, Hellos, Asks, Broadcasts, Handshake
  <2>5. toServer' = Append(toServer, r)
    BY <1>9, <2>1, WriteTypes DEF OnQueryParticipants, RequestsToConnect
  <2> HIDE DEF r
  <2> QED
    BY <1>1, <1>2, <2>1, <2>2, <2>3, <2>4, <2>5, HandlerWire
<1>10. CASE m.type \in Broadcasts /\ toServer' = toServer /\ sharedObjects' = so
  <2>1. "participantsSO" \in subscribed
    BY <1>3, <1>10 DEF Fits
  <2> QED
    BY <1>1, <1>2, <1>4, <1>10, <2>1, HandlerWire
<1>11. CASE OnPrivateChatMessage /\ Took /\ m.who \in DOMAIN participants
  <2>1. m.type = "messageReceived"
    BY <1>11 DEF OnPrivateChatMessage, Receive
  <2>2. "participantsSO" \in subscribed
    BY <1>3, <1>4, <2>1 DEF Fits
  <2>3. toServer' = toServer /\ sharedObjects' = so
    <3>1. CASE m.who \in contacts
      BY <1>11, <3>1 DEF OnPrivateChatMessage
    <3>2. CASE m.who \notin contacts
      <4>1. conn' = "closed"
        BY <1>11, <3>2 DEF OnPrivateChatMessage, FailWith, Close, Hangup
      <4> QED
        BY <1>1, <1>2, <4>1 DEF Took
    <3> QED
      BY <3>1, <3>2
  <2> QED
    BY <1>1, <1>2, <1>4, <2>2, <2>3, HandlerWire
<1>12. CASE OnParticipantJoined
  BY <1>10, <1>12 DEF OnParticipantJoined, Receive, Broadcasts
<1>13. CASE ParticipantGone
  BY <1>10, <1>13 DEF ParticipantGone, Takes, Broadcasts
<1>14. CASE OnParticipantStatusChange /\ Took /\ m.who \in DOMAIN participants
  BY <1>10, <1>14 DEF OnParticipantStatusChange, Receive, Broadcasts
<1>15. CASE OnKickUserCallback /\ Took /\ m.who # Me
  BY <1>10, <1>15 DEF OnKickUserCallback, Receive, Broadcasts
<1> QED
  BY <1>6, <1>7, <1>8, <1>9, <1>11, <1>12, <1>13, <1>14, <1>15 DEF Handles

LEMMA WireStep ==
  ASSUME Types, Wire, Step PROVE Wire'
<1>1. toServer \in Seq(Requests) /\ toClient \in Seq(Messages)
  BY DEF Types
<1>2. ASSUME NEW q, q = <<>> PROVE Quiet(q) /\ Single(q) /\ AllFit(q, sharedObjects, subscribed', Me \in members')
  BY <1>2 DEF Quiet, Single, AllFit
<1>3. CASE Ended
  <2>1. toServer' = <<>> /\ toClient' = <<>> /\ conn' = "closed" /\ subscribed' = {}
        /\ sharedObjects' = sharedObjects
    BY <1>3 DEF Ended
  <2>2. OneHandshake'
    BY <1>2, <2>1 DEF OneHandshake
  <2> QED
    BY <1>2, <2>1, <2>2 DEF Wire, Synced
<1>4. ASSUME toServer' = toServer, UNCHANGED <<server, toClient, connection, roster>> PROVE Wire'
  BY <1>4 DEF Wire, Synced, OneHandshake, server, connection, roster
<1>5. CASE Idle
  BY <1>4, <1>5 DEF Idle, wire
<1>6. CASE RanPosted
  BY <1>4, <1>6 DEF RanPosted, wire
<1>7. CASE Commanded
  <2>1. CASE toServer' = toServer
    BY <1>4, <1>7, <2>1 DEF Commanded
  <2>2. ASSUME NEW m \in Requests, Plain(m), toServer' = Append(toServer, m), conn = "open"
        PROVE  Wire'
    <3>1. ~Handshake(m) /\ Fits(m, sharedObjects, subscribed, Me \in members)
      BY <2>2 DEF Plain, Handshake, Hellos, Asks, Fits, Broadcasts
    <3>2. AllFit(toServer', sharedObjects, subscribed, Me \in members)
      BY <1>1, <2>2, <3>1, FitAppend DEF Wire
    <3>3. UNCHANGED <<server, toClient, connection, roster>>
      BY <1>7 DEF Commanded
    <3>4. members' = members /\ subscribed' = subscribed /\ toClient' = toClient
          /\ sharedObjects' = sharedObjects /\ conn' = conn /\ participants' = participants
      BY <3>3 DEF server, connection, roster
    <3>5. OneHandshake'
      BY <1>1, <2>2, <3>1, <3>4, HandshakeAppend DEF OneHandshake, Wire
    <3> QED
      BY <2>2, <3>2, <3>4, <3>5 DEF Wire, Synced
  <2> QED
    BY <1>7, <2>1, <2>2 DEF Commanded
<1>8. CASE Connect
  <2> DEFINE m == [type |-> "connect"]
  <2>1. toServer' = <<m>> /\ toClient' = <<>> /\ conn' = "open" /\ sharedObjects' = {}
        /\ subscribed' = {} /\ subscribed = {}
    BY <1>8 DEF Connect, Wire, server
  <2>2. Fits(m, {}, {}, Me \in members')
    BY DEF Fits, Hellos, Asks, Broadcasts
  <2> HIDE DEF m
  <2>3. AllFit(<<m>>, {}, {}, Me \in members') /\ Single(<<m>>)
    BY <2>2 DEF AllFit, Single
  <2>4. AllFit(<<>>, {}, {}, Me \in members') /\ Single(<<>>) /\ Quiet(<<>>)
    BY DEF AllFit, Single, Quiet
  <2>5. OneHandshake'
    BY <2>1, <2>3, <2>4 DEF OneHandshake
  <2> QED
    BY <2>1, <2>3, <2>4, <2>5 DEF Wire, Synced
<1> QED
  BY <1>3, <1>5, <1>6, <1>7, <1>8, ServerWire, HandlesWire DEF Step
-----------------------------------------------------------------------------
(* The list of participants and the server.                                 *)
Roster == Current /\ Answered /\ NoGhosts

\* Before the server has subscribed the connection there is nothing to agree on.
LEMMA NothingYet ==
  ASSUME Types', Wire', "participantsSO" \notin subscribed'
  PROVE  Roster'
<1>1. Current'
  BY DEF Wire, Current
<1>2. \A i \in DOMAIN toClient' :
        /\ toClient'[i].type # "participants" /\ \A u : ~Joins(toClient'[i], u)
  BY DEF Wire, AllFit, Fits, Broadcasts, Joins
<1>3. Answered'
  BY <1>2 DEF Answered
<1>4. DOMAIN toClient' = 1..Len(toClient')
  BY DEF Types
<1>5. ASSUME conn' = "open", "participantsSO" \in sharedObjects',
             NEW u \in Users, Listed(participants', toClient', 0, Len(toClient'), u)
      PROVE  FALSE
  <2>1. DOMAIN participants' = {}
    BY <1>5 DEF Wire
  <2>2. \A j \in (0 + 1)..Len(toClient') : j \in DOMAIN toClient'
    BY <1>4
  <2> QED
    BY <1>2, <1>5, <2>1, <2>2 DEF Listed
<1>6. NoGhosts'
  BY <1>5 DEF NoGhosts
<1> QED
  BY <1>1, <1>3, <1>6 DEF Roster

\* One more message that tells what the server changed.
LEMMA SpeaksRoster ==
  ASSUME Types, Wire, Roster, NEW m \in Messages, toClient' = Append(toClient, m),
         m.type # "participants", UNCHANGED <<connection, roster>>,
         \A u \in Users : u \in members' <=> (Joins(m, u) \/ (u \in members /\ ~Leaves(m, u))),
         \A u \in Users : u \in members' =>
           IF SetsHand(m, u) THEN m.raised = handRaised'[u]
                             ELSE u \in members /\ handRaised'[u] = handRaised[u],
         Needs(m) => m.who \in Users /\ m.who \in members
  PROVE  Roster'
<1> DEFINE n == Len(toClient)
<1>1. toClient \in Seq(Messages) /\ n \in Nat
  BY DEF Types
<1>2. /\ DOMAIN toClient = 1..n /\ Len(toClient') = n + 1
      /\ \A i \in DOMAIN toClient' : i = n + 1 \/ (i \in DOMAIN toClient /\ toClient'[i] = toClient[i])
      /\ toClient'[n + 1] = m
  BY <1>1, AppendOf
<1>3. sharedObjects' = sharedObjects /\ conn' = conn /\ participants' = participants
  BY DEF connection, roster
<1>4. ASSUME NEW list, NEW k \in 0..n, Mirror(list, toClient, k, members, handRaised)
      PROVE  Mirror(list, toClient', k, members', handRaised')
  BY <1>1, <1>4, MirrorAppend
<1>5. Current'
  <2>1. 0 \in 0..n
    BY <1>1
  <2> QED
    BY <1>3, <1>4, <2>1 DEF Roster, Current, Synced
<1>6. ASSUME NEW u \in Users
      PROVE  /\ \A i \in 0..n : Listed(participants, toClient', 0, i, u)
                                  <=> Listed(participants, toClient, 0, i, u)
             /\ Listed(participants, toClient', 0, n + 1, u)
                  <=> (Joins(m, u) \/ (Listed(participants, toClient, 0, n, u) /\ ~Leaves(m, u)))
  <2>1. 0 \in 0..n
    BY <1>1
  <2> QED
    BY <1>1, <2>1, ListedAppend
<1> HIDE DEF n
<1>7. Answered'
  <2> SUFFICES ASSUME NEW k \in DOMAIN toClient', toClient'[k].type = "participants"
               PROVE  /\ Mirror(toClient'[k].map, toClient', k, members', handRaised')
                      /\ \A u \in Users : Listed(participants', toClient', 0, k - 1, u)
                                            => u \in DOMAIN toClient'[k].map
    BY DEF Answered
  <2>1. k \in DOMAIN toClient /\ toClient'[k] = toClient[k]
    BY <1>2
  <2>2. k \in 0..n /\ k - 1 \in 0..n
    BY <1>1, <1>2, <2>1
  <2>3. /\ Mirror(toClient[k].map, toClient, k, members, handRaised)
        /\ \A u \in Users : Listed(participants, toClient, 0, k - 1, u)
                              => u \in DOMAIN toClient[k].map
    BY <2>1 DEF Roster, Answered
  <2> QED
    BY <1>3, <1>4, <1>6, <2>1, <2>2, <2>3
<1>8. NoGhosts'
  BY <1>2, <1>3, <1>6 DEF Roster, NoGhosts, n
<1> QED
  BY <1>5, <1>7, <1>8 DEF Roster

\* A message about something else.
LEMMA NeutralRoster ==
  ASSUME Types, Wire, Roster, NEW m \in Messages, toClient' = Append(toClient, m),
         m.type \notin {"participants", "participantJoined", "participantLeft",
                        "participantStatusChange"},
         UNCHANGED <<connection, roster, members, handRaised>>
  PROVE  Roster'
<1>1. /\ \A u : ~Joins(m, u) /\ ~Leaves(m, u) /\ ~SetsHand(m, u)
      /\ ~Needs(m)
  BY DEF Joins, Leaves, SetsHand, Needs
<1> QED
  BY <1>1, SpeaksRoster

LEMMA StatusRoster ==
  ASSUME Types, Wire, Types', Wire', Roster, NEW u \in members, NEW v \in BOOLEAN, SetStatus(u, v),
         UNCHANGED <<connection, roster, members, subscribed>>
  PROVE  Roster'
<1> DEFINE m == [type |-> "participantStatusChange", who |-> u, raised |-> v]
<1>1. u \in Users /\ handRaised \in [Users -> BOOLEAN] /\ members \subseteq Users
  BY DEF Types
<1>2. m \in Messages /\ m.type = "participantStatusChange" /\ m.who = u /\ m.raised = v
  BY <1>1 DEF Messages
<1>3. \A w \in Users : handRaised'[w] = IF w = u THEN v ELSE handRaised[w]
  BY <1>1 DEF SetStatus
<1>4. Broadcast(m)
  BY DEF SetStatus
<1> HIDE DEF m
<1>5. CASE "participantsSO" \in subscribed
  <2>1. toClient' = Append(toClient, m)
    BY <1>4, <1>5 DEF Broadcast
  <2>2. /\ \A w : ~Joins(m, w) /\ ~Leaves(m, w) /\ (SetsHand(m, w) <=> w = u)
        /\ Needs(m)
    BY <1>2 DEF Joins, Leaves, SetsHand, Needs
  <2> QED
    BY <1>1, <1>2, <1>3, <2>1, <2>2, SpeaksRoster
<1>6. CASE "participantsSO" \notin subscribed
  BY <1>6, NothingYet
<1> QED
  BY <1>5, <1>6

\* The answer to the query: the list the server has now.
LEMMA QueryRoster ==
  ASSUME Types, Wire, Roster, NEW map, map = [u \in members |-> handRaised[u]],
         toClient' = Append(toClient, [type |-> "participants", map |-> map]),
         [type |-> "participants", map |-> map] \in Messages,
         UNCHANGED <<connection, roster, members, handRaised>>,
         conn = "open", "participantsSO" \in sharedObjects, ~Synced, Me \in members
  PROVE  Roster'
<1> DEFINE n == Len(toClient)
           m == [type |-> "participants", map |-> map]
<1>1. toClient \in Seq(Messages) /\ n \in Nat /\ members \subseteq Users
  BY DEF Types
<1>2. /\ DOMAIN toClient = 1..n /\ Len(toClient') = n + 1
      /\ \A i \in DOMAIN toClient' : i = n + 1 \/ (i \in DOMAIN toClient /\ toClient'[i] = toClient[i])
      /\ toClient'[n + 1] = m
  BY <1>1, AppendOf
<1>3. sharedObjects' = sharedObjects /\ conn' = conn /\ participants' = participants
      /\ members' = members /\ handRaised' = handRaised
  BY DEF connection, roster
<1>4. /\ \A u : ~Joins(m, u) /\ ~Leaves(m, u) /\ ~SetsHand(m, u)
      /\ ~Needs(m) /\ m.type = "participants" /\ m.map = map
  BY DEF Joins, Leaves, SetsHand, Needs
<1>5. toClient' = Append(toClient, m) /\ m \in Messages
  OBVIOUS
<1>6. DOMAIN map = members /\ \A u \in members : map[u] = handRaised[u]
  OBVIOUS
<1> HIDE DEF m
<1>7. Current'
  BY <1>3 DEF Current, Synced
<1>8. ASSUME NEW list, NEW k \in 0..n, Mirror(list, toClient, k, members, handRaised)
      PROVE  Mirror(list, toClient', k, members', handRaised')
  BY <1>1, <1>3, <1>4, <1>5, <1>8, MirrorAppend
<1>9. ASSUME NEW u \in Users
      PROVE  /\ \A i \in 0..n : Listed(participants, toClient', 0, i, u)
                                  <=> Listed(participants, toClient, 0, i, u)
             /\ Listed(participants, toClient', 0, n + 1, u)
                  <=> Listed(participants, toClient, 0, n, u)
  <2>1. 0 \in 0..n
    BY <1>1
  <2>2. Listed(participants, toClient', 0, n + 1, u)
          <=> (Joins(m, u) \/ (Listed(participants, toClient, 0, n, u) /\ ~Leaves(m, u)))
    BY <1>1, <1>5, <2>1, ListedAppend
  <2>3. \A i \in 0..n :
          Listed(participants, Append(toClient, m), 0, i, u) <=> Listed(participants, toClient, 0, i, u)
    BY <1>1, <2>1, ListedAppend
  <2> QED
    BY <1>4, <1>5, <2>2, <2>3
<1>10. \A u \in Users : Listed(participants, toClient, 0, n, u) => u \in members
  BY DEF Roster, NoGhosts
<1> HIDE DEF n
<1>11. NoGhosts'
  BY <1>2, <1>3, <1>9, <1>10 DEF NoGhosts
<1>12. Mirror(map, toClient', n + 1, members, handRaised)
  <2>1. \A i \in (n + 1 + 1)..(n + 1) : FALSE
    BY <1>1
  <2>2. \A u \in Users : u \in members <=> Listed(map, toClient', n + 1, n + 1, u)
    BY <1>6, <2>1 DEF Listed
  <2>3. \A u \in Users : u \in members => Raised(map, toClient', n + 1, u, handRaised[u])
    BY <1>2, <1>6, <2>1 DEF Raised
  <2> QED
    BY <1>2, <1>6, <2>1, <2>2, <2>3 DEF Mirror
<1>13. Answered'
  <2> SUFFICES ASSUME NEW k \in DOMAIN toClient', toClient'[k].type = "participants"
               PROVE  /\ Mirror(toClient'[k].map, toClient', k, members', handRaised')
                      /\ \A u \in Users : Listed(participants', toClient', 0, k - 1, u)
                                            => u \in DOMAIN toClient'[k].map
    BY DEF Answered
  <2>1. CASE k \in DOMAIN toClient /\ toClient'[k] = toClient[k]
    <3>1. k \in 0..n /\ k - 1 \in 0..n
      BY <1>1, <1>2, <2>1
    <3>2. /\ Mirror(toClient[k].map, toClient, k, members, handRaised)
          /\ \A u \in Users : Listed(participants, toClient, 0, k - 1, u)
                                => u \in DOMAIN toClient[k].map
      BY <2>1 DEF Roster, Answered
    <3> QED
      BY <1>3, <1>8, <1>9, <2>1, <3>1, <3>2
  <2>2. CASE k = n + 1
    <3>1. toClient'[k].map = map /\ k - 1 = n /\ n \in 0..n
      BY <1>1, <1>2, <1>4, <2>2
    <3>2. Mirror(toClient'[k].map, toClient', k, members', handRaised')
      BY <1>3, <1>12, <2>2, <3>1
    <3> QED
      BY <1>3, <1>6, <1>9, <1>10, <3>1, <3>2
  <2> QED
    BY <1>2, <2>1, <2>2
<1> QED
  BY <1>7, <1>11, <1>13 DEF Roster
-----------------------------------------------------------------------------
LEMMA ServerRoster ==
  ASSUME Types, Wire, Types', Wire', Roster, Server PROVE Roster'
<1> DEFINE m == Head(toServer)
<1>1. UNCHANGED <<connection, roster>>
  BY DEF Server, ServerAnswers, UserJoins, UserLeaves, PeerWrites, StatusChanges, ModeratorKicks,
     ServerUnchanged
<1>2. members \subseteq Users /\ toServer \in Seq(Requests) /\ handRaised \in [Users -> BOOLEAN]
  BY DEF Types
<1>3. ASSUME NEW u \in Others, UserJoins(u) PROVE Roster'
  <2> DEFINE r == [type |-> "participantJoined", who |-> u, raised |-> handRaised[u]]
  <2>1. r \in Messages /\ r.type = "participantJoined" /\ r.who = u /\ r.raised = handRaised[u]
    BY <1>2, UserSets DEF Messages
  <2>2. Broadcast(r) /\ members' = members \cup {u} /\ handRaised' = handRaised
        /\ subscribed' = subscribed
    BY <1>3 DEF UserJoins
  <2> HIDE DEF r
  <2>3. /\ \A w : (Joins(r, w) <=> w = u) /\ ~Leaves(r, w) /\ (SetsHand(r, w) <=> w = u)
        /\ ~Needs(r)
    BY <2>1 DEF Joins, Leaves, SetsHand, Needs
  <2>4. CASE "participantsSO" \in subscribed
    <3>1. toClient' = Append(toClient, r)
      BY <2>2, <2>4 DEF Broadcast
    <3> QED
      BY <1>1, <2>1, <2>2, <2>3, <3>1, SpeaksRoster
  <2>5. CASE "participantsSO" \notin subscribed
    BY <2>2, <2>5, NothingYet
  <2> QED
    BY <2>4, <2>5
<1>4. ASSUME NEW u \in Others, UserLeaves(u) PROVE Roster'
  <2> DEFINE r == [type |-> "participantLeft", who |-> u]
  <2>1. r \in Messages /\ r.type = "participantLeft" /\ r.who = u
    BY DEF Messages
  <2>2. Broadcast(r) /\ members' = members \ {u} /\ handRaised' = handRaised
        /\ subscribed' = subscribed /\ u \in members
    BY <1>4 DEF UserLeaves
  <2> HIDE DEF r
  <2>3. /\ \A w : ~Joins(r, w) /\ (Leaves(r, w) <=> w = u) /\ ~SetsHand(r, w)
    BY <2>1 DEF Joins, Leaves, SetsHand
  <2>4. CASE "participantsSO" \in subscribed
    <3>1. toClient' = Append(toClient, r)
      BY <2>2, <2>4 DEF Broadcast
    <3> QED
      BY <1>1, <1>2, <2>1, <2>2, <2>3, <3>1, SpeaksRoster
  <2>5. CASE "participantsSO" \notin subscribed
    BY <2>2, <2>5, NothingYet
  <2> QED
    BY <2>4, <2>5
<1>5. ASSUME NEW r \in Messages, r.type = "kickUserCallback", Broadcast(r), UNCHANGED server
      PROVE  Roster'
  <2>1. members' = members /\ handRaised' = handRaised /\ subscribed' = subscribed
    BY <1>5 DEF server
  <2>2. CASE "participantsSO" \in subscribed
    <3>1. toClient' = Append(toClient, r)
      BY <1>5, <2>2 DEF Broadcast
    <3> QED
      BY <1>1, <1>5, <2>1, <3>1, NeutralRoster
  <2>3. CASE "participantsSO" \notin subscribed
    BY <2>1, <2>3, NothingYet
  <2> QED
    BY <2>2, <2>3
<1>6. ASSUME NEW u \in Users, ModeratorKicks(u) PROVE Roster'
  <2> DEFINE r == [type |-> "kickUserCallback", who |-> u]
  <2>1. r \in Messages /\ r.type = "kickUserCallback"
    BY DEF Messages
  <2>2. Broadcast(r) /\ UNCHANGED server
    BY <1>6 DEF ModeratorKicks
  <2> HIDE DEF r
  <2> QED
    BY <1>5, <2>1, <2>2
<1>7. ASSUME NEW u \in Users, StatusChanges(u) PROVE Roster'
  <2>1. u \in members /\ SetStatus(u, ~handRaised[u]) /\ (~handRaised[u]) \in BOOLEAN
        /\ UNCHANGED <<members, subscribed>>
    BY <1>7 DEF StatusChanges
  <2> QED
    BY <1>1, <2>1, StatusRoster
<1>8. ASSUME NEW u \in Others, PeerWrites(u) PROVE Roster'
  <2> DEFINE r == [type |-> "messageReceived", who |-> u]
  <2>1. r \in Messages /\ r.type = "messageReceived"
    BY DEF Messages
  <2>2. toClient' = Append(toClient, r) /\ UNCHANGED <<members, handRaised>>
    BY <1>8 DEF PeerWrites, server
  <2> HIDE DEF r
  <2> QED
    BY <1>1, <2>1, <2>2, NeutralRoster
<1>9. CASE ServerAnswers
  <2>1. toServer # <<>> /\ Answer(m)
    BY <1>9 DEF ServerAnswers
  <2>2. m \in Requests /\ Fits(m, sharedObjects, subscribed, Me \in members)
    BY <1>2, <2>1, TailOf, FitTail DEF Wire
  <2>3. conn = "open" /\ subscribed \subseteq sharedObjects
    BY <2>1 DEF Wire, Types
  <2> HIDE DEF m
  <2>4. CASE m.type = "connect" /\ AnswerConnect
    <3>1. "participantsSO" \notin subscribed
      BY <2>2, <2>3, <2>4 DEF Fits, Hellos
    <3>2. subscribed' = subscribed
      BY <2>4 DEF AnswerConnect, server
    <3> QED
      BY <3>1, <3>2, NothingYet
  <2>5. CASE m.type = "getMyUserId" /\ UNCHANGED server
             /\ toClient' = Append(toClient, [type |-> "myUserId"])
    <3>1. "participantsSO" \notin subscribed
      BY <2>2, <2>3, <2>5 DEF Fits, Hellos
    <3> QED
      BY <2>5, <3>1, NothingYet DEF server
  <2>6. CASE m.type = "connectSO" /\ subscribed' = subscribed \cup {m.so}
             /\ toClient' = Append(toClient, [type |-> "clear", so |-> m.so])
             /\ UNCHANGED <<members, handRaised, arrived>>
    <3> DEFINE r == [type |-> "clear", so |-> m.so]
    <3>1. m.so \in SharedObjects
      BY <2>2, <2>6 DEF Requests
    <3>2. r \in Messages /\ r.type = "clear"
      BY <3>1 DEF Messages
    <3>3. toClient' = Append(toClient, r)
      BY <2>6
    <3> HIDE DEF r
    <3> QED
      BY <1>1, <2>6, <3>2, <3>3, NeutralRoster
  <2>7. CASE m.type = "getParticipants" /\ UNCHANGED server
             /\ toClient' = Append(toClient, [type |-> "participants",
                                              map |-> [u \in members |-> handRaised[u]]])
    <3> DEFINE map == [u \in members |-> handRaised[u]]
    <3>1. map \in [members -> BOOLEAN] /\ members \in SUBSET Users
      BY <1>2
    <3>2. map \in Statuses
      BY <3>1 DEF Statuses
    <3>3. Asks(m) /\ Handshake(m) /\ m.type \notin Hellos
      BY <2>7 DEF Asks, Handshake, Hellos
    <3>4. "participantsSO" \in sharedObjects /\ ~Synced /\ Me \in members
      BY <2>2, <3>3 DEF Fits, Synced, Hellos
    <3>5. toClient' = Append(toClient, [type |-> "participants", map |-> map])
          /\ members' = members /\ handRaised' = handRaised /\ map = [u \in members |-> handRaised[u]]
      BY <2>7 DEF server
    <3> HIDE DEF map
    <3>6. [type |-> "participants", map |-> map] \in Messages
      BY <3>2 DEF Messages
    <3> QED
      BY <1>1, <2>3, <3>4, <3>5, <3>6, QueryRoster
  <2>8. ASSUME UNCHANGED <<toClient, members, handRaised>> PROVE Roster'
    BY <1>1, <2>8 DEF Roster, Current, Answered, NoGhosts, Synced, connection, roster
  <2>9. CASE m.type = "setParticipantStatus" /\ UNCHANGED <<members, arrived, subscribed>>
             /\ IF m.who \in members THEN SetStatus(m.who, m.raised)
                                     ELSE UNCHANGED <<handRaised, toClient>>
    <3>1. CASE m.who \in members
      <4>1. m.raised \in BOOLEAN
        BY <2>2, <2>9 DEF Requests
      <4> QED
        BY <1>1, <2>9, <3>1, <4>1, StatusRoster
    <3>2. CASE m.who \notin members
      BY <2>8, <2>9, <3>2
    <3> QED
      BY <3>1, <3>2
  <2>10. CASE m.type = "kickUser" /\ Broadcast([type |-> "kickUserCallback", who |-> m.who])
              /\ UNCHANGED server
    <3> DEFINE r == [type |-> "kickUserCallback", who |-> m.who]
    <3>1. m.who \in Users
      BY <2>2, <2>10 DEF Requests
    <3>2. r \in Messages /\ r.type = "kickUserCallback"
      BY <3>1 DEF Messages
    <3>3. Broadcast(r)
      BY <2>10
    <3> HIDE DEF r
    <3> QED
      BY <1>5, <2>10, <3>2, <3>3
  <2>11. CASE UNCHANGED <<server, toClient>>
    BY <2>8, <2>11 DEF server
  <2> QED
    BY <2>1, <2>4, <2>5, <2>6, <2>7, <2>9, <2>10, <2>11 DEF Answer
<1> QED
  BY <1>3, <1>4, <1>6, <1>7, <1>8, <1>9 DEF Server

\* The list as the handler of a message leaves it.
Updated(list, list2, m) ==
  /\ \A u : u \in DOMAIN list2 <=> (Joins(m, u) \/ (u \in DOMAIN list /\ ~Leaves(m, u)))
  /\ \A u \in DOMAIN list2 : list2[u] = IF SetsHand(m, u) THEN m.raised ELSE list[u]

LEMMA HandledRoster ==
  ASSUME Types, Roster, toClient # <<>>, Took, sharedObjects' = sharedObjects,
         Updated(participants, participants', Head(toClient))
  PROVE  Roster'
<1> DEFINE n == Len(toClient)
<1>1. /\ toClient \in Seq(Messages) /\ toClient' = Tail(toClient) /\ Head(toClient) = toClient[1]
      /\ toClient[1] \in Messages /\ conn' = conn
      /\ members' = members /\ handRaised' = handRaised
  BY Taken DEF Types, Took, server
<1>2. /\ DOMAIN toClient = 1..n /\ n \in Nat /\ 1 \in 1..n /\ n \in 1..n
      /\ DOMAIN toClient' = 1..(n - 1) /\ Len(toClient') = n - 1
      /\ \A i \in DOMAIN toClient' : i + 1 \in DOMAIN toClient /\ toClient'[i] = toClient[i + 1]
  BY <1>1
<1>3. \A u : \A i \in 1..n : Listed(participants', toClient', 0, i - 1, u)
                             <=> Listed(participants, toClient, 0, i, u)
  <2> TAKE u
  <2>1. u \in DOMAIN participants'
          <=> (Joins(toClient[1], u) \/ (u \in DOMAIN participants /\ ~Leaves(toClient[1], u)))
    BY <1>1 DEF Updated
  <2> QED
    BY <1>1, <2>1, ListedHead
<1>4. ASSUME Mirror(participants, toClient, 0, members, handRaised)
      PROVE  Mirror(participants', toClient', 0, members, handRaised)
  <2>1. ~Leaves(toClient[1], Me)
    BY <1>1, UsersAssumption DEF Leaves, Messages
  <2>2. Me \in DOMAIN participants'
    BY <1>1, <1>4, <2>1 DEF Mirror, Updated
  <2> QED
    BY <1>1, <1>4, <2>2, MirrorHead DEF Updated
<1>5. Current'
  BY <1>1, <1>4 DEF Roster, Current, Synced
<1> HIDE DEF n
<1>6. NoGhosts'
  BY <1>1, <1>2, <1>3 DEF Roster, NoGhosts, n
<1>7. Answered'
  <2> SUFFICES ASSUME NEW k \in DOMAIN toClient', toClient'[k].type = "participants"
               PROVE  /\ Mirror(toClient'[k].map, toClient', k, members', handRaised')
                      /\ \A u \in Users : Listed(participants', toClient', 0, k - 1, u)
                                            => u \in DOMAIN toClient'[k].map
    BY DEF Answered
  <2>1. k + 1 \in 1..Len(toClient) /\ k + 1 - 1 = k /\ k \in 1..n /\ toClient'[k] = toClient[k + 1]
        /\ k + 1 \in DOMAIN toClient
    BY <1>2 DEF n
  <2>2. /\ Mirror(toClient[k + 1].map, toClient, k + 1, members, handRaised)
        /\ \A u \in Users : Listed(participants, toClient, 0, k + 1 - 1, u)
                              => u \in DOMAIN toClient[k + 1].map
    BY <2>1 DEF Roster, Answered
  <2>3. Mirror(toClient[k + 1].map, Tail(toClient), k + 1 - 1, members, handRaised)
    BY <1>1, <2>1, <2>2, MirrorTail
  <2> QED
    BY <1>1, <1>3, <2>1, <2>2, <2>3
<1> QED
  BY <1>5, <1>6, <1>7 DEF Roster

LEMMA HandlesRoster ==
  ASSUME Types, Wire, Types', Wire', Roster, Handles PROVE Roster'
<1> DEFINE m == Head(toClient)
<1>1. toClient # <<>> /\ Took /\ conn = "open"
  BY DEF Handles, Greeted, Takes, OnGetMyUserId, OnSharedObjectClear, OnQueryParticipants,
     OnParticipantJoined, Receive, ParticipantGone, OnParticipantStatusChange,
     OnKickUserCallback, OnPrivateChatMessage
<1>2. Fits(m, sharedObjects, subscribed, Me \in members) /\ m \in Messages
      /\ (Handshake(m) => Quiet(Tail(toClient))) /\ subscribed \subseteq sharedObjects
  BY <1>1, FitsTaken, Taken DEF Wire
<1>3. subscribed' = subscribed /\ toClient' = Tail(toClient) /\ members' = members
      /\ handRaised' = handRaised
  BY <1>1 DEF Took, server
<1>4. CASE Greeted \/ OnGetMyUserId
  <2>1. m.type \in Hellos
    BY <1>4 DEF Greeted, Takes, OnGetMyUserId, Receive, Hellos
  <2> QED
    BY <1>2, <1>3, <2>1, NothingYet DEF Fits
<1>5. CASE OnQueryParticipants
  <2>1. m.type = "participants" /\ m = toClient[1] /\ 1 \in DOMAIN toClient
        /\ toClient \in Seq(Messages) /\ Len(toClient) \in Nat /\ 1 \in 1..Len(toClient)
    BY <1>1, <1>5, Taken, TailOf DEF OnQueryParticipants, Receive, Types
  <2>2. Mirror(m.map, toClient, 1, members, handRaised)
    BY <2>1 DEF Roster, Answered
  <2>3. participants' = m.map /\ 1 - 1 = 0
    BY <1>5 DEF OnQueryParticipants
  <2>4. Mirror(participants', toClient', 0, members', handRaised')
    BY <1>1, <1>3, <2>1, <2>2, <2>3, MirrorTail
  <2>5. Current' /\ NoGhosts'
    BY <2>4 DEF Current, NoGhosts, Mirror
  <2>6. Quiet(toClient')
    BY <1>2, <1>3, <2>1 DEF Handshake, Asks
  <2>7. Answered'
    BY <2>6 DEF Answered, Quiet, Handshake, Asks
  <2> QED
    BY <2>5, <2>7 DEF Roster
<1>6. ASSUME participants' = participants, sharedObjects' = sharedObjects,
             m.type \in {"clear", "kickUserCallback", "messageReceived"}
      PROVE  Roster'
  <2>1. Updated(participants, participants', m)
    BY <1>6 DEF Updated, Joins, Leaves, SetsHand
  <2> QED
    BY <1>1, <1>6, <2>1, HandledRoster
<1>7. CASE OnSharedObjectClear
  BY <1>6, <1>7 DEF OnSharedObjectClear, Receive, roster
<1>8. CASE OnKickUserCallback /\ Took /\ m.who # Me
  BY <1>6, <1>8 DEF OnKickUserCallback, Receive, roster
<1>9. CASE OnPrivateChatMessage /\ Took /\ m.who \in DOMAIN participants
  <2>1. CASE m.who \in contacts
    BY <1>6, <1>9, <2>1 DEF OnPrivateChatMessage, Receive, roster
  <2>2. CASE m.who \notin contacts
    <3>1. conn' = "closed"
      BY <1>9, <2>2 DEF OnPrivateChatMessage, FailWith, Close, Hangup
    <3> QED
      BY <1>1, <3>1 DEF Took
  <2> QED
    BY <2>1, <2>2
<1>10. CASE OnParticipantJoined
  <2>1. /\ m.type = "participantJoined" /\ sharedObjects' = sharedObjects
        /\ participants' = [v \in DOMAIN participants \cup {m.who} |->
                              IF v = m.who THEN m.raised ELSE participants[v]]
    BY <1>10 DEF OnParticipantJoined, Receive
  <2>2. Updated(participants, participants', m)
    BY <2>1 DEF Updated, Joins, Leaves, SetsHand
  <2> QED
    BY <1>1, <2>1, <2>2, HandledRoster
<1>11. CASE ParticipantGone
  <2>1. /\ m.type = "participantLeft" /\ sharedObjects' = sharedObjects
        /\ participants' = [v \in DOMAIN participants \ {m.who} |-> participants[v]]
    BY <1>11 DEF ParticipantGone, Takes, WithoutEntry
  <2>2. Updated(participants, participants', m)
    BY <2>1 DEF Updated, Joins, Leaves, SetsHand
  <2> QED
    BY <1>1, <2>1, <2>2, HandledRoster
<1>12. CASE OnParticipantStatusChange /\ Took /\ m.who \in DOMAIN participants
  <2>1. /\ m.type = "participantStatusChange" /\ sharedObjects' = sharedObjects
        /\ participants' = [participants EXCEPT ![m.who] = m.raised]
    BY <1>12 DEF OnParticipantStatusChange, Receive
  <2>2. participants \in [DOMAIN participants -> BOOLEAN]
    BY DEF Types
  <2>3. /\ DOMAIN participants' = DOMAIN participants
        /\ \A u \in DOMAIN participants :
             participants'[u] = IF u = m.who THEN m.raised ELSE participants[u]
    BY <2>1, <2>2
  <2>4. Updated(participants, participants', m)
    BY <2>1, <2>3 DEF Updated, Joins, Leaves, SetsHand
  <2> QED
    BY <1>1, <2>1, <2>4, HandledRoster
<1> QED
  BY <1>4, <1>5, <1>7, <1>8, <1>9, <1>10, <1>11, <1>12 DEF Handles

LEMMA RosterStep ==
  ASSUME Types, Wire, Types', Wire', Roster, Step PROVE Roster'
<1>1. ASSUME toClient' = <<>>, conn' = "closed" \/ sharedObjects' = {} PROVE Roster'
  BY <1>1 DEF Roster, Current, Answered, NoGhosts, Synced
<1>2. CASE Ended
  BY <1>1, <1>2 DEF Ended
<1>3. CASE Connect
  <2>1. toClient' = <<>> /\ sharedObjects' = {}
    BY <1>3 DEF Connect, Wire
  <2> QED
    BY <1>1, <2>1
<1>4. ASSUME UNCHANGED <<server, toClient, connection, roster>> PROVE Roster'
  BY <1>4 DEF Roster, Current, Answered, NoGhosts, Synced, server, connection, roster
<1>5. CASE Idle \/ Commanded \/ RanPosted
  BY <1>4, <1>5 DEF Idle, Commanded, RanPosted, wire
<1> QED
  BY <1>2, <1>3, <1>5, ServerRoster, HandlesRoster DEF Step
-----------------------------------------------------------------------------
(* The contact list and the list of participants.                           *)
LEMMA PostedContacts ==
  ASSUME Types, Contacts, NEW t \in Tasks, ui' = Append(ui, t), contacts' = contacts,
         \A u \in Users : Adds(t, u) \/ (InRoster(u) /\ ~Hides(t, u)) => InRoster(u)',
         conn' = "open" => \A u \in Users :
           InRoster(u)' => Adds(t, u) \/ (conn = "open" /\ InRoster(u) /\ ~Hides(t, u)),
         t.op = "status" => conn = "open" /\ t.who \in Users /\ InRoster(t.who)
  PROVE  Contacts'
<1> DEFINE n == Len(ui)
<1>1. ui \in Seq(Tasks) /\ n \in Nat
  BY DEF Types
<1>2. /\ DOMAIN ui = 1..n /\ Len(ui') = n + 1 /\ ui'[n + 1] = t
      /\ \A i \in DOMAIN ui' : i = n + 1 \/ (i \in DOMAIN ui /\ ui'[i] = ui[i])
  BY <1>1, AppendOf
<1>3. \A u : /\ \A i \in 0..n : Shown(contacts, ui', i, u) <=> Shown(contacts, ui, i, u)
             /\ Shown(contacts, ui', n + 1, u)
                  <=> (Adds(t, u) \/ (Shown(contacts, ui, n, u) /\ ~Hides(t, u)))
  BY <1>1, ShownAppend
<1>4. /\ \A u \in Users : Shown(contacts, ui, n, u) => InRoster(u)
      /\ conn = "open" => \A u \in Users : InRoster(u) => Shown(contacts, ui, n, u)
  BY DEF Contacts
<1>5. \A i \in DOMAIN ui : ui[i].op = "status" => Shown(contacts, ui, i - 1, ui[i].who)
  BY DEF Contacts
<1> HIDE DEF n
<1>6. /\ \A u \in Users : Shown(contacts', ui', Len(ui'), u) => InRoster(u)'
      /\ conn' = "open" => \A u \in Users : InRoster(u)' => Shown(contacts', ui', Len(ui'), u)
  BY <1>2, <1>3, <1>4
<1>7. ASSUME NEW i \in DOMAIN ui', ui'[i].op = "status"
      PROVE  Shown(contacts', ui', i - 1, ui'[i].who)
  <2>1. CASE i = n + 1
    <3>1. i - 1 = n /\ n \in 0..n
      BY <1>1, <2>1
    <3>2. Shown(contacts, ui, n, t.who)
      BY <1>2, <1>4, <1>7, <2>1
    <3> QED
      BY <1>2, <1>3, <2>1, <3>1, <3>2
  <2>2. CASE i \in DOMAIN ui /\ ui'[i] = ui[i]
    <3>1. i - 1 \in 0..n
      BY <1>1, <1>2, <2>2
    <3> QED
      BY <1>3, <1>5, <1>7, <2>2, <3>1
  <2> QED
    BY <1>2, <2>1, <2>2
<1> QED
  BY <1>6, <1>7 DEF Contacts

LEMMA RanContacts ==
  ASSUME Types, Contacts, RanPosted PROVE Contacts'
<1> DEFINE n == Len(ui)
<1>1. /\ ui \in Seq(Tasks) /\ n \in Nat /\ ui # <<>> /\ ui' = Tail(ui) /\ Head(ui) = ui[1]
      /\ DOMAIN ui = 1..n /\ DOMAIN ui' = 1..(n - 1) /\ Len(ui') = n - 1 /\ n \in 1..n
      /\ \A i \in DOMAIN ui' : i + 1 \in DOMAIN ui /\ ui'[i] = ui[i + 1]
  BY TailOf DEF Types, RanPosted
<1>2. \A u : u \in contacts' <=> (Adds(ui[1], u) \/ (u \in contacts /\ ~Hides(ui[1], u)))
  BY <1>1 DEF RanPosted, Adds, Hides
<1>3. \A u : \A i \in 1..n : Shown(contacts', ui', i - 1, u) <=> Shown(contacts, ui, i, u)
  BY <1>1, <1>2, ShownHead
<1>4. conn' = conn /\ \A u \in Users : InRoster(u)' <=> InRoster(u)
  BY DEF RanPosted, InRoster, connection, roster
<1>5. /\ \A u \in Users : Shown(contacts, ui, n, u) => InRoster(u)
      /\ conn = "open" => \A u \in Users : InRoster(u) => Shown(contacts, ui, n, u)
      /\ \A i \in DOMAIN ui : ui[i].op = "status" => Shown(contacts, ui, i - 1, ui[i].who)
  BY DEF Contacts, InRoster
<1> HIDE DEF n
<1>6. /\ \A u \in Users : Shown(contacts', ui', Len(ui'), u) => InRoster(u)'
      /\ conn' = "open" => \A u \in Users : InRoster(u)' => Shown(contacts', ui', Len(ui'), u)
  BY <1>1, <1>3, <1>4, <1>5
<1>7. ASSUME NEW i \in DOMAIN ui', ui'[i].op = "status"
      PROVE  Shown(contacts', ui', i - 1, ui'[i].who)
  <2>1. i \in 1..n /\ i + 1 \in DOMAIN ui /\ i + 1 - 1 = i /\ ui'[i] = ui[i + 1]
    BY <1>1
  <2> QED
    BY <1>3, <1>5, <1>7, <2>1
<1> QED
  BY <1>6, <1>7 DEF Contacts

\* The answer to the query posts one runnable for every user in it.
LEMMA QueryContacts ==
  ASSUME Types, Wire, Answered, Contacts, OnQueryParticipants
  PROVE  /\ Contacts'
         /\ DOMAIN participants \subseteq DOMAIN participants'
         /\ "participantsSO" \in sharedObjects
         /\ \A i \in DOMAIN ui : i \in DOMAIN ui' /\ ui'[i] = ui[i]
         /\ \A i \in DOMAIN ui' : i \in DOMAIN ui \/ ui'[i].op = "add"
<1> DEFINE m == Head(toClient)
           n == Len(ui)
<1>1. toClient # <<>> /\ m.type = "participants" /\ conn = "open"
  BY DEF OnQueryParticipants, Receive
<1>2. m = toClient[1] /\ 1 \in DOMAIN toClient /\ m \in Messages
      /\ Fits(m, sharedObjects, subscribed, Me \in members)
  BY <1>1, Taken, FitsTaken
<1>3. "participantsSO" \in sharedObjects
  BY <1>1, <1>2 DEF Fits, Asks
<1>4. m.map \in Statuses
  BY <1>1, <1>2 DEF Messages
<1>5. PICK found \in SUBSET Users : m.map \in [found -> BOOLEAN]
  BY <1>4 DEF Statuses
<1>6. DOMAIN m.map = found /\ Cardinality(found) \in Nat
  BY <1>5, UserSets, FS_Subset, FS_CardinalityType
<1>7. DOMAIN participants \subseteq found
  <2> SUFFICES ASSUME NEW u \in DOMAIN participants PROVE u \in found
    OBVIOUS
  <2>1. u \in Users
    BY DEF Types
  <2>2. Listed(participants, toClient, 0, 1 - 1, u)
    BY DEF Listed
  <2> QED
    BY <1>1, <1>2, <1>6, <2>1, <2>2 DEF Answered
<1>8. PICK order \in [1..Cardinality(found) -> found] :
        /\ found = {order[i] : i \in DOMAIN order}
        /\ ui' = ui \o [i \in DOMAIN order |-> TaskJoined(order[i])]
  BY <1>6 DEF OnQueryParticipants
<1>9. PICK p \in Seq(Tasks) :
        /\ Len(p) = Cardinality(found) /\ ui' = ui \o p
        /\ \A i \in 1..Len(p) : p[i].op = "add" /\ p[i].who = order[i]
  BY <1>6, <1>8, OrderedTasks
<1>10. \A u \in Users : u \in found <=> \E i \in 1..Len(p) : p[i].who = u
  <2>1. DOMAIN order = 1..Len(p)
    BY <1>9
  <2> QED
    BY <1>8, <1>9, <2>1
<1>11. ui \in Seq(Tasks) /\ n \in Nat /\ Len(p) \in Nat
  BY <1>9 DEF Types
<1>12. /\ DOMAIN ui = 1..n /\ Len(ui') = n + Len(p) /\ DOMAIN ui' = 1..(n + Len(p))
       /\ \A i \in 1..n : ui'[i] = ui[i]
       /\ \A i \in (n + 1)..(n + Len(p)) : ui'[i] = p[i - n]
  BY <1>9, <1>11
<1>13. \A u : /\ \A i \in 0..n : Shown(contacts, ui', i, u) <=> Shown(contacts, ui, i, u)
              /\ Shown(contacts, ui', n + Len(p), u)
                   <=> (Shown(contacts, ui, n, u) \/ \E i \in 1..Len(p) : p[i].who = u)
  <2> TAKE u
  <2>1. \A i \in 1..Len(p) : p[i].op = "add"
    BY <1>9
  <2>2. \A i \in 0..n : Shown(contacts, ui', i, u) <=> Shown(contacts, ui, i, u)
    BY <1>9, <1>11, <2>1, ShownAll
  <2>3. Shown(contacts, ui', n + Len(p), u)
          <=> (Shown(contacts, ui, n, u) \/ \E i \in 1..Len(p) : p[i].who = u)
    <3>1. p \in Seq(Tasks) /\ ui \in Seq(Tasks)
      BY <1>11
    <3>2. Shown(contacts, ui \o p, Len(ui) + Len(p), u)
            <=> (Shown(contacts, ui, Len(ui), u) \/ \E i \in 1..Len(p) : p[i].who = u)
      BY ONLY <2>1, <3>1, ShownAll
    <3> QED
      BY <1>9, <3>2
  <2> QED
    BY <2>2, <2>3
<1>14. contacts' = contacts /\ participants' = m.map /\ "participantsSO" \in sharedObjects'
  BY <1>3 DEF OnQueryParticipants
<1>15. /\ \A u \in Users : Shown(contacts, ui, n, u) <=> u \in DOMAIN participants
       /\ \A i \in DOMAIN ui : ui[i].op = "status" => Shown(contacts, ui, i - 1, ui[i].who)
  BY <1>1, <1>3 DEF Contacts, InRoster
<1> HIDE DEF n, m
<1>16. ASSUME NEW i \in DOMAIN ui'
       PROVE  \/ i \in DOMAIN ui /\ ui'[i] = ui[i] /\ i - 1 \in 0..n
              \/ ui'[i].op = "add"
  <2>1. CASE i \in 1..n
    <3>1. i - 1 \in 0..n
      BY <1>11, <2>1
    <3> QED
      BY <1>12, <2>1, <3>1
  <2>2. CASE i \in (n + 1)..(n + Len(p))
    <3>1. i - n \in 1..Len(p)
      BY <1>11, <2>2
    <3> QED
      BY <1>9, <1>12, <2>2, <3>1
  <2> QED
    BY <1>11, <1>12, <2>1, <2>2
<1>17. \A u \in Users : Shown(contacts', ui', Len(ui'), u)
                          <=> InRoster(u)'
  BY <1>6, <1>7, <1>10, <1>12, <1>13, <1>14, <1>15 DEF InRoster
<1>18. ASSUME NEW i \in DOMAIN ui', ui'[i].op = "status"
       PROVE  Shown(contacts', ui', i - 1, ui'[i].who)
  <2>1. i \in DOMAIN ui /\ ui'[i] = ui[i] /\ i - 1 \in 0..n
    BY <1>16, <1>18
  <2> QED
    BY <1>13, <1>14, <1>15, <1>18, <2>1
<1>19. Contacts'
  BY <1>17, <1>18 DEF Contacts
<1>20. \A i \in DOMAIN ui : i \in DOMAIN ui' /\ ui'[i] = ui[i]
  BY <1>11, <1>12
<1> QED
  BY <1>3, <1>6, <1>7, <1>14, <1>16, <1>19, <1>20

LEMMA ContactsStep ==
  ASSUME Types, Wire, Answered, Contacts, Step
  PROVE  Contacts'
<1> DEFINE m == Head(toClient)
<1>1. ASSUME UNCHANGED <<ui, contacts, sharedObjects, participants>>,
             conn' = conn \/ conn' = "closed"
      PROVE  Contacts'
  BY <1>1 DEF Contacts, InRoster
<1>2. CASE Idle \/ Commanded \/ Greeted \/ OnSharedObjectClear
           \/ (OnKickUserCallback /\ Took /\ m.who # Me)
  BY <1>1, <1>2 DEF Idle, Commanded, Greeted, Takes, OnSharedObjectClear, OnKickUserCallback, Took,
     screen, roster, connection
<1>3. CASE Server
  BY <1>1, <1>3 DEF Server, ServerAnswers, UserJoins, UserLeaves, PeerWrites, StatusChanges,
     ModeratorKicks, ServerUnchanged, screen, roster, connection
<1>4. CASE OnPrivateChatMessage /\ Took /\ m.who \in DOMAIN participants
  <2>1. CASE m.who \in contacts
    BY <1>1, <1>4, <2>1 DEF OnPrivateChatMessage, Took, screen, roster
  <2>2. CASE m.who \notin contacts
    BY <1>4, <2>2 DEF OnPrivateChatMessage, FailWith, Close, Hangup, Receive, Took
  <2> QED
    BY <2>1, <2>2
<1>5. CASE Connect
  <2> DEFINE t == [op |-> "clear"]
  <2>1. t \in Tasks /\ ui' = Append(ui, t) /\ contacts' = contacts /\ sharedObjects' = {}
    BY <1>5 DEF Connect, Tasks
  <2>2. t.op = "clear" /\ \A u : Hides(t, u) /\ ~Adds(t, u)
    BY DEF Hides, Adds
  <2> HIDE DEF t
  <2> QED
    BY <2>1, <2>2, PostedContacts DEF InRoster
<1>6. CASE OnGetMyUserId
  <2>1. toClient # <<>> /\ m.type = "myUserId"
    BY <1>6 DEF OnGetMyUserId, Receive
  <2>2. "participantsSO" \notin sharedObjects
    BY <2>1, FitsTaken DEF Fits, Hellos
  <2>3. DOMAIN participants' = {} /\ ui' = ui /\ contacts' = contacts
    BY <1>6 DEF OnGetMyUserId, Nobody, screen
  <2> QED
    BY <2>2, <2>3 DEF Contacts, InRoster
\* The handlers of what the server broadcasts.
<1>7. ASSUME toClient # <<>>, m.type \in Broadcasts
      PROVE  "participantsSO" \in sharedObjects /\ m \in Messages
  BY <1>7, FitsTaken, Taken DEF Fits, Wire
<1>8. CASE OnParticipantJoined
  <2>1. m.type = "participantJoined" /\ toClient # <<>> /\ conn = "open"
    BY <1>8 DEF OnParticipantJoined, Receive
  <2>2. "participantsSO" \in sharedObjects /\ m.who \in Users
    BY <1>7, <2>1, UserSets DEF Broadcasts, Messages
  <2>3. ui' = Append(ui, TaskJoined(m.who)) /\ contacts' = contacts
        /\ sharedObjects' = sharedObjects
        /\ DOMAIN participants' = DOMAIN participants \cup {m.who}
    BY <1>8 DEF OnParticipantJoined
  <2>4. TaskJoined(m.who) \in Tasks /\ TaskJoined(m.who).op = "add"
        /\ TaskJoined(m.who).who = m.who
    BY <2>2 DEF TaskJoined, Tasks
  <2>5. \A u : ~Hides(TaskJoined(m.who), u) /\ (Adds(TaskJoined(m.who), u) <=> u = m.who)
    BY <2>4 DEF Hides, Adds
  <2> QED
    BY <2>1, <2>2, <2>3, <2>4, <2>5, PostedContacts DEF InRoster
<1>9. CASE ParticipantGone
  <2>1. m.type = "participantLeft" /\ toClient # <<>> /\ conn = "open"
    BY <1>9 DEF ParticipantGone, Takes
  <2>2. "participantsSO" \in sharedObjects /\ m.who \in Users
    BY <1>7, <1>9, <2>1 DEF Broadcasts, Types, ParticipantGone
  <2>3. ui' = Append(ui, TaskLeft(m.who)) /\ contacts' = contacts
        /\ sharedObjects' = sharedObjects
        /\ DOMAIN participants' = DOMAIN participants \ {m.who}
    BY <1>9 DEF ParticipantGone, WithoutEntry
  <2>4. TaskLeft(m.who) \in Tasks /\ TaskLeft(m.who).op = "remove"
        /\ TaskLeft(m.who).who = m.who
    BY <2>2 DEF TaskLeft, Tasks
  <2>5. \A u : ~Adds(TaskLeft(m.who), u) /\ (Hides(TaskLeft(m.who), u) <=> u = m.who)
    BY <2>4 DEF Hides, Adds
  <2> QED
    BY <2>1, <2>2, <2>3, <2>4, <2>5, PostedContacts DEF InRoster
<1>10. CASE OnParticipantStatusChange /\ Took /\ m.who \in DOMAIN participants
  <2>1. m.type = "participantStatusChange" /\ toClient # <<>> /\ conn = "open"
    BY <1>10 DEF OnParticipantStatusChange, Receive
  <2>2. "participantsSO" \in sharedObjects /\ m.who \in Users
    BY <1>7, <1>10, <2>1 DEF Broadcasts, Types
  <2>3. ui' = Append(ui, TaskStatus(m.who)) /\ contacts' = contacts
        /\ sharedObjects' = sharedObjects /\ DOMAIN participants' = DOMAIN participants
    BY <1>10 DEF OnParticipantStatusChange
  <2>4. TaskStatus(m.who) \in Tasks /\ TaskStatus(m.who).op = "status"
        /\ TaskStatus(m.who).who = m.who
    BY <2>2 DEF TaskStatus, Tasks
  <2>5. \A u : ~Adds(TaskStatus(m.who), u) /\ ~Hides(TaskStatus(m.who), u)
    BY <2>4 DEF Hides, Adds
  <2> QED
    BY <1>10, <2>1, <2>2, <2>3, <2>4, <2>5, PostedContacts DEF InRoster
\* The runnable that removes a user is posted, and the list keeps it.
<1>11. CASE Ended
  <2>1. conn' = "closed" /\ UNCHANGED <<contacts, sharedObjects, participants>>
    BY <1>11 DEF Ended, roster
  <2>2. CASE ui' = ui
    BY <1>1, <2>1, <2>2
  <2>3. CASE PostsLeft
    <3>1. ui' = Append(ui, TaskLeft(m.who)) /\ m.who \in Users
      BY <2>3 DEF PostsLeft, Types
    <3>2. TaskLeft(m.who) \in Tasks /\ TaskLeft(m.who).op = "remove"
      BY <3>1 DEF TaskLeft, Tasks
    <3>3. \A u : ~Adds(TaskLeft(m.who), u)
      BY <3>2 DEF Adds
    <3> QED
      BY <2>1, <3>1, <3>2, <3>3, PostedContacts DEF InRoster
  <2> QED
    BY <1>11, <2>2, <2>3 DEF Ended
<1> QED
  BY <1>2, <1>3, <1>4, <1>5, <1>6, <1>8, <1>9, <1>10, <1>11, RanContacts, QueryContacts DEF Step, Handles
-----------------------------------------------------------------------------
(* The private chats, and the first connection.                             *)
\* What handling a message changes on the screen: runnables are posted, and
\* the chats stay.
LEMMA HandlesScreen ==
  ASSUME Types, Wire, Answered, Contacts, Handles
  PROVE  /\ conn = "open" /\ sessions' = sessions
         /\ contacts' = contacts /\ chats' = chats /\ sharedObjects \subseteq sharedObjects'
         /\ \A i \in DOMAIN ui : i \in DOMAIN ui' /\ ui'[i] = ui[i]
         /\ \A i \in DOMAIN ui' : i \notin DOMAIN ui =>
              ui'[i].op # "clear" /\ "participantsSO" \in sharedObjects
         /\ OnGetMyUserId \/ \A u \in DOMAIN participants :
              u \in DOMAIN participants' \/ \E i \in DOMAIN ui' : ui'[i] = TaskLeft(u)
         /\ OnGetMyUserId => "participantsSO" \notin sharedObjects
<1> DEFINE m == Head(toClient)
           Result == /\ sessions' = sessions
                     /\ contacts' = contacts /\ chats' = chats /\ sharedObjects \subseteq sharedObjects'
                     /\ \A i \in DOMAIN ui : i \in DOMAIN ui' /\ ui'[i] = ui[i]
                     /\ \A i \in DOMAIN ui' : i \notin DOMAIN ui =>
                          ui'[i].op # "clear" /\ "participantsSO" \in sharedObjects
                     /\ OnGetMyUserId \/ \A u \in DOMAIN participants :
                          u \in DOMAIN participants' \/ \E i \in DOMAIN ui' : ui'[i] = TaskLeft(u)
<1>1. toClient # <<>> /\ Took /\ conn = "open"
  BY DEF Handles, Greeted, Takes, OnGetMyUserId, OnSharedObjectClear, OnQueryParticipants,
     OnParticipantJoined, Receive, ParticipantGone, OnParticipantStatusChange,
     OnKickUserCallback, OnPrivateChatMessage
<1>2. Fits(m, sharedObjects, subscribed, Me \in members) /\ sessions' = sessions
      /\ subscribed \subseteq sharedObjects
  BY <1>1, FitsTaken DEF Took, Wire
<1>3. m.type \in Broadcasts => "participantsSO" \in sharedObjects
  BY <1>2 DEF Fits
<1>4. OnGetMyUserId => "participantsSO" \notin sharedObjects
  <2>1. OnGetMyUserId => m.type = "myUserId"
    BY DEF OnGetMyUserId, Receive
  <2> QED
    BY <1>2, <2>1 DEF Fits, Hellos
\* Nothing, or one runnable, is posted.
<1>5. ASSUME UNCHANGED <<ui, contacts, chats, participants>>, sharedObjects \subseteq sharedObjects'
      PROVE  Result
  BY <1>2, <1>5
<1>6. ASSUME NEW t \in Tasks, ui' = Append(ui, t), t.op # "clear", m.type \in Broadcasts,
             UNCHANGED <<contacts, chats, sharedObjects>>,
             \A u \in DOMAIN participants : u \in DOMAIN participants' \/ t = TaskLeft(u)
      PROVE  Result
  <2>1. ui \in Seq(Tasks)
    BY DEF Types
  <2>2. \A i \in DOMAIN ui' : i = Len(ui) + 1 \/ (i \in DOMAIN ui /\ ui'[i] = ui[i])
    BY <1>6, <2>1, AppendOf
  <2>3. Len(ui) + 1 \in DOMAIN ui' /\ ui'[Len(ui) + 1] = t
        /\ \A i \in DOMAIN ui : i \in DOMAIN ui' /\ ui'[i] = ui[i]
    BY <1>6, <2>1
  <2> QED
    BY <1>2, <1>3, <1>6, <2>2, <2>3
<1>7. ASSUME Greeted \/ OnSharedObjectClear \/ (OnKickUserCallback /\ Took /\ m.who # Me) PROVE Result
  BY <1>5, <1>7 DEF Greeted, OnSharedObjectClear, OnKickUserCallback, screen, roster
<1>8. ASSUME OnGetMyUserId PROVE Result
  BY <1>2, <1>8 DEF OnGetMyUserId, screen
<1>9. ASSUME OnQueryParticipants PROVE Result
  <2>1. contacts' = contacts /\ chats' = chats /\ sharedObjects \subseteq sharedObjects'
    BY <1>9 DEF OnQueryParticipants
  <2>2. /\ DOMAIN participants \subseteq DOMAIN participants'
        /\ "participantsSO" \in sharedObjects
        /\ \A i \in DOMAIN ui : i \in DOMAIN ui' /\ ui'[i] = ui[i]
        /\ \A i \in DOMAIN ui' : i \in DOMAIN ui \/ ui'[i].op = "add"
    BY <1>9, QueryContacts
  <2> QED
    BY <1>2, <2>1, <2>2
<1>10. ASSUME OnParticipantJoined PROVE Result
  <2> DEFINE t == TaskJoined(m.who)
  <2>1. m \in Messages /\ m.type = "participantJoined"
    BY <1>10, Taken DEF OnParticipantJoined, Receive
  <2>2. m.who \in Users
    BY <2>1, UserSets DEF Messages
  <2>3. t \in Tasks /\ t.op = "add" /\ m.type \in Broadcasts
    BY <2>1, <2>2 DEF TaskJoined, Tasks, Broadcasts
  <2>4. ui' = Append(ui, t) /\ UNCHANGED <<contacts, chats, sharedObjects>>
        /\ DOMAIN participants' = DOMAIN participants \cup {m.who}
    BY <1>10 DEF OnParticipantJoined
  <2> HIDE DEF t
  <2> QED
    BY <1>6, <2>3, <2>4
<1>11. ASSUME ParticipantGone PROVE Result
  <2> DEFINE t == TaskLeft(m.who)
  <2>1. m.type = "participantLeft" /\ m.who \in Users
    BY <1>11 DEF ParticipantGone, Takes, Types
  <2>2. t \in Tasks /\ t.op = "remove" /\ m.type \in Broadcasts
    BY <2>1 DEF TaskLeft, Tasks, Broadcasts
  <2>3. ui' = Append(ui, t) /\ UNCHANGED <<contacts, chats, sharedObjects>>
        /\ DOMAIN participants' = DOMAIN participants \ {m.who}
    BY <1>11 DEF ParticipantGone, WithoutEntry
  <2>4. \A u \in DOMAIN participants : u \in DOMAIN participants' \/ t = TaskLeft(u)
    BY <2>3
  <2> HIDE DEF t
  <2> QED
    BY <1>6, <2>2, <2>3, <2>4
<1>12. ASSUME OnParticipantStatusChange /\ Took /\ m.who \in DOMAIN participants PROVE Result
  <2> DEFINE t == TaskStatus(m.who)
  <2>1. m.type = "participantStatusChange" /\ m.who \in Users
    BY <1>12 DEF OnParticipantStatusChange, Receive, Types
  <2>2. t \in Tasks /\ t.op = "status" /\ m.type \in Broadcasts
    BY <2>1 DEF TaskStatus, Tasks, Broadcasts
  <2>3. ui' = Append(ui, t) /\ UNCHANGED <<contacts, chats, sharedObjects>>
        /\ DOMAIN participants' = DOMAIN participants
    BY <1>12 DEF OnParticipantStatusChange
  <2> HIDE DEF t
  <2> QED
    BY <1>6, <2>2, <2>3
<1>13. ASSUME OnPrivateChatMessage /\ Took /\ m.who \in DOMAIN participants PROVE Result
  <2>1. CASE m.who \in contacts
    BY <1>5, <1>13, <2>1 DEF OnPrivateChatMessage, screen, roster
  <2>2. CASE m.who \notin contacts
    BY <1>13, <2>2 DEF OnPrivateChatMessage, FailWith, Close, Hangup, Receive, Took
  <2> QED
    BY <2>1, <2>2
<1>14. Result
  BY <1>7, <1>8, <1>9, <1>10, <1>11, <1>12, <1>13 DEF Handles
<1> QED
  BY <1>1, <1>4, <1>14

\* The end of the connection posts nothing, or the runnable that removes a
\* participant.
LEMMA EndedScreen ==
  ASSUME Types, Wire, Ended
  PROVE  /\ UNCHANGED <<sessions, sharedObjects, participants, contacts, chats>>
         /\ conn' = "closed"
         /\ \A i \in DOMAIN ui : i \in DOMAIN ui' /\ ui'[i] = ui[i]
         /\ \A i \in DOMAIN ui' :
              \/ i \in DOMAIN ui
              \/ conn = "open" /\ ui'[i].op # "clear" /\ "participantsSO" \in sharedObjects
         /\ ui' = ui \/ conn = "open"
<1>1. UNCHANGED <<sessions, sharedObjects, participants, contacts, chats>> /\ conn' = "closed"
  BY DEF Ended, roster
<1>2. CASE ui' = ui
  BY <1>1, <1>2
<1>3. CASE PostsLeft
  <2> DEFINE t == TaskLeft(Head(toClient).who)
  <2>1. conn = "open" /\ toClient # <<>> /\ Head(toClient).type \in Broadcasts /\ ui' = Append(ui, t)
    BY <1>3 DEF PostsLeft, Broadcasts
  <2>2. "participantsSO" \in sharedObjects
    BY <2>1, FitsTaken DEF Fits, Wire
  <2>3. ui \in Seq(Tasks) /\ t.op = "remove"
    BY DEF Types, TaskLeft
  <2> HIDE DEF t
  <2>4. \A i \in DOMAIN ui' : i = Len(ui) + 1 \/ i \in DOMAIN ui
    BY <2>1, <2>3
  <2>5. ui'[Len(ui) + 1] = t /\ \A i \in DOMAIN ui : i \in DOMAIN ui' /\ ui'[i] = ui[i]
    BY <2>1, <2>3
  <2> QED
    BY <1>1, <2>1, <2>2, <2>3, <2>4, <2>5
<1> QED
  BY <1>2, <1>3 DEF Ended

LEMMA FirstStep ==
  ASSUME Types, Wire, Answered, Contacts, FirstConnection, Step
  PROVE  FirstConnection'
<1>1. CASE Ended
  BY <1>1, EndedScreen DEF FirstConnection
<1>2. CASE Idle
  BY <1>2 DEF Idle, FirstConnection, screen, connection
<1>3. CASE Server
  <2>1. UNCHANGED <<connection, screen>>
    BY <1>3 DEF Server, ServerAnswers, UserJoins, UserLeaves, PeerWrites, StatusChanges,
       ModeratorKicks, ServerUnchanged
  <2> QED
    BY <2>1 DEF FirstConnection, screen, connection
<1>4. CASE Commanded
  <2>1. UNCHANGED <<conn, sessions, sharedObjects, ui, contacts>>
    BY <1>4 DEF Commanded, connection
  <2>2. contacts = {} => chats' \subseteq chats
    BY <1>4 DEF Commanded
  <2> QED
    BY <2>1, <2>2 DEF FirstConnection
<1>5. CASE RanPosted
  <2>1. UNCHANGED <<conn, sessions, sharedObjects>> /\ ui # <<>> /\ ui' = Tail(ui)
    BY <1>5 DEF RanPosted, connection
  <2>2. Head(ui) = ui[1] /\ 1 \in DOMAIN ui
        /\ \A i \in DOMAIN ui' : i + 1 \in DOMAIN ui /\ ui'[i] = ui[i + 1] /\ i \in Int /\ i + 1 # 1
    BY <2>1, TailOf DEF Types
  <2>3. ASSUME sessions <= 1, "participantsSO" \notin sharedObjects
        PROVE  contacts' = {} /\ chats' = {} /\ \A i \in DOMAIN ui' : ui'[i].op = "clear"
    <3>1. contacts = {} /\ chats = {} /\ \A i \in DOMAIN ui : ui[i].op = "clear"
      BY <2>3 DEF FirstConnection
    <3>2. Head(ui).op = "clear"
      BY <2>2, <3>1
    <3> QED
      BY <1>5, <2>2, <3>1, <3>2 DEF RanPosted
  <2>4. ASSUME sessions <= 1, NEW i \in DOMAIN ui', ui'[i].op = "clear" PROVE FALSE
    BY <2>2, <2>4 DEF FirstConnection
  <2>5. sessions # 0
    BY <2>1 DEF FirstConnection
  <2> QED
    BY <2>1, <2>3, <2>4, <2>5 DEF FirstConnection
<1>6. CASE Connect
  <2>1. sessions' = sessions + 1 /\ ui' = Append(ui, [op |-> "clear"]) /\ sessions \in Nat
        /\ UNCHANGED <<contacts, chats>>
    BY <1>6, LimitsAssumption DEF Connect, Types
  <2>2. CASE sessions = 0
    <3>1. contacts = {} /\ chats = {} /\ ui = <<>>
      BY <2>2 DEF FirstConnection
    <3>2. ui' = <<[op |-> "clear"]>>
      BY <2>1, <3>1
    <3>3. \A i \in DOMAIN ui' : i = 1 /\ ui'[i].op = "clear"
      BY <3>2
    <3> QED
      BY <2>1, <3>1, <3>3 DEF FirstConnection
  <2>3. CASE sessions # 0
    BY <2>1, <2>3 DEF FirstConnection
  <2> QED
    BY <2>2, <2>3
<1>7. CASE Handles
  BY <1>7, HandlesScreen DEF FirstConnection
<1> QED
  BY <1>1, <1>2, <1>3, <1>4, <1>5, <1>6, <1>7 DEF Step

LEMMA ChatsFollowStep ==
  ASSUME Types, Wire, Answered, Contacts, FirstConnection, ChatsFollowRoster, Step
  PROVE  ChatsFollowRoster'
<1> DEFINE Going(u) == \E i \in DOMAIN ui : ui[i] = [op |-> "remove", who |-> u]
<1>1. ASSUME UNCHANGED <<sessions, ui, participants>>, chats' \subseteq chats
      PROVE  ChatsFollowRoster'
  BY <1>1 DEF ChatsFollowRoster
<1>2. CASE Ended
  BY <1>2, EndedScreen DEF ChatsFollowRoster
<1>3. CASE Idle
  BY <1>1, <1>3 DEF Idle, screen, roster, connection
<1>4. CASE Server
  <2>1. UNCHANGED <<connection, roster, screen>>
    BY <1>4 DEF Server, ServerAnswers, UserJoins, UserLeaves, PeerWrites, StatusChanges,
       ModeratorKicks, ServerUnchanged
  <2> QED
    BY <1>1, <2>1 DEF screen, roster, connection
<1>5. CASE Commanded
  <2>1. UNCHANGED <<sessions, ui, participants>>
    BY <1>5 DEF Commanded, connection, roster
  <2>2. ASSUME NEW u \in Others, u \in contacts, chats' = chats \cup {u} PROVE ChatsFollowRoster'
    \* Its runnable shows it, and if it is no participant the one that removes it waits.
    <3>1. ASSUME sessions <= 1, u \notin DOMAIN participants PROVE Going(u)
      <4>1. ~Shown(contacts, ui, Len(ui), u)
        BY <3>1, UserSets DEF Contacts, InRoster
      <4>2. PICK l \in 1..Len(ui) : Hides(ui[l], u)
        BY <2>2, <4>1 DEF Shown
      <4>3. l \in DOMAIN ui /\ ui[l] \in Tasks
        BY DEF Types
      <4>4. ui[l].op # "clear"
        BY <2>2, <3>1, <4>3 DEF FirstConnection
      <4>5. ui[l].op = "remove" /\ ui[l].who = u
        BY <4>2, <4>4 DEF Hides
      <4>6. ui[l] = [op |-> "remove", who |-> u]
        BY <4>3, <4>5 DEF Tasks
      <4> QED
        BY <4>3, <4>6
    <3> QED
      BY <2>1, <2>2, <3>1 DEF ChatsFollowRoster
  <2>3. CASE chats' \subseteq chats
    BY <1>1, <2>1, <2>3
  <2> QED
    BY <1>5, <2>2, <2>3 DEF Commanded
<1>6. CASE RanPosted
  <2>1. UNCHANGED <<sessions, participants>> /\ ui # <<>> /\ ui' = Tail(ui) /\ chats' \subseteq chats
        /\ (Head(ui).op = "remove" => Head(ui).who \notin chats')
    BY <1>6 DEF RanPosted, connection, roster
  <2>2. ui \in Seq(Tasks)
    BY DEF Types
  <2>3. ASSUME NEW u \in chats', Going(u)
        PROVE  \E i \in DOMAIN ui' : ui'[i] = [op |-> "remove", who |-> u]
    <3>1. PICK i \in DOMAIN ui : ui[i] = [op |-> "remove", who |-> u]
      BY <2>3
    <3>2. i # 1
      BY <2>1, <2>2, <3>1, TailOf
    <3>3. i - 1 \in DOMAIN ui' /\ ui'[i - 1] = ui[i]
      BY <2>1, <2>2, <3>2
    <3> QED
      BY <3>1, <3>3
  <2> QED
    BY <2>1, <2>3 DEF ChatsFollowRoster
<1>7. CASE Connect
  <2>1. sessions' = sessions + 1 /\ sessions \in Nat /\ UNCHANGED chats
    BY <1>7, LimitsAssumption DEF Connect, Types
  <2>2. sessions' <= 1 => chats' = {}
    BY <2>1 DEF FirstConnection
  <2> QED
    BY <2>2 DEF ChatsFollowRoster
<1>8. CASE Handles
  <2>1. /\ sessions' = sessions /\ chats' = chats
        /\ \A i \in DOMAIN ui : i \in DOMAIN ui' /\ ui'[i] = ui[i]
        /\ OnGetMyUserId \/ \A u \in DOMAIN participants :
             u \in DOMAIN participants' \/ \E i \in DOMAIN ui' : ui'[i] = TaskLeft(u)
        /\ OnGetMyUserId => "participantsSO" \notin sharedObjects
    BY <1>8, HandlesScreen
  <2>2. CASE OnGetMyUserId
    BY <2>1, <2>2 DEF FirstConnection, ChatsFollowRoster
  <2>3. CASE ~OnGetMyUserId
    BY <2>1, <2>3 DEF ChatsFollowRoster, TaskLeft
  <2> QED
    BY <2>2, <2>3
<1> QED
  BY <1>2, <1>3, <1>4, <1>5, <1>6, <1>7, <1>8 DEF Step

LEMMA ChatsStep ==
  ASSUME Types, Wire, Chats, Step
  PROVE  Chats'
<1> DEFINE m == Head(toClient)
<1>1. ASSUME UNCHANGED <<sharedObjects, privateChats>>, chats' \subseteq chats PROVE Chats'
  BY <1>1 DEF Chats, Synced
<1>2. CASE Ended \/ Idle \/ RanPosted \/ Greeted \/ OnParticipantJoined
           \/ ParticipantGone
           \/ (OnParticipantStatusChange /\ Took /\ m.who \in DOMAIN participants)
           \/ (OnKickUserCallback /\ Took /\ m.who # Me)
  BY <1>1, <1>2 DEF Ended, Idle, RanPosted, Greeted, OnParticipantJoined, ParticipantGone,
     OnParticipantStatusChange, OnKickUserCallback, screen, connection
<1>3. CASE Server
  BY <1>1, <1>3 DEF Server, ServerAnswers, UserJoins, UserLeaves, PeerWrites, StatusChanges,
     ModeratorKicks, ServerUnchanged, screen, connection
<1>4. privateChats \in [Others -> Nat] \cup {NoModule} /\ chats \subseteq Others
  BY DEF Types
<1>5. NoMessages \in [Others -> Nat]
  BY DEF NoMessages
<1>6. CASE Commanded
  <2>1. sharedObjects' = sharedObjects
    BY <1>6 DEF Commanded, connection
  <2>2. CASE privateChats' = privateChats /\ chats' \subseteq chats
    BY <1>1, <2>1, <2>2
  <2>3. CASE privateChats' = privateChats /\ privateChats # NoModule
    BY <1>4, <2>3 DEF Chats
  <2>4. ASSUME NEW u \in chats, privateChats' = [privateChats EXCEPT ![u] = @ + 1] PROVE Chats'
    BY <1>4, <2>4 DEF Chats
  <2> QED
    BY <1>6, <2>2, <2>3, <2>4 DEF Commanded
<1>7. CASE Connect
  <2>1. sharedObjects' = {} /\ UNCHANGED <<privateChats, chats>>
    BY <1>7 DEF Connect
  <2> QED
    BY <2>1 DEF Chats, Synced
<1>8. CASE OnGetMyUserId
  <2>1. sharedObjects' = sharedObjects \cup {"participantsSO"} /\ UNCHANGED <<privateChats, chats>>
    BY <1>8 DEF OnGetMyUserId, screen
  <2> QED
    BY <2>1 DEF Chats, Synced
<1>9. CASE OnSharedObjectClear
  <2>1. privateChats' \in {privateChats, NoMessages} /\ UNCHANGED <<sharedObjects, chats>>
    BY <1>9 DEF OnSharedObjectClear, screen
  <2> QED
    BY <1>5, <2>1 DEF Chats, Synced
<1>10. CASE OnQueryParticipants
  BY <1>5, <1>10 DEF OnQueryParticipants, Chats
<1>11. CASE OnPrivateChatMessage /\ Took /\ m.who \in DOMAIN participants
  <2>1. toClient # <<>> /\ m.type = "messageReceived" /\ conn = "open" /\ conn' = conn
    BY <1>11 DEF OnPrivateChatMessage, Receive, Took
  <2>2. m.who \in Others
    BY <2>1, Taken DEF Messages
  <2>3. Synced
    BY <2>1, FitsTaken DEF Fits, Synced, Wire
  <2>4. privateChats' = [privateChats EXCEPT ![m.who] = @ + 1]
    <3>1. CASE m.who \in contacts
      BY <1>11, <3>1 DEF OnPrivateChatMessage
    <3>2. CASE m.who \notin contacts
      BY <1>11, <2>1, <3>2 DEF OnPrivateChatMessage, FailWith, Close, Hangup
    <3> QED
      BY <3>1, <3>2
  <2> QED
    BY <2>2, <2>3, <2>4 DEF Chats
<1> QED
  BY <1>2, <1>3, <1>6, <1>7, <1>8, <1>9, <1>10, <1>11 DEF Step, Handles
LEMMA DisplaysStep ==
  ASSUME Displays, [Next]_vars
  PROVE  Displays'
<1>1. ASSUME UNCHANGED <<chats, displayed>> PROVE Displays'
  BY <1>1 DEF Displays
<1>2. ASSUME NEW site, Crash(site) PROVE Displays'
  BY <1>1, <1>2 DEF Crash, screen
<1>3. ASSUME NEW u, RemoveChat(u) PROVE Displays'
  BY <1>3 DEF RemoveChat, Displays
<1>4. CASE User
  <2>1. CASE OpenMenu
    BY <1>2, <2>1 DEF OpenMenu
  <2>2. CASE RaiseHand \/ Quit \/ \E u \in Users : LowerHand(u)
    BY <1>1, <2>2 DEF RaiseHand, Quit, LowerHand, screen
  <2>3. CASE SwipeChat
    BY <2>3 DEF SwipeChat, DisplayOther, Displays
  <2>4. CASE CloseChat
    BY <2>4 DEF CloseChat, DisplayOther, Displays
  <2>5. ASSUME NEW u \in Others, KickUser(u) PROVE Displays'
    BY <1>2, <1>3, <2>5 DEF KickUser
  <2>6. ASSUME NEW u \in Others, OpenChat(u) PROVE Displays'
    <3>1. CASE chats' = chats \cup {u} /\ displayed' = {u}
      BY <3>1 DEF Displays
    <3> QED
      BY <1>2, <2>6, <3>1 DEF OpenChat
  <2>7. ASSUME NEW u \in Others, SendPrivate(u) PROVE Displays'
    BY <1>1, <1>2, <2>7 DEF SendPrivate
  <2> QED
    BY <1>4, <2>1, <2>2, <2>3, <2>4, <2>5, <2>6, <2>7 DEF User
<1>5. CASE RunPosted
  BY <1>1, <1>2, <1>3, <1>5 DEF RunPosted
<1>6. CASE HandleMessage
  <2>1. ASSUME NEW site, FailWith(site) PROVE UNCHANGED <<chats, displayed>>
    BY <2>1 DEF FailWith, screen
  <2>2. CASE OnConnect \/ OnGetMyUserId \/ OnSharedObjectClear \/ OnQueryParticipants
             \/ OnParticipantJoined \/ OnKickUserCallback
    BY <1>1, <2>2 DEF OnConnect, OnGetMyUserId, OnSharedObjectClear, OnQueryParticipants,
       OnParticipantJoined, OnKickUserCallback, screen
  <2>3. CASE OnParticipantLeft
    BY <1>1, <2>1, <2>3 DEF OnParticipantLeft, ChatLookupFails
  <2>4. CASE OnParticipantStatusChange \/ OnPrivateChatMessage
    BY <1>1, <2>1, <2>4 DEF OnParticipantStatusChange, OnPrivateChatMessage, screen
  <2> QED
    BY <1>6, <2>2, <2>3, <2>4 DEF HandleMessage
<1>7. CASE Server
  BY <1>1, <1>7 DEF Server, ServerAnswers, UserJoins, UserLeaves, PeerWrites, StatusChanges,
     ModeratorKicks, ServerUnchanged, screen
<1>8. CASE UserConnects \/ ThreadReconnects \/ ConnectionLost \/ GiveUp \/ JoinFails
           \/ KickedQuits \/ UNCHANGED vars
  BY <1>1, <1>8 DEF UserConnects, ThreadReconnects, Connect, ConnectionLost, GiveUp, JoinFails,
     KickedQuits, vars, screen
<1> QED
  BY <1>4, <1>5, <1>6, <1>7, <1>8 DEF Next
-----------------------------------------------------------------------------
(* The exceptions, and the bounds.                                          *)
\* Where an exception can be thrown, and what was true there.
Thrown(site) ==
  /\ site \in Sites /\ Threw(site)
  /\ site \in {"participantLeft", "participantStatusChange"} =>
       /\ conn = "open" /\ toClient # <<>> /\ Needs(Head(toClient))
       /\ Head(toClient).who \notin DOMAIN participants
  /\ site \in {"menu", "kickUser"} => conn = "open" /\ Me \notin DOMAIN participants
  /\ site = "openChat" => privateChats = NoModule /\ Others # {}
  /\ site = "contactStatus" =>
       ui # <<>> /\ Head(ui).op = "status" /\ Head(ui).who \notin contacts

LEMMA Throws ==
  ASSUME [Next]_vars
  PROVE  UNCHANGED exceptions \/ \E site \in Sites : Thrown(site)
<1> USE DEF Sites
<1>1. CASE HandleMessage
  <2>1. CASE OnConnect \/ OnGetMyUserId \/ OnSharedObjectClear \/ OnQueryParticipants
             \/ OnParticipantJoined
    BY <2>1 DEF OnConnect, OnGetMyUserId, OnSharedObjectClear, OnQueryParticipants,
       OnParticipantJoined, activity
  <2>2. CASE OnParticipantLeft
    BY <2>2 DEF OnParticipantLeft, FailWith, ChatLookupFails, Thrown, Receive, Needs, activity
  <2>3. CASE OnParticipantStatusChange
    BY <2>3 DEF OnParticipantStatusChange, FailWith, Thrown, Receive, Needs, activity
  <2>4. CASE OnKickUserCallback
    BY <2>4 DEF OnKickUserCallback, activity
  <2>5. CASE OnPrivateChatMessage
    BY <2>5 DEF OnPrivateChatMessage, FailWith, Thrown, activity
  <2> QED
    BY <1>1, <2>1, <2>2, <2>3, <2>4, <2>5 DEF HandleMessage
<1>2. CASE RunPosted
  BY <1>2 DEF RunPosted, Crash, Thrown, activity
<1>3. CASE User
  <2>1. CASE OpenMenu
    BY <2>1 DEF OpenMenu, Crash, Thrown
  <2>2. CASE RaiseHand \/ \E u \in Users : LowerHand(u)
    BY <2>2 DEF RaiseHand, LowerHand, Send, activity
  <2>3. CASE Quit
    BY <2>3 DEF Quit
  <2>4. ASSUME NEW u \in Others, KickUser(u) PROVE UNCHANGED exceptions \/ Thrown("kickUser")
    BY <2>4 DEF KickUser, Crash, Thrown, Send, activity
  <2>5. ASSUME NEW u \in Others, OpenChat(u) PROVE UNCHANGED exceptions \/ Thrown("openChat")
    BY <2>5 DEF OpenChat, Crash, Thrown, activity
  <2>6. ASSUME NEW u \in Others, SendPrivate(u) PROVE UNCHANGED exceptions \/ Thrown("sendPrivate")
    BY <2>6 DEF SendPrivate, Crash, Thrown, Send, activity
  <2>7. CASE SwipeChat \/ CloseChat
    BY <2>7 DEF SwipeChat, CloseChat, activity
  <2> QED
    BY <1>3, <2>1, <2>2, <2>3, <2>4, <2>5, <2>6, <2>7 DEF User
<1>4. CASE Server
  BY <1>4 DEF Server, ServerAnswers, UserJoins, UserLeaves, PeerWrites, StatusChanges,
     ModeratorKicks, ServerUnchanged, activity
<1>5. CASE UserConnects \/ ThreadReconnects
  BY <1>5 DEF UserConnects, ThreadReconnects, Connect
<1>6. CASE ConnectionLost \/ GiveUp \/ JoinFails \/ KickedQuits \/ UNCHANGED vars
  BY <1>6 DEF ConnectionLost, GiveUp, JoinFails, KickedQuits, vars, activity
<1> QED
  BY <1>1, <1>2, <1>3, <1>4, <1>5, <1>6 DEF Next

\* The lookups of a list that mirrors the server's succeed.
LEMMA LookupsStep ==
  ASSUME Types, Current, Contacts, Chats, Lookups, [Next]_vars
  PROVE  Lookups'
<1>1. CASE UNCHANGED exceptions
  BY <1>1 DEF Lookups, LookupsSafeOnceSynced, RunnablesFindContacts
<1>2. ASSUME NEW site \in Sites, Thrown(site) PROVE Lookups'
  <2> DEFINE e == [site |-> site, synced |-> Synced]
  <2>1. exceptions' = exceptions \cup {e} /\ e.site = site /\ (e.synced <=> Synced)
    BY <1>2 DEF Thrown, Threw
  <2> HIDE DEF e
  <2>2. site # "contactStatus"
    <3> SUFFICES ASSUME site = "contactStatus" PROVE FALSE
      OBVIOUS
    <3>1. ui # <<>> /\ Head(ui).op = "status" /\ Head(ui).who \notin contacts
      BY <1>2 DEF Thrown
    <3>2. Head(ui) = ui[1] /\ 1 \in DOMAIN ui
      BY <3>1, TailOf DEF Types
    <3>3. Shown(contacts, ui, 1 - 1, Head(ui).who)
      BY <3>1, <3>2 DEF Contacts
    <3> QED
      BY <3>1, <3>3 DEF Shown
  <2>3. ASSUME site \in {"participantLeft", "participantStatusChange"}, Synced PROVE FALSE
    <3>1. conn = "open" /\ toClient # <<>> /\ Needs(Head(toClient))
          /\ Head(toClient).who \notin DOMAIN participants
      BY <1>2, <2>3 DEF Thrown
    <3>2. Head(toClient) = toClient[1] /\ 1 \in (0 + 1)..Len(toClient)
      BY <3>1, TailOf DEF Types
    <3>3. Listed(participants, toClient, 0, 1 - 1, Head(toClient).who)
      BY <2>3, <3>1, <3>2 DEF Current, Mirror
    <3> QED
      BY <3>1, <3>3 DEF Listed
  <2>4. ASSUME site \in {"menu", "kickUser"}, Synced PROVE FALSE
    BY <1>2, <2>4 DEF Thrown, Current, Mirror
  <2>5. ASSUME site = "openChat", Synced PROVE FALSE
    <3>1. <<>> \in [Others -> Nat] /\ Others # {}
      BY <1>2, <2>5 DEF Thrown, Chats, NoModule
    <3> QED
      BY <3>1
  <2>6. LookupsSafeOnceSynced'
    BY <2>1, <2>2, <2>3, <2>4, <2>5 DEF Lookups, LookupsSafeOnceSynced, Sites
  <2>7. RunnablesFindContacts'
    BY <2>1, <2>2 DEF Lookups, RunnablesFindContacts
  <2> QED
    BY <2>6, <2>7 DEF Lookups
<1> QED
  BY <1>1, <1>2, Throws

LEMMA ActivityStep ==
  ASSUME ActivityTypes, [Next]_vars
  PROVE  ActivityTypes'
<1>1. exceptions' \subseteq [site : Sites, synced : BOOLEAN]
  <2>1. ASSUME NEW site \in Sites, Thrown(site) PROVE exceptions' \subseteq [site : Sites, synced : BOOLEAN]
    <3>1. Synced \in BOOLEAN
      BY DEF Synced
    <3> QED
      BY <2>1, <3>1 DEF Thrown, Threw, ActivityTypes
  <2> QED
    BY <2>1, Throws DEF ActivityTypes
<1>2. events' = events \/ (events < MaxEvents /\ events' = events + 1)
  <2>1. CASE Server
    BY <2>1 DEF Server, ServerAnswers, UserJoins, UserLeaves, PeerWrites, StatusChanges,
       ModeratorKicks, Event
  <2>2. CASE User
    BY <2>2 DEF User, OpenMenu, RaiseHand, Quit, LowerHand, KickUser, OpenChat, SwipeChat,
       CloseChat, SendPrivate, Command, Event
  <2>3. CASE HandleMessage
    BY <2>3 DEF HandleMessage, OnConnect, OnGetMyUserId, OnSharedObjectClear, OnQueryParticipants,
       OnParticipantJoined, OnParticipantLeft, OnParticipantStatusChange, OnKickUserCallback,
       OnPrivateChatMessage, Receive
  <2>4. CASE UserConnects \/ ThreadReconnects \/ ConnectionLost \/ GiveUp \/ JoinFails
             \/ KickedQuits \/ RunPosted \/ UNCHANGED vars
    BY <2>4 DEF UserConnects, ThreadReconnects, Connect, ConnectionLost, GiveUp, JoinFails,
       KickedQuits, RunPosted, vars
  <2> QED
    BY <2>1, <2>2, <2>3, <2>4 DEF Next
<1>3. events' \in 0..MaxEvents
  BY <1>2, LimitsAssumption DEF ActivityTypes
<1>4. /\ app' \in {"running", "finished", "crashed"}
      /\ kicked' \in BOOLEAN /\ reconnecting' \in BOOLEAN
  <2>1. CASE Server
    BY <2>1 DEF Server, ServerAnswers, UserJoins, UserLeaves, PeerWrites, StatusChanges,
       ModeratorKicks, ServerUnchanged, activity, ActivityTypes
  <2>2. CASE User
    <3>1. ASSUME NEW site, Crash(site)
          PROVE  app' = "crashed" /\ kicked' = kicked /\ reconnecting' = reconnecting
      BY <3>1 DEF Crash
    <3>2. ASSUME NEW r, Send(r) PROVE app' = app /\ kicked' = kicked /\ reconnecting' = reconnecting
      BY <3>2 DEF Send, activity
    <3>3. CASE OpenMenu
      BY <3>1, <3>3 DEF OpenMenu, ActivityTypes
    <3>4. CASE RaiseHand \/ \E u \in Users : LowerHand(u)
      BY <3>2, <3>4 DEF RaiseHand, LowerHand, ActivityTypes
    <3>5. CASE Quit
      BY <3>5 DEF Quit, ActivityTypes
    <3>6. CASE \E u \in Others : KickUser(u) \/ SendPrivate(u)
      BY <3>1, <3>2, <3>6 DEF KickUser, SendPrivate, ActivityTypes
    <3>7. CASE \E u \in Others : OpenChat(u)
      BY <3>1, <3>7 DEF OpenChat, activity, ActivityTypes
    <3>8. CASE SwipeChat \/ CloseChat
      BY <3>8 DEF SwipeChat, CloseChat, activity, ActivityTypes
    <3> QED
      BY <2>2, <3>3, <3>4, <3>5, <3>6, <3>7, <3>8 DEF User
  <2>3. CASE HandleMessage
    <3>1. ASSUME NEW site, FailWith(site)
          PROVE  app' = app /\ kicked' = kicked /\ reconnecting' = TRUE
      BY <3>1 DEF FailWith, Close
    <3>2. CASE OnConnect \/ OnGetMyUserId \/ OnSharedObjectClear \/ OnQueryParticipants
               \/ OnParticipantJoined \/ OnKickUserCallback
      BY <3>2 DEF OnConnect, OnGetMyUserId, OnSharedObjectClear, OnQueryParticipants,
         OnParticipantJoined, OnKickUserCallback, Close, activity, ActivityTypes
    <3>3. CASE OnParticipantLeft \/ OnParticipantStatusChange \/ OnPrivateChatMessage
      BY <3>1, <3>3 DEF OnParticipantLeft, ChatLookupFails, OnParticipantStatusChange,
         OnPrivateChatMessage, Close, activity, ActivityTypes
    <3> QED
      BY <2>3, <3>2, <3>3 DEF HandleMessage
  <2>4. CASE RunPosted
    BY <2>4 DEF RunPosted, Crash, activity, ActivityTypes
  <2>5. CASE UserConnects \/ ThreadReconnects \/ ConnectionLost \/ GiveUp \/ JoinFails
             \/ KickedQuits \/ UNCHANGED vars
    BY <2>5 DEF UserConnects, ThreadReconnects, Connect, ConnectionLost, Close, GiveUp, JoinFails,
       KickedQuits, vars, activity, ActivityTypes
  <2> QED
    BY <2>1, <2>2, <2>3, <2>4, <2>5 DEF Next
<1> QED
  BY <1>1, <1>3, <1>4 DEF ActivityTypes

-----------------------------------------------------------------------------
LEMMA InitInv == Init => MInv
<1> SUFFICES ASSUME Init PROVE MInv
  OBVIOUS
<1>1. Types
  <2>1. handRaised \in [Users -> BOOLEAN] /\ members \subseteq Users /\ arrived \subseteq Others
    BY UserSets DEF Init
  <2>2. participants \in [DOMAIN participants -> BOOLEAN] /\ DOMAIN participants = {}
    BY DEF Init, Nobody
  <2>3. toServer \in Seq(Requests) /\ toClient \in Seq(Messages) /\ ui \in Seq(Tasks)
    BY DEF Init
  <2> QED
    BY <2>1, <2>2, <2>3, LimitsAssumption DEF Init, Types
<1>2. ActivityTypes
  <2>1. events \in 0..MaxEvents /\ exceptions = {}
    BY LimitsAssumption DEF Init
  <2>2. kicked \in BOOLEAN /\ reconnecting \in BOOLEAN /\ app = "running"
    BY DEF Init
  <2> QED
    BY <2>1, <2>2 DEF ActivityTypes
<1>3. Wire
  <2>1. ASSUME NEW q, q = <<>>
        PROVE  Quiet(q) /\ Single(q) /\ AllFit(q, sharedObjects, subscribed, Me \in members)
    BY <2>1 DEF Quiet, Single, AllFit
  <2>2. OneHandshake
    BY <2>1 DEF Init, OneHandshake
  <2> QED
    BY <2>1, <2>2 DEF Init, Wire, Synced
<1>4. Roster
  BY DEF Init, Roster, Current, Answered, NoGhosts
<1>5. Contacts
  <2>1. ui = <<>> /\ contacts = {} /\ sharedObjects = {} /\ Len(ui) = 0 /\ DOMAIN ui = {}
    BY DEF Init
  <2> QED
    BY <2>1 DEF Contacts, Shown, InRoster
<1>6. FirstConnection /\ ChatsFollowRoster /\ Chats /\ Displays
  BY DEF Init, FirstConnection, ChatsFollowRoster, Chats, Displays, Synced
<1>7. CountersCoverRoster
  <2>1. DOMAIN participants = {} /\ moderatorCount = 0 /\ participantCount = 0
    BY DEF Init, Nobody
  <2>2. {u \in DOMAIN participants : u \in Moderators} = {}
        /\ {u \in DOMAIN participants : u \notin Moderators} = {}
    BY <2>1
  <2>3. Cardinality({}) = 0
    BY FS_EmptySet
  <2> QED
    BY <2>1, <2>2, <2>3 DEF CountersCoverRoster
<1>8. Lookups
  BY DEF Init, Lookups, LookupsSafeOnceSynced, RunnablesFindContacts
<1> QED
  BY <1>1, <1>2, <1>3, <1>4, <1>5, <1>6, <1>7, <1>8 DEF MInv, Roster

LEMMA StepInv == MInv /\ [Next]_vars => MInv'
<1> SUFFICES ASSUME MInv, [Next]_vars PROVE MInv'
  OBVIOUS
<1>1. /\ Types /\ ActivityTypes /\ Wire /\ Roster /\ Contacts /\ FirstConnection
      /\ ChatsFollowRoster /\ Chats /\ Displays /\ CountersCoverRoster /\ Lookups /\ Answered
      /\ Current
  BY DEF MInv, Roster
<1>2. Step
  BY <1>1, Steps
<1>3. Types' /\ CountersCoverRoster'
  BY <1>1, <1>2, TypesStep, ListStep
<1>4. Wire'
  BY <1>1, <1>2, WireStep
<1>5. Roster'
  BY <1>1, <1>2, <1>3, <1>4, RosterStep
<1>6. Contacts' /\ FirstConnection' /\ ChatsFollowRoster' /\ Chats'
  BY <1>1, <1>2, ContactsStep, FirstStep, ChatsFollowStep, ChatsStep
<1>7. Lookups' /\ ActivityTypes' /\ Displays'
  BY <1>1, LookupsStep, ActivityStep, DisplaysStep
<1> QED
  BY <1>3, <1>4, <1>5, <1>6, <1>7 DEF MInv, Roster

(* The invariant the theorems below rest on.                                *)
THEOREM Invariance == Spec => []MInv
<1> QED
  BY InitInv, StepInv, PTL DEF Spec

(* The variables keep their types: counters never become negative, and no   *)
(* message, request or runnable is posted that nobody knows.                *)
THEOREM TypeCorrect == Spec => []TypeOK
<1>1. MInv => TypeOK
  <2> SUFFICES ASSUME MInv PROVE TypeOK
    OBVIOUS
  <2>1. Types /\ ActivityTypes /\ Displays
    BY DEF MInv
  <2>2. participants \in Statuses
    BY <2>1 DEF Types, Statuses
  <2> QED
    BY <2>1, <2>2 DEF Types, ActivityTypes, Displays, TypeOK
<1> QED
  BY <1>1, Invariance, PTL

(* Once the list of participants was received, however users join, leave    *)
(* and change meanwhile, a lookup without a null check can miss in three    *)
(* places only: the sender of a private message (Client:1012), the peer of  *)
(* the chat one writes to (ChatModule:198), and the displayed chat when the *)
(* peer of another one leaves (PrivateChat:107, 114).                       *)
THEOREM LookupsSafe == Spec => []LookupsSafeOnceSynced
<1>1. MInv => LookupsSafeOnceSynced
  BY DEF MInv, Lookups
<1> QED
  BY <1>1, Invariance, PTL

(* The runnable of a status change finds its contact.                       *)
THEOREM RunnablesFind == Spec => []RunnablesFindContacts
<1>1. MInv => RunnablesFindContacts
  BY DEF MInv, Lookups
<1> QED
  BY <1>1, Invariance, PTL

(* From the query result on, the list and the messages on their way add up  *)
(* to the users and flags of the server, and the counters cover the list.   *)
THEOREM RosterMirrored == Spec => []RosterMirrorsServer
<1>1. MInv => RosterMirrorsServer
  <2> SUFFICES ASSUME MInv PROVE RosterMirrorsServer
    OBVIOUS
  <2>1. Types /\ Wire /\ Current /\ CountersCoverRoster
    BY DEF MInv
  <2>2. DOMAIN toClient = (0 + 1)..Len(toClient) /\ Len(toClient) \in Nat
    BY <2>1 DEF Types
  <2>3. ASSUME conn = "open", Synced
        PROVE  /\ \A j \in DOMAIN toClient : toClient[j].type # "participants"
               /\ \A u \in Users :
                    /\ ListedAfter(participants, toClient, u) <=> u \in members
                    /\ u \in members => RaisedAfter(participants, toClient, u, handRaised[u])
    <3>1. \A j \in DOMAIN toClient : toClient[j].type # "participants"
      BY <2>1, <2>3 DEF Wire, AllFit, Fits, Asks, Synced
    <3>2. /\ \A u \in Users : u \in members <=> Listed(participants, toClient, 0, Len(toClient), u)
          /\ \A u \in Users : u \in members => Raised(participants, toClient, 0, u, handRaised[u])
      BY <2>1, <2>3 DEF Current, Mirror
    <3> DEFINE n == Len(toClient)
    <3>3. DOMAIN toClient = (0 + 1)..n /\ n \in Nat
      BY <2>2
    <3> HIDE DEF n
    <3>4. \A j \in (0 + 1)..n : \A l : l \in (j + 1)..n <=> (l \in (0 + 1)..n /\ l > j)
      BY <3>3
    <3>5. \A u : ListedAfter(participants, toClient, u) <=> Listed(participants, toClient, 0, n, u)
      BY <3>3, <3>4 DEF ListedAfter, Listed
    <3>6. \A u, v : RaisedAfter(participants, toClient, u, v) <=> Raised(participants, toClient, 0, u, v)
      BY <3>3, <3>4 DEF RaisedAfter, Raised, n
    <3> QED
      BY <3>1, <3>2, <3>5, <3>6 DEF n
  <2> QED
    BY <2>1, <2>3 DEF RosterMirrorsServer
<1> QED
  BY <1>1, Invariance, PTL

(* While a connection lasts, once the UI thread has caught up, the contact  *)
(* list is the list of participants of this connection.                     *)
THEOREM ContactsFollow == Spec => []ContactsFollowRoster
<1>1. MInv => ContactsFollowRoster
  <2> SUFFICES ASSUME MInv PROVE ContactsFollowRoster
    OBVIOUS
  <2> DEFINE n == Len(ui)
  <2> SUFFICES ASSUME conn = "open"
               PROVE  \A u \in Users : ShownAfter(contacts, ui, u)
                        <=> "participantsSO" \in sharedObjects /\ u \in DOMAIN participants
    BY DEF ContactsFollowRoster
  <2>1. Types /\ Contacts
    BY DEF MInv
  <2>2. DOMAIN ui = 1..n /\ n \in Nat
    BY <2>1 DEF Types
  <2>3. \A u \in Users : Shown(contacts, ui, n, u)
                           <=> ("participantsSO" \in sharedObjects /\ u \in DOMAIN participants)
    BY <2>1 DEF Contacts, InRoster
  <2> HIDE DEF n
  <2>4. \A j \in 1..n : \A l : l \in (j + 1)..n <=> (l \in 1..n /\ l > j)
    BY <2>2
  <2>5. \A u : ShownAfter(contacts, ui, u) <=> Shown(contacts, ui, n, u)
    BY <2>2, <2>4 DEF ShownAfter, Shown
  <2> QED
    BY <2>3, <2>5
<1> QED
  BY <1>1, Invariance, PTL

(* While the first connection lasts, a private chat is open with a          *)
(* participant only, or with one whose removal waits for the UI thread.     *)
THEOREM ChatsFollow == Spec => []ChatsFollowRoster
<1>1. MInv => ChatsFollowRoster
  BY DEF MInv
<1> QED
  BY <1>1, Invariance, PTL
=============================================================================
