-------------------------- MODULE MCMeetingSession --------------------------
(***************************************************************************)
(* The meeting session for TLC, and what the properties say of a queue     *)
(* compared with what handling the queue message by message does.          *)
(***************************************************************************)
EXTENDS MeetingSession, SequencesExt

\* The list of participants after one more message.
Handled(list, m) ==
  CASE m.type = "participantJoined" ->
         [u \in DOMAIN list \cup {m.who} |-> IF u = m.who THEN m.raised ELSE list[u]]
    [] m.type = "participantLeft" -> [u \in DOMAIN list \ {m.who} |-> list[u]]
    [] m.type = "participantStatusChange" ->
         [u \in DOMAIN list |-> IF u = m.who THEN m.raised ELSE list[u]]
    [] OTHER -> list

\* The contacts after one more runnable.
Ran(shown, task) ==
  CASE task.op = "clear" -> {}
    [] task.op = "add" -> shown \cup {task.who}
    [] task.op = "remove" -> shown \ {task.who}
    [] OTHER -> shown

\* Queues of up to three messages about two users, and of runnables.
SomeUsers == {1, 2}
SomeMessages ==
  [type : {"participantJoined", "participantStatusChange"}, who : SomeUsers, raised : BOOLEAN]
    \cup [type : {"participantLeft"}, who : SomeUsers]
SomeTasks == [op : {"add", "remove", "status"}, who : SomeUsers] \cup [op : {"clear"}]
Queues(S) == UNION {[1..n -> S] : n \in 0..3}

(* The last message about a user decides what the whole queue does to it.  *)
ASSUME LastMessageDecides ==
  \A list \in UNION {[S -> BOOLEAN] : S \in SUBSET SomeUsers}, q \in Queues(SomeMessages) :
    LET after == FoldLeft(Handled, list, q) IN
      \A u \in SomeUsers :
        /\ ListedAfter(list, q, u) <=> u \in DOMAIN after
        /\ u \in DOMAIN after => RaisedAfter(list, q, u, after[u])

(* And the last runnable.                                                  *)
ASSUME LastRunnableDecides ==
  \A shown \in SUBSET SomeUsers, q \in Queues(SomeTasks), u \in SomeUsers :
    ShownAfter(shown, q, u) <=> u \in FoldLeft(Ran, shown, q)
=============================================================================
