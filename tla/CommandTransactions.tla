------------------------ MODULE CommandTransactions ------------------------
(* How one RTMP connection numbers the commands it sends and finds out,     *)
(* from the number alone, which command a "_result" answers (ClientHandler  *)
(* of flazr, with the "_result" branches of MainRtmpConnection and          *)
(* VideoRtmpConnection).  Nothing in ClientHandler is locked: the UI thread *)
(* (chat, kicking, muting, ...) and the I/O thread of the connection        *)
(* (connect, getMyUserId, the modules' subscriptions) both go through       *)
(* writeCommandExpectingResult().                                           *)
EXTENDS Naturals

CONSTANTS Threads,      \* the threads that send commands on this connection
          IoThread,     \* the one that also receives the answers
          MaxCommands   \* bound: commands sent in a behaviour

ASSUME TransactionsAssumption == IoThread \in Threads /\ MaxCommands \in Nat

Commands == 1..MaxCommands    \* in the order their threads started to send them
NoCommand == 0                \* HashMap.get() returned null
Ids == 1..MaxCommands         \* transaction ids that can be handed out

VARIABLES
  transactionId,   \* the counter of the handler
  commandMap,      \* transactionToCommandMap: id -> command
  step,            \* where each thread is in writeCommandExpectingResult()
  command,         \* the command it is sending
  idOf,            \* the transaction id stored in each command
  issued,          \* commands started so far
  wire,            \* commands on their way to the server or being served
  results,         \* commands whose "_result" is on its way back
  torn,            \* threads whose put() runs, or ran, beside another one
  matched,         \* history: <<command answered, command it was taken for>>
  overlapped       \* history: two threads were in the handler together

vars == <<transactionId, commandMap, step, command, idOf, issued, wire,
          results, torn, matched, overlapped>>

Steps == {"idle", "increment", "put", "putting", "write"}

Init ==
  /\ transactionId = 1
  /\ commandMap = [i \in Ids |-> NoCommand]
  /\ step = [t \in Threads |-> "idle"]
  /\ command = [t \in Threads |-> NoCommand]
  /\ idOf = [c \in Commands |-> 0]
  /\ issued = 0
  /\ wire = {}
  /\ results = {}
  /\ torn = {}
  /\ matched = {}
  /\ overlapped = FALSE

\* A thread that has read the counter and not yet finished its put().
Numbering(t) == step[t] \in {"increment", "put", "putting"}

\* `transactionId++' reads the counter ...
ReadId(t) ==
  /\ step[t] = "idle"
  /\ issued < MaxCommands
  /\ issued' = issued + 1
  /\ command' = [command EXCEPT ![t] = issued']
  /\ idOf' = [idOf EXCEPT ![issued'] = transactionId]
  /\ step' = [step EXCEPT ![t] = "increment"]
  /\ overlapped' = (overlapped \/ \E u \in Threads \ {t} : Numbering(u))
  /\ UNCHANGED <<transactionId, commandMap, wire, results, torn, matched>>

\* The increment is lost, or done twice.
NoIncrement(t) ==
  /\ step[t] = "increment"
  /\ step' = [step EXCEPT ![t] = "put"]
  /\ UNCHANGED <<transactionId, commandMap, command, idOf, issued, wire, results,
                 torn, matched, overlapped>>

TwiceIncrement(t) ==
  /\ step[t] = "increment"
  /\ transactionId' = idOf[command[t]] + 2
  /\ step' = [step EXCEPT ![t] = "put"]
  /\ UNCHANGED <<commandMap, command, idOf, issued, wire, results, torn,
                 matched, overlapped>>

\* ... and writes it back, in a second access that others may come between.
Increment(t) ==
  /\ step[t] = "increment"
  /\ transactionId' = idOf[command[t]] + 1
  /\ step' = [step EXCEPT ![t] = "put"]
  /\ UNCHANGED <<commandMap, command, idOf, issued, wire, results, torn,
                 matched, overlapped>>

\* The map is a plain HashMap: puts that run at the same time may undo one
\* another's insertions, or lose older entries when the table grows.
StartPut(t) ==
  /\ step[t] = "put"
  /\ step' = [step EXCEPT ![t] = "putting"]
  /\ LET others == {u \in Threads : step[u] = "putting"}
     IN  torn' = IF others = {} THEN torn ELSE torn \cup others \cup {t}
  /\ UNCHANGED <<transactionId, commandMap, command, idOf, issued, wire,
                 results, matched, overlapped>>

\* put(transactionId, ...) instead of the id that was read.
StoredUnderCounter(c, lost) ==
  [i \in Ids |-> IF i \in lost THEN NoCommand
                 ELSE IF i = transactionId THEN c ELSE commandMap[i]]

\* The table after the put() of command c, when `lost' of its entries are lost.
Stored(c, lost) ==
  [i \in Ids |-> IF i \in lost THEN NoCommand
                 ELSE IF i = idOf[c] THEN c ELSE commandMap[i]]

EndPut(t) ==
  /\ step[t] = "putting"
  /\ \E lost \in SUBSET Ids :
        /\ t \notin torn => lost = {}
        /\ commandMap' = Stored(command[t], lost)
  /\ step' = [step EXCEPT ![t] = "write"]
  /\ torn' = torn \ {t}
  /\ UNCHANGED <<transactionId, command, idOf, issued, wire, results, matched,
                 overlapped>>

\* channel.write(): only now can the server see the command.
Write(t) ==
  /\ step[t] = "write"
  /\ wire' = wire \cup {command[t]}
  /\ step' = [step EXCEPT ![t] = "idle"]
  /\ UNCHANGED <<transactionId, commandMap, command, idOf, issued, results,
                 torn, matched, overlapped>>

\* The server answers in any order, and need not answer at all.
Answer(c) ==
  /\ c \in wire
  /\ wire' = wire \ {c}
  /\ results' = results \cup {c}
  /\ UNCHANGED <<transactionId, commandMap, step, command, idOf, issued, torn,
                 matched, overlapped>>

\* get() on the id of an answer; null also while another thread's put() is
\* moving the entries into a larger table.
Lookup(i) ==
  {commandMap[i]} \cup
  (IF \E t \in Threads : step[t] = "putting" THEN {NoCommand} ELSE {})

\* The "_result" branch of messageReceived().  An id that is not tracked is
\* only logged; an entry is never taken out.
HandleResult(c) ==
  /\ step[IoThread] = "idle"
  /\ c \in results
  /\ results' = results \ {c}
  /\ \E found \in Lookup(idOf[c]) : matched' = matched \cup {<<c, found>>}
  /\ overlapped' = (overlapped \/ \E t \in Threads : step[t] = "putting")
  /\ UNCHANGED <<transactionId, commandMap, step, command, idOf, issued, wire,
                 torn>>

Next ==
  \/ \E t \in Threads : \/ ReadId(t) \/ Increment(t) \/ StartPut(t)
                        \/ EndPut(t) \/ Write(t)
  \/ \E c \in Commands : Answer(c) \/ HandleResult(c)

Spec == Init /\ [][Next]_vars

-----------------------------------------------------------------------------
(* Properties *)

\* Type invariant; the counter never runs ahead of the commands started, also
\* when two threads increment it together.
TypeOK ==
  /\ transactionId \in 1..(issued + 1)
  /\ commandMap \in [Ids -> Commands \cup {NoCommand}]
  /\ step \in [Threads -> Steps]
  /\ command \in [Threads -> Commands \cup {NoCommand}]
  /\ idOf \in [Commands -> Ids \cup {0}]
  /\ issued \in 0..MaxCommands
  /\ wire \in SUBSET Commands
  /\ results \in SUBSET Commands
  /\ torn \in SUBSET Threads
  /\ matched \in SUBSET (Commands \X (Commands \cup {NoCommand}))
  /\ overlapped \in BOOLEAN

\* As long as no two threads were in writeCommandExpectingResult() together
\* and no answer was looked up during a put(), every answer is taken for the
\* command it answers: the module that asked gets it, whatever the order of
\* the answers.  This is all ClientHandler promises to its callers.
MatchWhileSerial == ~overlapped => \A p \in matched : p[1] = p[2]

\* Once they were, an answer may be dropped, or handed to the wrong module, but
\* only to one whose command carries the same id.  (That command need not have
\* overlapped this one: a stale write rewinds the counter, and ids of commands
\* long answered are then given again.)
ResolvedSharesId ==
  \A p \in matched : p[2] # NoCommand => idOf[p[1]] = idOf[p[2]]
=============================================================================
