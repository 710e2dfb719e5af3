--------------------- MODULE CommandTransactionsProofs ---------------------
(***************************************************************************)
(* What ClientHandler guarantees of its transactions, for any set of       *)
(* threads and any number of commands.                                     *)
(*                                                                         *)
(* MatchWhileSerial is not inductive: it needs that, as long as no two     *)
(* threads have met, one thread at most is between reading the counter and *)
(* the end of its put(), the ids given are distinct and below the counter, *)
(* and every command that is no longer being numbered has its entry.       *)
(***************************************************************************)
EXTENDS CommandTransactions, TLAPS

\* The commands some thread has started to send.
Started == 1..issued

\* What keeps the counter inside its range: an id is never above its command.
Bounded ==
  /\ \A c \in Commands : idOf[c] <= c
  /\ \A c \in Started : idOf[c] >= 1
  /\ \A t \in Threads : step[t] # "idle" => command[t] \in Started

\* A command is in one place: with its thread, on the wire, or answered.
OnePlace ==
  /\ wire \cup results \subseteq Started
  /\ \A t \in Threads : step[t] # "idle" => command[t] \notin wire \cup results
  /\ \A t, u \in Threads :
        t # u /\ step[t] # "idle" /\ step[u] # "idle" => command[t] # command[u]

\* As long as no two threads have met.
Serial ==
  /\ torn = {}
  /\ \A t, u \in Threads : Numbering(t) /\ Numbering(u) => t = u
  /\ \A t \in Threads : step[t] = "increment" => idOf[command[t]] = transactionId
  /\ \A c \in Started : \/ idOf[c] < transactionId
                        \/ \E t \in Threads : step[t] = "increment" /\ command[t] = c
  /\ \A c, d \in Started : idOf[c] = idOf[d] => c = d
  /\ \A c \in Started : \/ commandMap[idOf[c]] = c
                        \/ \E t \in Threads : Numbering(t) /\ command[t] = c
  /\ \A p \in matched : p[1] = p[2]

\* An entry is a started command that carries the id it is stored under, and
\* so is whatever an answer was taken for.
EntriesOwnIds ==
  /\ \A i \in Ids : commandMap[i] # NoCommand
        => commandMap[i] \in Started /\ idOf[commandMap[i]] = i
  /\ \A p \in matched :
        /\ p[1] \in Started
        /\ p[2] # NoCommand => p[2] \in Started /\ idOf[p[1]] = idOf[p[2]]

IInv == TypeOK /\ Bounded /\ OnePlace /\ (~overlapped => Serial) /\ EntriesOwnIds

-----------------------------------------------------------------------------
\* The arithmetic of the bounds, apart from the functions over them.
LEMMA StartedCommands ==
  ASSUME issued \in 0..MaxCommands
  PROVE  /\ Started \subseteq Commands
         /\ issued < MaxCommands => issued + 1 \in Commands
BY TransactionsAssumption DEF Started, Commands

LEMMA InitIInv == Init => IInv
<1> SUFFICES ASSUME Init PROVE IInv
  OBVIOUS
<1>0. transactionId = 1 /\ issued = 0 /\ overlapped = FALSE
  BY DEF Init
<1>1. Started = {} /\ \A t \in Threads : ~Numbering(t)
  BY DEF Init, Started, Numbering
<1>2. TypeOK
  <2>1. transactionId \in 1..(issued + 1) /\ issued \in 0..MaxCommands
    BY <1>0, TransactionsAssumption
  <2>2. /\ commandMap \in [Ids -> Commands \cup {NoCommand}]
        /\ idOf \in [Commands -> Ids \cup {0}]
    BY DEF Init
  <2>3. step \in [Threads -> Steps] /\ command \in [Threads -> Commands \cup {NoCommand}]
    BY DEF Init, Steps
  <2> QED
    BY <2>1, <2>2, <2>3 DEF TypeOK, Init
<1> USE TransactionsAssumption DEF Init, Started, Commands, Ids, NoCommand, Steps
<1>3. Bounded /\ OnePlace
  BY <1>1 DEF Bounded, OnePlace
<1>4. Serial /\ EntriesOwnIds
  BY <1>1 DEF Serial, EntriesOwnIds
<1> QED
  BY <1>2, <1>3, <1>4 DEF IInv

\* The counter, the ids and the other variables keep their types.
LEMMA TypeInductive ==
  ASSUME TypeOK, Bounded, OnePlace, [Next]_vars
  PROVE  TypeOK' /\ Bounded'
<1> USE TransactionsAssumption
    DEF TypeOK, Bounded, Started, Commands, Ids, NoCommand, Steps
<1>1. ASSUME NEW t \in Threads, ReadId(t) PROVE TypeOK' /\ Bounded'
  BY <1>1 DEF ReadId
<1>2. ASSUME NEW t \in Threads, Increment(t) PROVE TypeOK' /\ Bounded'
  <2>1. command[t] \in Started /\ command[t] \in Commands
    BY <1>2, StartedCommands DEF Increment
  <2>2. idOf[command[t]] \in Ids \cup {0} /\ idOf[command[t]] <= command[t]
    BY <2>1
  <2>3. idOf[command[t]] + 1 \in 1..(issued + 1)
    BY <2>1, <2>2
  <2>4. step' \in [Threads -> Steps] /\ \A u \in Threads : step'[u] # "idle" => step[u] # "idle"
    BY <1>2 DEF Increment
  <2> QED
    BY <1>2, <2>3, <2>4 DEF Increment
<1>3. ASSUME NEW t \in Threads, StartPut(t) PROVE TypeOK' /\ Bounded'
  BY <1>3 DEF StartPut
<1>4. ASSUME NEW t \in Threads, EndPut(t) PROVE TypeOK' /\ Bounded'
  BY <1>4 DEF EndPut, Stored
<1>5. ASSUME NEW t \in Threads, Write(t) PROVE TypeOK' /\ Bounded'
  <2>1. command[t] \in Commands /\ wire' \in SUBSET Commands
    BY <1>5, StartedCommands DEF Write
  <2>2. step' \in [Threads -> Steps] /\ \A u \in Threads : step'[u] # "idle" => step[u] # "idle"
    BY <1>5 DEF Write
  <2> QED
    BY <1>5, <2>1, <2>2 DEF Write
<1>6. ASSUME NEW c \in Commands, Answer(c) PROVE TypeOK' /\ Bounded'
  BY <1>6 DEF Answer
<1>7. ASSUME NEW c \in Commands, HandleResult(c) PROVE TypeOK' /\ Bounded'
  <2>1. PICK found \in Lookup(idOf[c]) : matched' = matched \cup {<<c, found>>}
    BY <1>7 DEF HandleResult
  <2>2. idOf[c] \in Ids
    BY <1>7 DEF HandleResult, OnePlace
  <2>3. found \in Commands \cup {NoCommand}
    BY <2>1, <2>2 DEF Lookup
  <2> QED
    BY <1>7, <2>1, <2>3 DEF HandleResult
<1>8. CASE UNCHANGED vars
  BY <1>8 DEF vars
<1> HIDE DEF TypeOK, Bounded
<1> QED
  BY <1>1, <1>2, <1>3, <1>4, <1>5, <1>6, <1>7, <1>8 DEF Next

\* Only Write, Answer and HandleResult move a command on.
LEMMA OnePlaceInductive ==
  ASSUME TypeOK, Bounded, OnePlace, [Next]_vars
  PROVE  OnePlace'
<1> USE DEF TypeOK, Bounded, OnePlace, Started, Commands, Steps
<1>1. ASSUME NEW t \in Threads, ReadId(t) PROVE OnePlace'
  BY <1>1 DEF ReadId
<1>2. ASSUME NEW t \in Threads, Increment(t) PROVE OnePlace'
  BY <1>2 DEF Increment
<1>3. ASSUME NEW t \in Threads, StartPut(t) PROVE OnePlace'
  BY <1>3 DEF StartPut
<1>4. ASSUME NEW t \in Threads, EndPut(t) PROVE OnePlace'
  BY <1>4 DEF EndPut
<1>5. ASSUME NEW t \in Threads, Write(t) PROVE OnePlace'
  BY <1>5 DEF Write
<1>6. ASSUME NEW c \in Commands, Answer(c) PROVE OnePlace'
  BY <1>6 DEF Answer
<1>7. ASSUME NEW c \in Commands, HandleResult(c) PROVE OnePlace'
  BY <1>7 DEF HandleResult
<1>8. CASE UNCHANGED vars
  BY <1>8 DEF vars
<1> QED
  BY <1>1, <1>2, <1>3, <1>4, <1>5, <1>6, <1>7, <1>8 DEF Next

\* Nothing but the thread that numbers disturbs the table while they are
\* serial, and only EndPut and HandleResult touch or read it.
LEMMA SerialInductive ==
  ASSUME IInv, [Next]_vars, ~overlapped'
  PROVE  Serial'
<1>0. /\ TypeOK /\ Bounded /\ OnePlace
      /\ ~overlapped
      /\ Serial
  <2>1. ~overlapped
    BY DEF Next, vars, ReadId, Increment, StartPut, EndPut, Write, Answer, HandleResult
  <2> QED
    BY <2>1 DEF IInv
<1> USE <1>0 DEF TypeOK, Bounded, OnePlace, Started, Commands, Ids, Steps, NoCommand
<1>1. ASSUME NEW t \in Threads, ReadId(t) PROVE Serial'
  <2>1. \A u \in Threads : ~Numbering(u)
    BY <1>1 DEF ReadId, Numbering
  <2>2. \A c \in Started : c # issued' /\ idOf'[c] = idOf[c] /\ idOf[c] < transactionId
    BY <1>1, <2>1 DEF ReadId, Serial, Numbering
  <2>3. /\ issued' = issued + 1 /\ issued' \in Commands
        /\ idOf'[issued'] = transactionId /\ command'[t] = issued'
        /\ step'[t] = "increment"
        /\ \A u \in Threads \ {t} : step'[u] = step[u] /\ command'[u] = command[u]
    <3>1. issued' = issued + 1 /\ issued' \in Commands
      BY <1>1, StartedCommands DEF ReadId
    <3>2. idOf'[issued'] = transactionId
      BY <1>1, <3>1 DEF ReadId
    <3> QED
      BY <1>1, <3>1, <3>2 DEF ReadId
  <2>4. (\A u, v \in Threads : Numbering(u) /\ Numbering(v) => u = v)'
    BY <2>1, <2>3 DEF Numbering
  <2>5. (\A c, d \in Started : idOf[c] = idOf[d] => c = d)'
    BY <2>2, <2>3 DEF Serial
  <2>6. (\A c \in Started : \/ commandMap[idOf[c]] = c
                            \/ \E u \in Threads : Numbering(u) /\ command[u] = c)'
    <3>1. commandMap' = commandMap
      BY <1>1 DEF ReadId
    <3>2. \A c \in Started : commandMap[idOf[c]] = c
      BY <2>1 DEF Serial
    <3>3. Started' = Started \cup {issued'} /\ t \in Threads /\ Numbering(t)'
      BY <2>3 DEF Numbering
    <3>4. ASSUME NEW c \in Started PROVE commandMap'[idOf'[c]] = c
      BY <2>2, <3>1, <3>2
    <3> QED
      BY <2>3, <3>3, <3>4
  <2>7. (\A c \in Started : \/ idOf[c] < transactionId
                            \/ \E u \in Threads : step[u] = "increment" /\ command[u] = c)'
    <3>1. transactionId' = transactionId
      BY <1>1 DEF ReadId
    <3> QED
      BY <2>2, <2>3, <3>1
  <2>8. (\A u \in Threads : step[u] = "increment" => idOf[command[u]] = transactionId)'
    BY <1>1, <2>1, <2>3 DEF ReadId, Numbering
  <2> QED
    BY <1>1, <2>4, <2>5, <2>6, <2>7, <2>8 DEF ReadId, Serial
<1>2. ASSUME NEW t \in Threads, Increment(t) PROVE Serial'
  <2>1. /\ \A u \in Threads : Numbering(u) => u = t
        /\ idOf[command[t]] = transactionId
    BY <1>2 DEF Increment, Serial, Numbering
  <2>2. \A u \in Threads : Numbering(u)' <=> Numbering(u)
    BY <1>2 DEF Increment, Numbering
  <2>3. /\ transactionId' = transactionId + 1
        /\ \A u \in Threads : step'[u] # "increment"
    BY <1>2, <2>1 DEF Increment, Numbering
  <2>4. ASSUME NEW c \in Started PROVE idOf[c] < transactionId'
    <3>1. c \in Commands /\ idOf[c] \in Nat /\ transactionId \in Nat
      BY StartedCommands
    <3>2. idOf[c] < transactionId \/ idOf[c] = transactionId
      BY DEF Serial
    <3> QED
      BY <2>3, <3>1, <3>2
  <2>5. UNCHANGED <<commandMap, command, idOf, issued, torn, matched>>
    BY <1>2 DEF Increment
  <2>6. (\A c \in Started : \/ commandMap[idOf[c]] = c
                            \/ \E u \in Threads : Numbering(u) /\ command[u] = c)'
    BY <2>2, <2>5 DEF Serial
  <2>7. (\A u, v \in Threads : Numbering(u) /\ Numbering(v) => u = v)'
    BY <2>1, <2>2
  <2> QED
    BY <2>3, <2>4, <2>5, <2>6, <2>7 DEF Serial
<1>3. ASSUME NEW t \in Threads, StartPut(t) PROVE Serial'
  <2>1. {u \in Threads : step[u] = "putting"} = {}
    BY <1>3 DEF StartPut, Serial, Numbering
  <2>2. torn' = torn
    BY <1>3, <2>1 DEF StartPut
  <2>3. \A u \in Threads : Numbering(u)' <=> Numbering(u)
    BY <1>3 DEF StartPut, Numbering
  <2>4. \A u \in Threads : step'[u] = "increment" <=> step[u] = "increment"
    BY <1>3 DEF StartPut
  <2> QED
    BY <1>3, <2>2, <2>3, <2>4 DEF StartPut, Serial
<1>4. ASSUME NEW t \in Threads, EndPut(t) PROVE Serial'
  <2>1. commandMap' = [i \in Ids |-> IF i = idOf[command[t]] THEN command[t] ELSE commandMap[i]]
    BY <1>4 DEF EndPut, Stored, Serial
  <2>2. \A u \in Threads : Numbering(u) <=> u = t
    BY <1>4 DEF EndPut, Serial, Numbering
  <2>3. \A u \in Threads : ~Numbering(u)' /\ step'[u] # "increment" /\ step[u] # "increment"
    BY <1>4, <2>2 DEF EndPut, Numbering
  <2>4. ASSUME NEW c \in Started PROVE commandMap'[idOf[c]] = c
    <3>1. idOf[c] \in Ids /\ (idOf[c] = idOf[command[t]] => c = command[t])
      <4>1. c \in Commands /\ idOf[c] >= 1 /\ command[t] \in Started
        BY <1>4, StartedCommands DEF EndPut
      <4> QED
        BY <4>1 DEF Serial
    <3>2. c # command[t] => commandMap[idOf[c]] = c
      BY <2>2 DEF Serial
    <3> QED
      BY <2>1, <3>1, <3>2
  <2> QED
    BY <1>4, <2>3, <2>4 DEF EndPut, Serial
<1>5. ASSUME NEW t \in Threads, Write(t) PROVE Serial'
  <2>1. \A u \in Threads : /\ Numbering(u)' <=> Numbering(u)
                           /\ step'[u] = "increment" <=> step[u] = "increment"
    BY <1>5 DEF Write, Numbering
  <2> QED
    BY <1>5, <2>1 DEF Write, Serial
<1>6. ASSUME NEW c \in Commands, Answer(c) PROVE Serial'
  BY <1>6 DEF Answer, Serial, Numbering
<1>7. ASSUME NEW c \in Commands, HandleResult(c) PROVE Serial'
  <2>1. c \in Started /\ \A t \in Threads : Numbering(t) => command[t] # c
    BY <1>7 DEF HandleResult, Numbering
  <2>2. commandMap[idOf[c]] = c
    BY <2>1 DEF Serial
  <2>3. Lookup(idOf[c]) = {c}
    BY <1>7, <2>2 DEF HandleResult, Lookup
  <2>4. matched' = matched \cup {<<c, c>>}
    BY <1>7, <2>3 DEF HandleResult
  <2> QED
    BY <1>7, <2>4 DEF HandleResult, Serial, Numbering
<1>8. CASE UNCHANGED vars
  BY <1>8 DEF vars, Serial, Numbering
<1> QED
  BY <1>1, <1>2, <1>3, <1>4, <1>5, <1>6, <1>7, <1>8 DEF Next

\* Ids of started commands never change, so an entry keeps its meaning even
\* when threads have met and entries are lost or replaced.
LEMMA EntriesInductive ==
  ASSUME TypeOK, Bounded, OnePlace, EntriesOwnIds, [Next]_vars
  PROVE  EntriesOwnIds'
<1> USE DEF TypeOK, Bounded, OnePlace, Started, Commands, Ids, Steps, NoCommand
<1>1. ASSUME NEW t \in Threads, ReadId(t) PROVE EntriesOwnIds'
  <2>1. issued' = issued + 1 /\ \A c \in Started : c \in Started' /\ idOf'[c] = idOf[c]
    BY <1>1 DEF ReadId
  <2> QED
    BY <1>1, <2>1 DEF ReadId, EntriesOwnIds
<1>2. ASSUME NEW t \in Threads, Increment(t) PROVE EntriesOwnIds'
  BY <1>2 DEF Increment, EntriesOwnIds
<1>3. ASSUME NEW t \in Threads, StartPut(t) PROVE EntriesOwnIds'
  BY <1>3 DEF StartPut, EntriesOwnIds
<1>4. ASSUME NEW t \in Threads, EndPut(t) PROVE EntriesOwnIds'
  <2>1. PICK lost \in SUBSET Ids : commandMap' = Stored(command[t], lost)
    BY <1>4 DEF EndPut
  <2>2. command[t] \in Started /\ idOf' = idOf /\ issued' = issued /\ matched' = matched
    BY <1>4 DEF EndPut
  <2> QED
    BY <2>1, <2>2 DEF Stored, EntriesOwnIds
<1>5. ASSUME NEW t \in Threads, Write(t) PROVE EntriesOwnIds'
  BY <1>5 DEF Write, EntriesOwnIds
<1>6. ASSUME NEW c \in Commands, Answer(c) PROVE EntriesOwnIds'
  BY <1>6 DEF Answer, EntriesOwnIds
<1>7. ASSUME NEW c \in Commands, HandleResult(c) PROVE EntriesOwnIds'
  <2>1. c \in Started /\ idOf[c] \in Ids
    BY <1>7 DEF HandleResult
  <2>2. PICK found \in Lookup(idOf[c]) : matched' = matched \cup {<<c, found>>}
    BY <1>7 DEF HandleResult
  <2>3. found # NoCommand => found \in Started /\ idOf[found] = idOf[c]
    BY <2>1, <2>2 DEF Lookup, EntriesOwnIds
  <2> QED
    BY <1>7, <2>1, <2>2, <2>3 DEF HandleResult, EntriesOwnIds
<1>8. CASE UNCHANGED vars
  BY <1>8 DEF vars, EntriesOwnIds
<1> QED
  BY <1>1, <1>2, <1>3, <1>4, <1>5, <1>6, <1>7, <1>8 DEF Next

LEMMA IInvInvariant == Spec => []IInv
<1>1. IInv /\ [Next]_vars => IInv'
  BY TypeInductive, OnePlaceInductive, SerialInductive, EntriesInductive DEF IInv
<1> QED
  BY InitIInv, <1>1, PTL DEF Spec

-----------------------------------------------------------------------------
\* The id the counter gives next is at most one above the number of commands
\* started, whatever the threads do to it, and every variable keeps its type.
THEOREM TypeCorrect == Spec => []TypeOK
<1>1. IInv => TypeOK
  BY DEF IInv
<1> QED
  BY IInvInvariant, <1>1, PTL

\* writeCommandExpectingResult() and the "_result" branch pair every answer
\* with its command as long as no two threads meet there: always, then, on a
\* video connection, whose only sender is its I/O thread.
THEOREM MatchesWhileSerial == Spec => []MatchWhileSerial
<1>1. IInv => MatchWhileSerial
  BY DEF IInv, Serial, MatchWhileSerial
<1> QED
  BY IInvInvariant, <1>1, PTL

\* However the threads meet, an answer goes to a command of its id or to none.
THEOREM ResolvedSharesIds == Spec => []ResolvedSharesId
<1>1. IInv => ResolvedSharesId
  BY DEF IInv, EntriesOwnIds, ResolvedSharesId
<1> QED
  BY IInvInvariant, <1>1, PTL

\* On a connection with a single sender no two threads ever meet.
THEOREM SingleSenderMatches ==
  ASSUME Threads = {IoThread}
  PROVE  Spec => []\A p \in matched : p[1] = p[2]
<1>1. Init => ~overlapped
  BY DEF Init
<1>2. ~overlapped /\ [Next]_vars => ~overlapped'
  BY DEF Next, vars, ReadId, Increment, StartPut, EndPut, Write, Answer, HandleResult
<1>3. ~overlapped /\ MatchWhileSerial => \A p \in matched : p[1] = p[2]
  BY DEF MatchWhileSerial
<1> QED
  BY MatchesWhileSerial, <1>1, <1>2, <1>3, PTL DEF Spec
=============================================================================
