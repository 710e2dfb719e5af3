---------------------------- MODULE BroadcastLog ----------------------------
(***************************************************************************)
(* What the frame queue promises its users: every subscriber reads, in     *)
(* order and exactly once, each frame published while it is subscribed     *)
(* (and those still retained when it subscribed); a frame is retained      *)
(* exactly as long as some subscriber still has to release it.             *)
(***************************************************************************)
EXTENDS Naturals

CONSTANTS Subscribers, MaxFrames

VARIABLES
  published,   \* number of frames published to at least one subscriber
  subscribed,  \* current subscribers
  passed,      \* how many frames each subscriber is done with
  reading,     \* subscribers that are looking at frame passed + 1
  retained     \* frames whose storage is kept

logVars == <<published, subscribed, passed, reading, retained>>

\* The frames some subscriber of S still has to release.
Needed(S, done, last) == {i \in 1..last : \E s \in S : done[s] < i}

Init ==
  /\ published = 0
  /\ subscribed = {}
  /\ passed = [s \in Subscribers |-> 0]
  /\ reading = {}
  /\ retained = {}

Publish ==
  /\ subscribed # {}
  /\ published < MaxFrames
  /\ published' = published + 1
  /\ retained' = Needed(subscribed, passed, published')
  /\ UNCHANGED <<subscribed, passed, reading>>

\* A new subscriber starts at the oldest frame that is still retained.
Subscribe(s) ==
  /\ s \notin subscribed
  /\ subscribed' = subscribed \cup {s}
  /\ \E first \in 0..published :
       /\ retained = (first + 1)..published
       /\ passed' = [passed EXCEPT ![s] = first]
  /\ UNCHANGED <<published, reading, retained>>

Read(s) ==
  /\ s \in subscribed \ reading
  /\ passed[s] < published
  /\ reading' = reading \cup {s}
  /\ UNCHANGED <<published, subscribed, passed, retained>>

Release(s) ==
  /\ s \in reading
  /\ reading' = reading \ {s}
  /\ passed' = [passed EXCEPT ![s] = @ + 1]
  /\ retained' = Needed(subscribed, passed', published)
  /\ UNCHANGED <<published, subscribed>>

Unsubscribe(s) ==
  /\ s \in subscribed
  /\ subscribed' = subscribed \ {s}
  /\ reading' = reading \ {s}
  /\ passed' = [passed EXCEPT ![s] = 0]
  /\ retained' = Needed(subscribed', passed', published)
  /\ UNCHANGED published

Next ==
  \/ Publish
  \/ \E s \in Subscribers : Subscribe(s) \/ Read(s) \/ Release(s) \/ Unsubscribe(s)

Spec == Init /\ [][Next]_logVars
=============================================================================
