---------------------------- MODULE AlertDelivery ----------------------------
(***************************************************************************)
(* What the offline queue promises to the agents that use it, without the  *)
(* retry thread, the table or the network: an alert that was accepted is   *)
(* kept until the backend has it, and only then forgotten.  The backend    *)
(* may get an alert again after that (the queue is at-least-once).         *)
(***************************************************************************)
EXTENDS Naturals

CONSTANT Ids    \* the alerts that may be queued

VARIABLES
  kept,         \* alerts accepted and not yet forgotten
  forgotten,    \* alerts accepted and forgotten
  seen          \* alerts the backend has received at least once

abstractVars == <<kept, forgotten, seen>>

Init ==
  /\ kept = {}
  /\ forgotten = {}
  /\ seen = {}

Accept(i) ==
  /\ i \notin kept \cup forgotten
  /\ kept' = kept \cup {i}
  /\ UNCHANGED <<forgotten, seen>>

\* The backend gets an accepted alert for the first time.
Receive(i) ==
  /\ i \in kept \cup forgotten
  /\ seen' = seen \cup {i}
  /\ UNCHANGED <<kept, forgotten>>

Forget(i) ==
  /\ i \in kept \cap seen
  /\ kept' = kept \ {i}
  /\ forgotten' = forgotten \cup {i}
  /\ UNCHANGED seen

Next == \E i \in Ids : Accept(i) \/ Receive(i) \/ Forget(i)

Spec == Init /\ [][Next]_abstractVars
==============================================================================
