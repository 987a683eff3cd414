-------------------------- MODULE AvailableCondition --------------------------
(***************************************************************************)
(* What a reconciler promises about the Available condition of the objects  *)
(* it watches, whatever caches, queues, conflicts and crashes lie between:  *)
(* the condition only ever comes to speak of the generation that is stored. *)
(***************************************************************************)
EXTENDS Integers

CONSTANTS Objects, Nil

VARIABLE objects  \* the stored objects (or Nil): uid, generation, observedGeneration

Init ==
  \A o \in Objects : objects[o] # Nil =>
    objects[o].generation = 1 /\ objects[o].observed = 0

\* A user creates o, changes its spec, or deletes it.
Create(o) ==
  /\ objects[o] = Nil /\ objects'[o] # Nil
  /\ objects' = [objects EXCEPT ![o] =
       [uid |-> objects'[o].uid, generation |-> 1, observed |-> 0]]

Change(o) ==
  /\ objects[o] # Nil
  /\ objects' = [objects EXCEPT ![o].generation = @ + 1]

Delete(o) ==
  /\ objects[o] # Nil
  /\ objects' = [objects EXCEPT ![o] = Nil]

\* The reconciler announces o as it is stored now.
Observe(o) ==
  /\ objects[o] # Nil
  /\ objects' = [objects EXCEPT ![o].observed = objects[o].generation]

Next == \E o \in Objects : Create(o) \/ Change(o) \/ Delete(o) \/ Observe(o)

Spec == Init /\ [][Next]_objects
================================================================================
