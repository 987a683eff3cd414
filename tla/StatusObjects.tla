----------------------------- MODULE StatusObjects -----------------------------
(* The objects a status-only controller sees: what announces them, no more. *)
EXTENDS Integers

CONSTANT Nil

\* An object, with the observedGeneration of its Available condition (0: none).
Object == [uid: Nat, generation: Nat \ {0}, observed: Nat]

NewObject(uid) == [uid |-> uid, generation |-> 1, observed |-> 0]

ASSUME NilIsNoObject == Nil \notin Object
================================================================================
