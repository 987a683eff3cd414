-------------------------------- MODULE Streams --------------------------------
(***************************************************************************)
(* A kind of object between the API server and an informer's cache, as a    *)
(* sequence of snapshots of its objects: the first snapshot is what the     *)
(* cache holds, the last what the API server stores, and those between are  *)
(* the watch events still on their way.                                     *)
(***************************************************************************)
EXTENDS Integers, Sequences, SequencesExt

CONSTANT MaxLag  \* bound: undelivered events of a kind

ASSUME MaxLagAssumption == MaxLag \in Nat \ {0}

Cached(stream) == Head(stream)
Stored(stream) == Last(stream)
InFlight(stream) == Len(stream) > 1

\* The write of obj under key k.
Commit(stream, k, obj) == Append(stream, [Stored(stream) EXCEPT ![k] = obj])

\* There is room for one more undelivered event.
Room(stream) == Len(stream) <= MaxLag

\* The cached object k carries the stored resourceVersion: no event on its way
\* concerns it.
InSync(stream, k) == \A i \in DOMAIN stream : stream[i][k] = Cached(stream)[k]
================================================================================
