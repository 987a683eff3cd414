------------------------ MODULE StatusReconciler_proofs ------------------------
(***************************************************************************)
(* A status-only controller loses no announcement and makes no false one,   *)
(* for any objects, any lag of its cache and any number of edits and faults. *)
(***************************************************************************)
EXTENDS StatusReconciler, Streams_proofs

Snapshot == [Objects -> Object \cup {Nil}]

--------------------------------------------------------------------------------
(* Type correctness *)

\* The objects that are written are objects, announced as they should be.
LEMMA WrittenType ==
  /\ \A uid \in Nat : /\ NewObject(uid) \in Object
                      /\ NewObject(uid).generation = 1 /\ NewObject(uid).observed = 0
  /\ \A obj \in Object :
       LET changed == [obj EXCEPT !.generation = @ + 1]
           observed == [obj EXCEPT !.observed = obj.generation]
       IN /\ changed \in Object /\ changed.uid = obj.uid /\ changed.observed = obj.observed
          /\ changed.generation = obj.generation + 1
          /\ observed \in Object /\ observed.uid = obj.uid
          /\ observed.generation = obj.generation /\ observed.observed = obj.generation
  BY DEF NewObject, Object

\* What the cache and the API server hold.
LEMMA EndsType ==
  ASSUME TypeOK
  PROVE  /\ objects \in Seq(Snapshot) /\ objects # << >>
         /\ Cached(objects) \in Snapshot /\ Stored(objects) \in Snapshot
         /\ DOMAIN objects = 1..Len(objects) /\ Len(objects) \in Nat \ {0}
         /\ Cached(objects) = objects[1] /\ Stored(objects) = objects[Len(objects)]
<1>1. objects \in Seq(Snapshot) /\ objects # << >>
  BY DEF TypeOK, Snapshot
<1> QED BY <1>1, StreamEnds

\* What the write of an object does to the stream.
LEMMA CommitObject ==
  ASSUME TypeOK, NEW o \in Objects, NEW obj \in Object \cup {Nil},
         objects' = Commit(objects, o, obj)
  PROVE  /\ objects' \in Seq(Snapshot) /\ objects' # << >>
         /\ DOMAIN objects' = 1..Len(objects) + 1
         /\ \A i \in 1..Len(objects) : objects'[i] = objects[i]
         /\ Cached(objects') = Cached(objects)
         /\ Stored(objects') = [Stored(objects) EXCEPT ![o] = obj]
         /\ Stored(objects') = objects'[Len(objects) + 1]
<1> DEFINE x == [Stored(objects) EXCEPT ![o] = obj]
<1>1. x \in Snapshot /\ objects' = Append(objects, x)
  BY EndsType DEF Snapshot, Commit
<1> HIDE DEF x
<1>2. /\ objects' \in Seq(Snapshot) /\ objects' # << >>
      /\ Len(objects') = Len(objects) + 1
      /\ \A i \in 1..Len(objects) : objects'[i] = objects[i]
      /\ Cached(objects') = Cached(objects)
      /\ Stored(objects') = x
  BY <1>1, StreamAppend, EndsType
<1>3. DOMAIN objects' = 1..Len(objects') /\ Stored(objects') = objects'[Len(objects')]
  BY <1>2, StreamEnds
<1> QED BY <1>2, <1>3 DEF x

\* The writes to the stored objects: those of users, and the controller's own,
\* which is over the stored version.
ObjectWrite(old, new) ==
  \/ old = Nil /\ \E uid \in Nat : new = NewObject(uid)
  \/ old # Nil /\ new = [old EXCEPT !.generation = @ + 1]
  \/ old # Nil /\ new = Nil
  \/ old # Nil /\ new = [old EXCEPT !.observed = old.generation]

\* A step leaves the stream alone, writes one object, delivers or restarts.
LEMMA ObjectSteps ==
  ASSUME TypeOK, [Next]_vars
  PROVE  \/ UNCHANGED objects
         \/ \E o \in Objects, obj \in Object \cup {Nil} :
              objects' = Commit(objects, o, obj) /\ ObjectWrite(Stored(objects)[o], obj)
         \/ InFlight(objects) /\ objects' = Tail(objects)
         \/ objects' = <<Stored(objects)>>
<1>1. Stored(objects) \in Snapshot
  BY EndsType
<1>2. ASSUME NEW o \in Objects, CreateObject(o) \/ UpdateObject(o) \/ DeleteObject(o)
      PROVE  \E obj \in Object \cup {Nil} :
               objects' = Commit(objects, o, obj) /\ ObjectWrite(Stored(objects)[o], obj)
  <2> DEFINE old == Stored(objects)[o]
  <2>1. old \in Object \cup {Nil} /\ edits + 1 \in Nat
    BY <1>1 DEF Snapshot, TypeOK
  <2>2. CASE CreateObject(o)
    <3>1. old = Nil /\ objects' = Commit(objects, o, NewObject(edits + 1))
      BY <2>2 DEF CreateObject, WriteObject
    <3> QED BY <2>1, <3>1, WrittenType DEF ObjectWrite
  <2>3. CASE UpdateObject(o)
    <3>1. old # Nil /\ objects' = Commit(objects, o, [old EXCEPT !.generation = @ + 1])
      BY <2>3 DEF UpdateObject, WriteObject
    <3> QED BY <2>1, <3>1, WrittenType DEF ObjectWrite
  <2>4. CASE DeleteObject(o)
    <3>1. old # Nil /\ objects' = Commit(objects, o, Nil)
      BY <2>4 DEF DeleteObject, WriteObject
    <3> QED BY <3>1 DEF ObjectWrite
  <2> QED BY <1>2, <2>2, <2>3, <2>4
<1>3. CASE UpdateStatus
  <2>1. req \in Objects /\ copy \in Object
    BY <1>3 DEF UpdateStatus, TypeOK
  <2>2. CASE /\ Stored(objects)[req] = copy
             /\ objects' = Commit(objects, req, [copy EXCEPT !.observed = copy.generation])
    <3>1. [copy EXCEPT !.observed = copy.generation] \in Object /\ copy # Nil
      BY <2>1, WrittenType, NilIsNoObject
    <3> QED BY <2>1, <2>2, <3>1 DEF ObjectWrite
  <2> QED BY <1>3, <2>2 DEF UpdateStatus
<1>4. CASE Deliver
  BY <1>4 DEF Deliver
<1>5. CASE Resync \/ CallFails \/ (\E o \in Objects : Begin(o)) \/ UNCHANGED vars
  BY <1>5 DEF Resync, CallFails, Begin, vars
<1>6. CASE Restart
  BY <1>6 DEF Restart
<1> QED BY <1>2, <1>3, <1>4, <1>5, <1>6 DEF Next, Own

\* The part of TypeOK about the queue and the worker.
WorkerType ==
  /\ queue \subseteq Objects
  /\ pc \in {"idle", "status"}
  /\ req \in Objects \cup {Nil} /\ copy \in Object \cup {Nil}
  /\ pc = "status" => req \in Objects /\ copy \in Object

\* Every variable keeps its type.
THEOREM TypeCorrect == Spec => []TypeOK
<1>1. Init => TypeOK
  <2> SUFFICES ASSUME Init PROVE TypeOK
    OBVIOUS
  <2>1. PICK f \in [Objects -> {Nil, NewObject(0)}] : objects = <<f>>
    BY DEF Init
  <2>2. f \in Snapshot
    BY WrittenType DEF Snapshot
  <2>3. objects \in Seq(Snapshot) /\ objects # << >>
    BY <2>1, <2>2, StreamFresh
  <2> QED BY <2>3 DEF Init, TypeOK, Snapshot
<1>2. TypeOK /\ [Next]_vars => TypeOK'
  <2> SUFFICES ASSUME TypeOK, [Next]_vars PROVE TypeOK'
    OBVIOUS
  <2>1. objects' \in Seq(Snapshot) /\ objects' # << >>
    BY ObjectSteps, CommitObject, EndsType, StreamTail, StreamFresh
  <2>2. edits' \in Nat /\ faults' \in Nat
    <3>1. edits' \in {edits, edits + 1} /\ faults' \in {faults, faults + 1}
      BY DEF Next, Own, CreateObject, UpdateObject, DeleteObject, WriteObject, Deliver,
             Resync, Begin, UpdateStatus, CallFails, Restart, Fault, vars
    <3>2. edits \in Nat /\ faults \in Nat
      BY DEF TypeOK
    <3> QED BY <3>1, <3>2
  <2>3. WorkerType'
    <3>1. CASE \/ \E o \in Objects : CreateObject(o) \/ UpdateObject(o) \/ DeleteObject(o)
               \/ Deliver \/ Resync \/ UNCHANGED vars
      BY <3>1 DEF WorkerType, TypeOK, CreateObject, UpdateObject, DeleteObject, WriteObject, Deliver, Resync,
                  vars, worker
    <3>2. ASSUME NEW o \in Objects, Begin(o)
          PROVE  WorkerType'
      BY <3>2, EndsType DEF WorkerType, Begin, TypeOK, worker, Snapshot
    <3>3. CASE Idle /\ (UNCHANGED queue \/ (pc = "status" /\ queue' = queue \cup {req}))
      BY <3>3 DEF WorkerType, Idle, TypeOK
    <3>4. CASE UpdateStatus \/ CallFails
      BY <3>3, <3>4 DEF UpdateStatus, CallFails, Done, Fail
    <3>5. CASE Restart
      BY <3>5 DEF WorkerType, Restart, Idle, TypeOK
    <3> QED BY <3>1, <3>2, <3>4, <3>5 DEF Next, Own
  <2> QED BY <2>1, <2>2, <2>3 DEF WorkerType, TypeOK, Snapshot
<1> QED BY <1>1, <1>2, PTL DEF Spec

--------------------------------------------------------------------------------
(* No announcement is lost *)

\* Why AtRestAnnounced holds: a cached object that is behind on its condition is
\* queued, or is the very copy the worker is reconciling, or has a newer version
\* on its way, whose arrival will queue it.
Pending(o) ==
  LET c == Cached(objects)[o]
  IN c # Nil /\ c.observed # c.generation =>
       \/ o \in queue
       \/ pc = "status" /\ req = o /\ copy = c
       \/ \E i \in DOMAIN objects : objects[i][o] # c

AllPending == \A o \in Objects : Pending(o)

\* The write of an object leaves what was on its way there, and adds a version.
LEMMA PendingWritten ==
  ASSUME TypeOK, NEW o \in Objects, NEW q \in Objects, NEW new \in Object \cup {Nil},
         objects' = Commit(objects, q, new), Pending(o),
         \/ UNCHANGED <<queue, worker>>
         \/ /\ q = req /\ new # Nil /\ new.observed = new.generation
            /\ queue \subseteq queue'
  PROVE  Pending(o)'
<1>1. /\ Cached(objects') = Cached(objects)
      /\ DOMAIN objects' = 1..Len(objects) + 1
      /\ \A i \in 1..Len(objects) : objects'[i] = objects[i]
      /\ objects'[Len(objects) + 1] = [Stored(objects) EXCEPT ![q] = new]
  BY CommitObject
<1>2. DOMAIN objects = 1..Len(objects) /\ Len(objects) \in Nat /\ Stored(objects) \in Snapshot
  BY EndsType
<1>3. objects'[Len(objects) + 1][q] = new
  BY <1>1, <1>2 DEF Snapshot
<1> DEFINE c == Cached(objects)[o]
<1>4. CASE \E i \in DOMAIN objects : objects[i][o] # c
  BY <1>1, <1>2, <1>4 DEF Pending
<1>5. CASE o \in queue
  BY <1>1, <1>5 DEF Pending
<1>6. CASE pc = "status" /\ req = o /\ copy = c
  <2>1. CASE UNCHANGED worker
    BY <1>1, <1>6, <2>1 DEF worker, Pending
  <2>2. CASE q = req /\ new # Nil /\ new.observed = new.generation
    <3>1. CASE c.observed = c.generation
      BY <1>1, <3>1 DEF Pending
    <3>2. CASE c.observed # c.generation
      <4>1. objects'[Len(objects) + 1][o] # c
        BY <1>3, <1>6, <2>2, <3>2
      <4>2. Len(objects) + 1 \in DOMAIN objects'
        BY <1>1, <1>2
      <4> QED BY <1>1, <4>1, <4>2 DEF Pending
    <3> QED BY <3>1, <3>2
  <2> QED BY <2>1, <2>2
<1> QED BY <1>1, <1>4, <1>5, <1>6 DEF Pending

\* The arrival of a version queues the object it is of.
LEMMA PendingDelivered ==
  ASSUME TypeOK, NEW o \in Objects, Pending(o), Deliver
  PROVE  Pending(o)'
<1>1. /\ objects' = Tail(objects) /\ UNCHANGED worker
      /\ queue' = queue \cup {q \in Objects : Cached(objects')[q] # Cached(objects)[q]}
  BY DEF Deliver
<1>2. /\ objects' \in Seq(Snapshot) /\ objects' # << >>
      /\ Len(objects') = Len(objects) - 1
      /\ \A i \in 1..Len(objects) - 1 : objects'[i] = objects[i + 1]
  BY <1>1, EndsType, StreamTail DEF Deliver
<1>3. DOMAIN objects' = 1..Len(objects) - 1
  BY <1>2, StreamEnds
<1>4. /\ DOMAIN objects = 1..Len(objects) /\ Len(objects) \in Nat \ {0}
      /\ Cached(objects) = objects[1]
  BY EndsType
<1> DEFINE c == Cached(objects)[o]
<1>5. CASE Cached(objects')[o] # c
  BY <1>1, <1>5 DEF Pending
<1>6. CASE Cached(objects')[o] = c
  <2>1. ASSUME NEW i \in DOMAIN objects, objects[i][o] # c
        PROVE  \E j \in DOMAIN objects' : objects'[j][o] # c
    <3>1. i # 1 /\ i - 1 \in 1..Len(objects) - 1
      BY <1>4, <2>1
    <3>2. objects'[i - 1] = objects[i]
      BY <1>2, <1>4, <3>1
    <3> QED BY <1>3, <2>1, <3>1, <3>2
  <2> QED BY <1>1, <1>6, <2>1 DEF Pending, worker
<1> QED BY <1>5, <1>6

\* A step that keeps the stream and the queue's requests takes an object from
\* the worker only into the queue, or once it is announced.
LEMMA PendingKept ==
  ASSUME NEW o \in Objects, Pending(o), UNCHANGED objects, queue \subseteq queue',
         \/ UNCHANGED worker
         \/ req \in queue'
         \/ copy.observed = copy.generation
  PROVE  Pending(o)'
  BY DEF Pending, worker, Cached

\* At rest every object is announced in its stored generation, after any history
\* of conflicts, lost replies, failed calls and crashes.
THEOREM NoStatusLost == Spec => []AtRestAnnounced
<1>1. Init => AllPending
  BY DEF Init, AllPending, Pending, Stored, Cached, Last
<1>2. TypeOK /\ AllPending /\ [Next]_vars => AllPending'
  <2> SUFFICES ASSUME TypeOK, AllPending, [Next]_vars, NEW o \in Objects
               PROVE  Pending(o)'
    BY DEF AllPending
  <2>1. Pending(o)
    BY DEF AllPending
  <2>2. ASSUME NEW q \in Objects, CreateObject(q) \/ UpdateObject(q) \/ DeleteObject(q)
        PROVE  Pending(o)'
    <3>1. \E new \in Object \cup {Nil} : objects' = Commit(objects, q, new)
      <4>1. /\ Stored(objects)[q] \in Object \cup {Nil} /\ edits + 1 \in Nat
        BY EndsType DEF Snapshot, TypeOK
      <4> QED BY <2>2, <4>1, WrittenType DEF CreateObject, UpdateObject, DeleteObject, WriteObject
    <3>2. UNCHANGED <<queue, worker>>
      BY <2>2 DEF CreateObject, UpdateObject, DeleteObject, WriteObject
    <3> QED BY <2>1, <3>1, <3>2, PendingWritten
  <2>3. CASE Deliver
    BY <2>1, <2>3, PendingDelivered
  <2>4. CASE Resync \/ UNCHANGED vars
    <3>1. UNCHANGED <<objects, worker>> /\ queue \subseteq queue'
      BY <2>4 DEF Resync, vars
    <3> QED BY <2>1, <3>1, PendingKept
  <2>5. ASSUME NEW q \in Objects, Begin(q)
        PROVE  Pending(o)'
    <3>1. /\ pc = "idle" /\ queue' = queue \ {q} /\ UNCHANGED objects
          /\ Cached(objects') = Cached(objects)
          /\ \/ Cached(objects)[q] = Nil
             \/ pc' = "status" /\ req' = q /\ copy' = Cached(objects)[q]
      BY <2>5 DEF Begin, Cached
    <3> QED BY <2>1, <3>1 DEF Pending
  <2>6. CASE UpdateStatus
    <3>1. req \in Objects /\ copy \in Object
      BY <2>6 DEF UpdateStatus, TypeOK
    <3>2. CASE UNCHANGED objects /\ copy.observed = copy.generation /\ Done
      <4>1. UNCHANGED queue
        BY <3>2 DEF Done
      <4> QED BY <2>1, <3>2, <4>1, PendingKept
    <3>3. CASE UNCHANGED objects /\ Fail
      <4>1. queue' = queue \cup {req}
        BY <3>3 DEF Fail
      <4> QED BY <2>1, <3>3, <4>1, PendingKept
    <3>4. CASE /\ objects' = Commit(objects, req, [copy EXCEPT !.observed = copy.generation])
               /\ (Done \/ Fail)
      <4> DEFINE new == [copy EXCEPT !.observed = copy.generation]
      <4>1. new \in Object /\ new # Nil /\ new.observed = new.generation
        BY <3>1, WrittenType, NilIsNoObject
      <4>2. queue \subseteq queue' /\ objects' = Commit(objects, req, new)
        BY <3>4 DEF Done, Fail
      <4> HIDE DEF new
      <4> QED BY <2>1, <3>1, <4>1, <4>2, PendingWritten
    <3> QED BY <2>6, <3>2, <3>3, <3>4 DEF UpdateStatus
  <2>7. CASE CallFails
    <3>1. UNCHANGED objects /\ queue' = queue \cup {req}
      BY <2>7 DEF CallFails, Fail
    <3> QED BY <2>1, <3>1, PendingKept
  <2>8. CASE Restart
    <3>1. Cached(objects') = Stored(objects) /\ Stored(objects') = Stored(objects)
      BY <2>8, EndsType, StreamFresh DEF Restart
    <3> QED BY <2>8, <3>1 DEF Restart, Pending
  <2> QED BY <2>2, <2>3, <2>4, <2>5, <2>6, <2>7, <2>8 DEF Next, Own
<1>3. TypeOK /\ AllPending => AtRestAnnounced
  <2> SUFFICES ASSUME TypeOK, AllPending, AtRest, NEW o \in Objects, Stored(objects)[o] # Nil
               PROVE  Stored(objects)[o].observed = Stored(objects)[o].generation
    BY DEF AtRestAnnounced
  <2>1. Len(objects) = 1 /\ pc = "idle" /\ queue = {}
    BY EndsType DEF AtRest, InFlight
  <2>2. Stored(objects) = Cached(objects) /\ \A i \in DOMAIN objects : objects[i] = Cached(objects)
    BY <2>1, EndsType
  <2> QED BY <2>1, <2>2 DEF AllPending, Pending
<1> QED BY TypeCorrect, <1>1, <1>2, <1>3, PTL DEF Spec

--------------------------------------------------------------------------------
(* No announcement is false *)

\* Whatever is announced of an object is announced of the generation stored at
\* that moment: the controller implements AvailableCondition.
THEOREM ImplementsAvailableCondition == Spec => KeepsContract
<1>1. Init => Contract!Init
  <2> SUFFICES ASSUME Init, NEW o \in Objects, Stored(objects)[o] # Nil
               PROVE  Stored(objects)[o].generation = 1 /\ Stored(objects)[o].observed = 0
    BY DEF Contract!Init
  <2>1. PICK f \in [Objects -> {Nil, NewObject(0)}] : objects = <<f>>
    BY DEF Init
  <2>2. Stored(objects) = f
    BY <2>1, StreamFresh
  <2> QED BY <2>2, WrittenType
<1>2. TypeOK /\ [Next]_vars => [Contract!Next]_(Stored(objects))
  <2> SUFFICES ASSUME TypeOK, [Next]_vars
               PROVE  Contract!Next \/ Stored(objects') = Stored(objects)
    OBVIOUS
  <2>1. ASSUME NEW o \in Objects, NEW new \in Object \cup {Nil},
               Stored(objects') = [Stored(objects) EXCEPT ![o] = new],
               ObjectWrite(Stored(objects)[o], new)
        PROVE  Contract!Next
    <3> DEFINE old == Stored(objects)[o]
    <3>1. Stored(objects) \in Snapshot /\ old \in Object \cup {Nil} /\ Stored(objects')[o] = new
      BY <2>1, EndsType DEF Snapshot
    <3>2. ASSUME old = Nil, NEW uid \in Nat, new = NewObject(uid)
          PROVE  Contract!Create(o)
      <4>1. new # Nil /\ new = [uid |-> new.uid, generation |-> 1, observed |-> 0]
        BY <3>2, WrittenType, NilIsNoObject DEF NewObject
      <4> QED BY <2>1, <3>1, <3>2, <4>1 DEF Contract!Create
    <3>3. CASE old # Nil /\ new = [old EXCEPT !.generation = @ + 1]
      <4>1. Contract!Change(o)
        BY <2>1, <3>1, <3>3 DEF Contract!Change, Snapshot
      <4> QED BY <4>1 DEF Contract!Next
    <3>4. CASE old # Nil /\ new = Nil
      <4>1. Contract!Delete(o)
        BY <2>1, <3>1, <3>4 DEF Contract!Delete
      <4> QED BY <4>1 DEF Contract!Next
    <3>5. CASE old # Nil /\ new = [old EXCEPT !.observed = old.generation]
      <4>1. Contract!Observe(o)
        BY <2>1, <3>1, <3>5 DEF Contract!Observe, Snapshot
      <4> QED BY <4>1 DEF Contract!Next
    <3> QED BY <2>1, <3>2, <3>3, <3>4, <3>5 DEF ObjectWrite, Contract!Next
  <2>2. CASE UNCHANGED objects \/ (InFlight(objects) /\ objects' = Tail(objects))
             \/ objects' = <<Stored(objects)>>
    BY <2>2, EndsType, StreamTail, StreamFresh DEF Stored
  <2> QED BY <2>1, <2>2, ObjectSteps, CommitObject
<1> QED BY TypeCorrect, <1>1, <1>2, PTL DEF Spec, KeepsContract, Contract!Spec
================================================================================
