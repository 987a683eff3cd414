--------------------------- MODULE StatusReconciler ---------------------------
(***************************************************************************)
(* A controller that does nothing but announce the objects of one kind: it  *)
(* writes the Available condition of each in its current generation, from a *)
(* cache that lags the API server.                                          *)
(***************************************************************************)
EXTENDS Streams, StatusObjects

CONSTANTS
  Objects,              \* names of the objects of the kind
  MaxEdits, MaxFaults   \* bounds: user edits, failed calls and restarts

VARIABLES
  objects,  \* stream of snapshots
  queue,    \* the workqueue: names of objects to reconcile
  pc,       \* where the one worker is in Reconcile
  req,      \* the name it reconciles
  copy,     \* its copy of the object
  edits,    \* user edits so far
  faults    \* failed calls and restarts so far

worker == <<pc, req, copy>>
vars == <<objects, queue, worker, edits, faults>>

--------------------------------------------------------------------------------
(* Users *)

WriteObject(o, obj) ==
  /\ edits < MaxEdits /\ edits' = edits + 1
  /\ Room(objects)
  /\ objects' = Commit(objects, o, obj)
  /\ UNCHANGED <<queue, worker, faults>>

CreateObject(o) ==
  Stored(objects)[o] = Nil /\ WriteObject(o, NewObject(edits + 1))

UpdateObject(o) ==
  /\ Stored(objects)[o] # Nil
  /\ WriteObject(o, [Stored(objects)[o] EXCEPT !.generation = @ + 1])

DeleteObject(o) ==
  Stored(objects)[o] # Nil /\ WriteObject(o, Nil)

--------------------------------------------------------------------------------
(* The informer *)

Deliver ==
  /\ InFlight(objects)
  /\ objects' = Tail(objects)
  /\ queue' = queue \cup {o \in Objects : Cached(objects')[o] # Cached(objects)[o]}
  /\ UNCHANGED <<worker, edits, faults>>

\* The informer's periodic resync replays the cached objects as events.
Resync ==
  /\ queue' = queue \cup {o \in Objects : Cached(objects)[o] # Nil}
  /\ UNCHANGED <<objects, worker, edits, faults>>

--------------------------------------------------------------------------------
(* Reconcile *)

Idle == pc' = "idle" /\ req' = Nil /\ copy' = Nil

Done == Idle /\ UNCHANGED queue

\* Reconcile returns the error and the workqueue takes the request back.
Fail == Idle /\ queue' = queue \cup {req}

Fault == faults < MaxFaults /\ faults' = faults + 1

\* Seeded fault: Reconcile goes on without the object.
BeginWithoutReturn(o) ==
  /\ pc = "idle" /\ o \in queue
  /\ queue' = queue \ {o}
  /\ pc' = "status" /\ req' = o /\ copy' = Cached(objects)[o]
  /\ UNCHANGED <<objects, edits, faults>>

\* The Get: not finding the object ends Reconcile.
Begin(o) ==
  /\ pc = "idle" /\ o \in queue
  /\ queue' = queue \ {o}
  /\ LET got == Cached(objects)[o]
     IN \/ got = Nil /\ UNCHANGED worker
        \/ got # Nil /\ pc' = "status" /\ req' = o /\ copy' = got
  /\ UNCHANGED <<objects, edits, faults>>

\* Seeded fault: the status is patched without a resourceVersion.
UpdateStatusUnchecked ==
  /\ pc = "status"
  /\ \/ /\ copy.observed = copy.generation
        /\ Done /\ UNCHANGED <<objects, faults>>
     \/ /\ copy.observed # copy.generation
        /\ Stored(objects)[req] # Nil
        /\ Room(objects)
        /\ objects' = Commit(objects, req,
                             [Stored(objects)[req] EXCEPT !.observed = copy.generation])
        /\ Done /\ UNCHANGED faults
     \/ /\ copy.observed # copy.generation
        /\ Stored(objects)[req] = Nil
        /\ Fail /\ UNCHANGED <<objects, faults>>
  /\ UNCHANGED edits

\* The condition is written, unless it is current in the copy, over the version
\* that was read. The reply to a write that took effect may be lost.
UpdateStatus ==
  /\ pc = "status"
  /\ \/ /\ copy.observed = copy.generation
        /\ Done /\ UNCHANGED <<objects, faults>>
     \/ /\ copy.observed # copy.generation
        /\ Stored(objects)[req] = copy
        /\ Room(objects)
        /\ objects' = Commit(objects, req, [copy EXCEPT !.observed = copy.generation])
        /\ \/ Done /\ UNCHANGED faults
           \/ Fail /\ Fault
     \/ /\ copy.observed # copy.generation
        /\ Stored(objects)[req] # copy  \* Conflict or NotFound
        /\ Fail /\ UNCHANGED <<objects, faults>>
  /\ UNCHANGED edits

\* Seeded fault: the error of the update is swallowed.
CallFailsSwallowed ==
  /\ pc = "status" /\ copy.observed # copy.generation
  /\ Fault /\ Done
  /\ UNCHANGED <<objects, edits>>

\* The update fails and has no effect.
CallFails ==
  /\ pc = "status" /\ copy.observed # copy.generation
  /\ Fault /\ Fail
  /\ UNCHANGED <<objects, edits>>

\* Seeded fault: the restarted informer replays no objects.
RestartSilently ==
  /\ Fault /\ Idle
  /\ objects' = <<Stored(objects)>>
  /\ queue' = {}
  /\ UNCHANGED edits

\* The process dies, or loses the lease, and a fresh one takes over: its cache
\* starts from the stored objects, and every one of them raises an event.
Restart ==
  /\ Fault /\ Idle
  /\ objects' = <<Stored(objects)>>
  /\ queue' = {o \in Objects : Stored(objects)[o] # Nil}
  /\ UNCHANGED edits

--------------------------------------------------------------------------------

\* The operator starts over objects that were stored before it.
Init ==
  /\ objects \in {<<f>> : f \in [Objects -> {Nil, NewObject(0)}]}
  /\ queue = {o \in Objects : Stored(objects)[o] # Nil}
  /\ pc = "idle" /\ req = Nil /\ copy = Nil
  /\ edits = 0 /\ faults = 0

\* Every step but a restart, which a process takes with all its controllers.
Own ==
  \/ \E o \in Objects : CreateObject(o) \/ UpdateObject(o) \/ DeleteObject(o)
  \/ Deliver \/ Resync
  \/ \E o \in Objects : Begin(o)
  \/ UpdateStatus \/ CallFails

Next == Own \/ Restart

Spec == Init /\ [][Next]_vars

\* The informer delivers, the worker goes on, and the workqueue passes no request
\* over for ever. Users, faults and the resync, hours away, owe nothing.
Fairness ==
  /\ \A o \in Objects : SF_vars(Begin(o))
  /\ WF_vars(UpdateStatus)
  /\ WF_vars(Deliver)

FairSpec == Spec /\ Fairness

--------------------------------------------------------------------------------
(* Properties *)

\* Every variable has its type, and the worker has a copy while it works.
TypeOK ==
  /\ objects \in Seq([Objects -> Object \cup {Nil}]) /\ objects # << >>
  /\ queue \subseteq Objects
  /\ pc \in {"idle", "status"}
  /\ req \in Objects \cup {Nil} /\ copy \in Object \cup {Nil}
  /\ pc = "status" => req \in Objects /\ copy \in Object
  /\ edits \in Nat /\ faults \in Nat

\* Only a user or a fault can change anything.
AtRest == pc = "idle" /\ queue = {} /\ ~InFlight(objects)

\* At rest every object's condition speaks of the generation that is stored: no
\* conflict, lost reply, failed call or crash loses an update for good.
AtRestAnnounced ==
  AtRest => \A o \in Objects : LET obj == Stored(objects)[o]
                               IN obj # Nil => obj.observed = obj.generation

\* The controller keeps the promise of AvailableCondition: whatever stale copy it
\* writes over, it only ever announces the generation that is stored.
Contract == INSTANCE AvailableCondition WITH objects <- Stored(objects)

KeepsContract == Contract!Spec

\* Once users and faults stop, every object is announced, and stays so.
EventuallyAnnounced ==
  <>[](\A o \in Objects : LET obj == Stored(objects)[o]
                          IN obj # Nil => obj.observed = obj.generation)
================================================================================
