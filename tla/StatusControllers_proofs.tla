----------------------- MODULE StatusControllers_proofs -----------------------
(***************************************************************************)
(* Each controller of the process behaves as if it were alone, so that what *)
(* is proved of one status-only controller holds of both.                   *)
(***************************************************************************)
EXTENDS StatusControllers, TLAPS

\* A step of the process is a step of each controller, or leaves it alone.
THEOREM ImplementsBoth == Spec => Baselines!Spec /\ Profiles!Spec
<1>1. Init => Baselines!Init /\ Profiles!Init
  BY DEF Init
<1>2. [Next]_vars => [Baselines!Next]_(Baselines!vars) /\ [Profiles!Next]_(Profiles!vars)
  BY DEF Next, Restart, vars, bvars, pvars, Baselines!Next, Profiles!Next,
         Baselines!vars, Profiles!vars, Baselines!worker, Profiles!worker
<1> QED BY <1>1, <1>2, PTL DEF Spec, Baselines!Spec, Profiles!Spec

--------------------------------------------------------------------------------
(* What is proved of one controller, with the variables of each *)

OfBaselines == INSTANCE StatusReconciler_proofs WITH
  Objects <- BaselineNames, objects <- baselines, queue <- bqueue, pc <- bpc,
  req <- breq, copy <- bcopy, edits <- bedits, faults <- bfaults

OfProfiles == INSTANCE StatusReconciler_proofs WITH
  Objects <- ProfileNames, objects <- profiles, queue <- pqueue, pc <- ppc,
  req <- preq, copy <- pcopy, edits <- pedits, faults <- pfaults

\* The assumptions of those proofs hold here.
LEMMA Assumptions ==
  MaxLagAssumption /\ Nil \notin OfBaselines!Object /\ Nil \notin OfProfiles!Object
  BY MaxLagAssumption, NilIsNoObject DEF OfBaselines!Object, OfProfiles!Object, Object

\* They speak of the specification and the properties of the Baselines instance.
LEMMA OfBaselinesSame ==
  /\ Baselines!Init => OfBaselines!Init
  /\ [Baselines!Next]_(Baselines!vars) => [OfBaselines!Next]_(OfBaselines!vars)
  /\ OfBaselines!TypeOK => Baselines!TypeOK
  /\ OfBaselines!AtRestAnnounced => Baselines!AtRestAnnounced
  /\ OfBaselines!Contract!Init => Baselines!Contract!Init
  /\ [OfBaselines!Contract!Next]_(OfBaselines!Stored(baselines)) =>
       [Baselines!Contract!Next]_(Baselines!Stored(baselines))
<1>1. Baselines!Init => OfBaselines!Init
  BY DEF Baselines!Init, Baselines!NewObject, Baselines!Stored, Baselines!Last,
         OfBaselines!Init, OfBaselines!NewObject, OfBaselines!Stored, OfBaselines!Last
<1>2. [Baselines!Next]_(Baselines!vars) => [OfBaselines!Next]_(OfBaselines!vars)
  BY DEF Baselines!Next, Baselines!Own, Baselines!CreateObject, Baselines!UpdateObject,
         Baselines!DeleteObject, Baselines!WriteObject, Baselines!NewObject,
         Baselines!Stored, Baselines!Last, Baselines!Cached, Baselines!Room,
         Baselines!Commit, Baselines!InFlight, Baselines!Deliver, Baselines!Resync,
         Baselines!Begin, Baselines!UpdateStatus, Baselines!CallFails,
         Baselines!Restart, Baselines!Idle, Baselines!Done, Baselines!Fail,
         Baselines!Fault, Baselines!worker, Baselines!vars, OfBaselines!Next,
         OfBaselines!Own, OfBaselines!CreateObject, OfBaselines!UpdateObject,
         OfBaselines!DeleteObject, OfBaselines!WriteObject, OfBaselines!NewObject,
         OfBaselines!Stored, OfBaselines!Last, OfBaselines!Cached, OfBaselines!Room,
         OfBaselines!Commit, OfBaselines!InFlight, OfBaselines!Deliver,
         OfBaselines!Resync, OfBaselines!Begin, OfBaselines!UpdateStatus,
         OfBaselines!CallFails, OfBaselines!Restart, OfBaselines!Idle, OfBaselines!Done,
         OfBaselines!Fail, OfBaselines!Fault, OfBaselines!worker, OfBaselines!vars
<1>3. /\ OfBaselines!TypeOK => Baselines!TypeOK
      /\ OfBaselines!AtRestAnnounced => Baselines!AtRestAnnounced
  BY DEF Baselines!TypeOK, Baselines!Object, Baselines!AtRestAnnounced,
         Baselines!AtRest, Baselines!Stored, Baselines!Last, Baselines!InFlight,
         OfBaselines!TypeOK, OfBaselines!Object, OfBaselines!AtRestAnnounced,
         OfBaselines!AtRest, OfBaselines!Stored, OfBaselines!Last, OfBaselines!InFlight
<1>4. /\ OfBaselines!Contract!Init => Baselines!Contract!Init
      /\ [OfBaselines!Contract!Next]_(OfBaselines!Stored(baselines)) =>
           [Baselines!Contract!Next]_(Baselines!Stored(baselines))
  BY DEF Baselines!Contract!Init, Baselines!Contract!Next, Baselines!Contract!Create,
         Baselines!Contract!Change, Baselines!Contract!Delete,
         Baselines!Contract!Observe, Baselines!Stored, Baselines!Last,
         OfBaselines!Contract!Init, OfBaselines!Contract!Next,
         OfBaselines!Contract!Create, OfBaselines!Contract!Change,
         OfBaselines!Contract!Delete, OfBaselines!Contract!Observe, OfBaselines!Stored,
         OfBaselines!Last
<1> QED BY <1>1, <1>2, <1>3, <1>4

\* What one controller keeps holds of the baselines.
LEMMA OfBaselinesKept ==
  Spec => []Baselines!TypeOK /\ []Baselines!AtRestAnnounced /\ Baselines!KeepsContract
<1>1. Baselines!Spec => OfBaselines!Spec
  BY OfBaselinesSame, PTL DEF Baselines!Spec, OfBaselines!Spec
<1>2. OfBaselines!Spec => []OfBaselines!TypeOK
  BY OfBaselines!TypeCorrect, Assumptions, PTL
<1>3. OfBaselines!Spec => []OfBaselines!AtRestAnnounced
  BY OfBaselines!NoStatusLost, Assumptions, PTL
<1>4. OfBaselines!Spec => OfBaselines!KeepsContract
  BY OfBaselines!ImplementsAvailableCondition, Assumptions, PTL
<1>5. OfBaselines!KeepsContract => Baselines!KeepsContract
  BY OfBaselinesSame, PTL DEF Baselines!KeepsContract, OfBaselines!KeepsContract,
                             Baselines!Contract!Spec, OfBaselines!Contract!Spec
<1> QED BY <1>1, <1>2, <1>3, <1>4, <1>5, OfBaselinesSame, ImplementsBoth, PTL

\* They speak of the specification and the properties of the Profiles instance.
LEMMA OfProfilesSame ==
  /\ Profiles!Init => OfProfiles!Init
  /\ [Profiles!Next]_(Profiles!vars) => [OfProfiles!Next]_(OfProfiles!vars)
  /\ OfProfiles!TypeOK => Profiles!TypeOK
  /\ OfProfiles!AtRestAnnounced => Profiles!AtRestAnnounced
  /\ OfProfiles!Contract!Init => Profiles!Contract!Init
  /\ [OfProfiles!Contract!Next]_(OfProfiles!Stored(profiles)) =>
       [Profiles!Contract!Next]_(Profiles!Stored(profiles))
<1>1. Profiles!Init => OfProfiles!Init
  BY DEF Profiles!Init, Profiles!NewObject, Profiles!Stored, Profiles!Last,
         OfProfiles!Init, OfProfiles!NewObject, OfProfiles!Stored, OfProfiles!Last
<1>2. [Profiles!Next]_(Profiles!vars) => [OfProfiles!Next]_(OfProfiles!vars)
  BY DEF Profiles!Next, Profiles!Own, Profiles!CreateObject, Profiles!UpdateObject,
         Profiles!DeleteObject, Profiles!WriteObject, Profiles!NewObject,
         Profiles!Stored, Profiles!Last, Profiles!Cached, Profiles!Room,
         Profiles!Commit, Profiles!InFlight, Profiles!Deliver, Profiles!Resync,
         Profiles!Begin, Profiles!UpdateStatus, Profiles!CallFails, Profiles!Restart,
         Profiles!Idle, Profiles!Done, Profiles!Fail, Profiles!Fault, Profiles!worker,
         Profiles!vars, OfProfiles!Next, OfProfiles!Own, OfProfiles!CreateObject,
         OfProfiles!UpdateObject, OfProfiles!DeleteObject, OfProfiles!WriteObject,
         OfProfiles!NewObject, OfProfiles!Stored, OfProfiles!Last, OfProfiles!Cached,
         OfProfiles!Room, OfProfiles!Commit, OfProfiles!InFlight, OfProfiles!Deliver,
         OfProfiles!Resync, OfProfiles!Begin, OfProfiles!UpdateStatus,
         OfProfiles!CallFails, OfProfiles!Restart, OfProfiles!Idle, OfProfiles!Done,
         OfProfiles!Fail, OfProfiles!Fault, OfProfiles!worker, OfProfiles!vars
<1>3. /\ OfProfiles!TypeOK => Profiles!TypeOK
      /\ OfProfiles!AtRestAnnounced => Profiles!AtRestAnnounced
  BY DEF Profiles!TypeOK, Profiles!Object, Profiles!AtRestAnnounced, Profiles!AtRest,
         Profiles!Stored, Profiles!Last, Profiles!InFlight, OfProfiles!TypeOK,
         OfProfiles!Object, OfProfiles!AtRestAnnounced, OfProfiles!AtRest,
         OfProfiles!Stored, OfProfiles!Last, OfProfiles!InFlight
<1>4. /\ OfProfiles!Contract!Init => Profiles!Contract!Init
      /\ [OfProfiles!Contract!Next]_(OfProfiles!Stored(profiles)) =>
           [Profiles!Contract!Next]_(Profiles!Stored(profiles))
  BY DEF Profiles!Contract!Init, Profiles!Contract!Next, Profiles!Contract!Create,
         Profiles!Contract!Change, Profiles!Contract!Delete, Profiles!Contract!Observe,
         Profiles!Stored, Profiles!Last, OfProfiles!Contract!Init,
         OfProfiles!Contract!Next, OfProfiles!Contract!Create,
         OfProfiles!Contract!Change, OfProfiles!Contract!Delete,
         OfProfiles!Contract!Observe, OfProfiles!Stored, OfProfiles!Last
<1> QED BY <1>1, <1>2, <1>3, <1>4

\* What one controller keeps holds of the profiles.
LEMMA OfProfilesKept ==
  Spec => []Profiles!TypeOK /\ []Profiles!AtRestAnnounced /\ Profiles!KeepsContract
<1>1. Profiles!Spec => OfProfiles!Spec
  BY OfProfilesSame, PTL DEF Profiles!Spec, OfProfiles!Spec
<1>2. OfProfiles!Spec => []OfProfiles!TypeOK
  BY OfProfiles!TypeCorrect, Assumptions, PTL
<1>3. OfProfiles!Spec => []OfProfiles!AtRestAnnounced
  BY OfProfiles!NoStatusLost, Assumptions, PTL
<1>4. OfProfiles!Spec => OfProfiles!KeepsContract
  BY OfProfiles!ImplementsAvailableCondition, Assumptions, PTL
<1>5. OfProfiles!KeepsContract => Profiles!KeepsContract
  BY OfProfilesSame, PTL DEF Profiles!KeepsContract, OfProfiles!KeepsContract,
                             Profiles!Contract!Spec, OfProfiles!Contract!Spec
<1> QED BY <1>1, <1>2, <1>3, <1>4, <1>5, OfProfilesSame, ImplementsBoth, PTL

--------------------------------------------------------------------------------

\* Every variable of both controllers keeps its type.
THEOREM TypesCorrect == Spec => []TypeOK
BY OfBaselinesKept, OfProfilesKept, PTL DEF TypeOK

\* No restart of the shared process, and nothing else, loses an announcement of
\* either kind.
THEOREM NoStatusLostInEither == Spec => []AtRestAnnounced
BY OfBaselinesKept, OfProfilesKept, PTL DEF AtRestAnnounced

\* Each controller implements AvailableCondition beside the other.
THEOREM KeepBothContracts == Spec => KeepsContracts
BY OfBaselinesKept, OfProfilesKept, PTL DEF KeepsContracts
================================================================================
